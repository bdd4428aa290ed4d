----------------------- MODULE TransactionPagesProofs -----------------------
(***************************************************************************)
(* Proofs about TransactionPages, for any transactions, cards and queries  *)
(* and any number of lists, continuations under way and changes of the     *)
(* cache: types, the order of the table, and, while cards are continued    *)
(* one at a time, the order of the cards and that no page of an earlier    *)
(* list is appended.                                                       *)
(*                                                                         *)
(* First what the model's sequences are: Sorted lists a set, Filtered a    *)
(* part of a sequence, and a page the first rows of what was found.  Then  *)
(* the invariants, an action at a time.                                    *)
(***************************************************************************)
EXTENDS TransactionPages, FiniteSetTheorems, SequenceTheorems, TLAPS

-----------------------------------------------------------------------------
(* Finite sets in order *)

\* R orders S strictly, and leaves no two elements of it unordered.
Orders(R, S) ==
    /\ \A a \in S : <<a, a>> \notin R
    /\ \A a, b \in S : a # b => <<a, b>> \in R \/ <<b, a>> \in R
    /\ \A a, b, c \in S : <<a, b>> \in R /\ <<b, c>> \in R => <<a, c>> \in R

\* How many elements of S come before r.
Rank(R, S, r) == Cardinality({x \in S : <<x, r>> \in R})

LEMMA FirstNumbers ==
    ASSUME NEW n \in Nat
    PROVE  IsFiniteSet(1 .. n) /\ Cardinality(1 .. n) = n
<1>1. 1 \in Int /\ n \in Int
  OBVIOUS
<1>2. /\ IsFiniteSet(1 .. n)
      /\ Cardinality(1 .. n) = IF 1 > n THEN 0 ELSE n - 1 + 1
  BY <1>1, FS_Interval
<1> QED BY <1>2

\* A subset without one of the elements is smaller.
LEMMA OneMore ==
    ASSUME NEW S, IsFiniteSet(S), NEW x, x \in S, NEW T, T \subseteq S, x \notin T
    PROVE  Cardinality(T) < Cardinality(S)
<1>1. T \subseteq S \ {x}
  OBVIOUS
<1>2. IsFiniteSet(S \ {x}) /\ Cardinality(S \ {x}) = Cardinality(S) - 1
  BY FS_RemoveElement
<1>3. Cardinality(T) <= Cardinality(S \ {x})
  BY <1>1, <1>2, FS_Subset
<1>4. Cardinality(S) \in Nat /\ Cardinality(T) \in Nat
  BY <1>1, <1>2, FS_Subset, FS_CardinalityType
<1> QED BY <1>2, <1>3, <1>4

\* Ranks are numbers below the size of the set, and order its elements.
LEMMA RanksOrder ==
    ASSUME NEW S, IsFiniteSet(S), NEW R, Orders(R, S), NEW a \in S, NEW b \in S
    PROVE  /\ Rank(R, S, a) \in Nat
           /\ Rank(R, S, a) < Cardinality(S)
           /\ <<a, b>> \in R <=> Rank(R, S, a) < Rank(R, S, b)
           /\ Rank(R, S, a) = Rank(R, S, b) => a = b
<1> DEFINE Of(r) == {x \in S : <<x, r>> \in R}
<1>1. ASSUME NEW r \in S
      PROVE  /\ Of(r) \subseteq S /\ IsFiniteSet(Of(r))
             /\ Cardinality(Of(r)) \in Nat
             /\ r \notin Of(r)
  <2>1. Of(r) \subseteq S /\ r \notin Of(r)
    BY DEF Orders
  <2> HIDE DEF Of
  <2> QED BY <2>1, FS_Subset, FS_CardinalityType
<1>2. ASSUME NEW r \in S, NEW s \in S, <<r, s>> \in R
      PROVE  Of(r) \subseteq Of(s) /\ r \in Of(s)
  BY <1>2 DEF Orders
<1>3. a = b \/ <<a, b>> \in R \/ <<b, a>> \in R
  BY DEF Orders
<1>4. ~(<<a, b>> \in R /\ <<b, a>> \in R)
  BY DEF Orders
<1>5. Rank(R, S, a) = Cardinality(Of(a)) /\ Rank(R, S, b) = Cardinality(Of(b))
  BY DEF Rank
<1> HIDE DEF Of
<1>6. <<a, b>> \in R => Cardinality(Of(a)) < Cardinality(Of(b))
  BY <1>1, <1>2, OneMore
<1>7. <<b, a>> \in R => Cardinality(Of(b)) < Cardinality(Of(a))
  BY <1>1, <1>2, OneMore
<1>8. Cardinality(Of(a)) < Cardinality(S)
  BY <1>1, OneMore
<1>9. Cardinality(Of(a)) \in Nat /\ Cardinality(Of(b)) \in Nat
  BY <1>1
<1> QED BY <1>3, <1>4, <1>5, <1>6, <1>7, <1>8, <1>9

\* Every number below the size of the set is the rank of one of its elements.
LEMMA RankExists ==
    ASSUME NEW S, IsFiniteSet(S), NEW R, Orders(R, S), NEW k \in 1 .. Cardinality(S)
    PROVE  \E r \in S : Rank(R, S, r) = k - 1
<1> DEFINE f == [r \in S |-> Rank(R, S, r) + 1]
<1>1. Cardinality(S) \in Nat
  BY FS_CardinalityType
<1>2. \A r \in S : Rank(R, S, r) \in Nat /\ Rank(R, S, r) < Cardinality(S)
  BY RanksOrder
<1>3. f \in [S -> 1 .. Cardinality(S)]
  BY <1>1, <1>2
<1>4. \A a, b \in S : f[a] = f[b] => a = b
  <2> TAKE a, b \in S
  <2>1. f[a] = f[b] => Rank(R, S, a) = Rank(R, S, b)
    BY <1>2
  <2> QED BY <2>1, RanksOrder
<1> HIDE DEF f
<1>5. f \in Injection(S, 1 .. Cardinality(S))
  BY <1>3, <1>4 DEF Injection, IsInjective
<1>6. /\ IsFiniteSet(1 .. Cardinality(S))
      /\ Cardinality(1 .. Cardinality(S)) = Cardinality(S)
  BY <1>1, FirstNumbers
<1>7. f \in Surjection(S, 1 .. Cardinality(S))
  BY <1>5, <1>6, FS_Injection
<1>8. PICK r \in S : f[r] = k
  BY <1>7 DEF Surjection
<1> QED BY <1>2, <1>8 DEF f

\* The list of the elements of S, each at the place of its rank.
Listing(R, S) == [k \in 1 .. Cardinality(S) |-> CHOOSE r \in S : Rank(R, S, r) = k - 1]

LEMMA ListingInOrder ==
    ASSUME NEW S, IsFiniteSet(S), NEW R, Orders(R, S)
    PROVE  /\ Cardinality(S) \in Nat
           /\ Listing(R, S) \in [1 .. Cardinality(S) -> S]
           /\ \A i, j \in 1 .. Cardinality(S) :
                  i < j <=> <<Listing(R, S)[i], Listing(R, S)[j]>> \in R
           /\ \A r \in S : \E k \in 1 .. Cardinality(S) : Listing(R, S)[k] = r
           /\ \A k \in 1 .. Cardinality(S) : Rank(R, S, Listing(R, S)[k]) = k - 1
<1> DEFINE s == Listing(R, S)
           n == Cardinality(S)
<1>1. n \in Nat
  BY FS_CardinalityType
<1>2. ASSUME NEW k \in 1 .. n PROVE s[k] \in S /\ Rank(R, S, s[k]) = k - 1
  <2>1. \E r \in S : Rank(R, S, r) = k - 1
    BY RankExists
  <2>2. s[k] = CHOOSE r \in S : Rank(R, S, r) = k - 1
    BY DEF Listing
  <2> QED BY <2>1, <2>2
<1>3. s = [k \in 1 .. n |-> s[k]]
  BY DEF Listing
<1> HIDE DEF s, n
<1>4. ASSUME NEW i \in 1 .. n, NEW j \in 1 .. n
      PROVE  i < j <=> <<s[i], s[j]>> \in R
  <2>1. <<s[i], s[j]>> \in R <=> Rank(R, S, s[i]) < Rank(R, S, s[j])
    BY <1>2, RanksOrder
  <2>2. Rank(R, S, s[i]) = i - 1 /\ Rank(R, S, s[j]) = j - 1
    BY <1>2
  <2> QED BY <1>1, <2>1, <2>2
<1>5. ASSUME NEW r \in S PROVE \E k \in 1 .. n : s[k] = r
  <2> DEFINE k == Rank(R, S, r) + 1
  <2>1. k \in 1 .. n /\ k - 1 = Rank(R, S, r)
    <3>1. Rank(R, S, r) \in Nat /\ Rank(R, S, r) < n
      BY RanksOrder DEF n
    <3> QED BY <1>1, <3>1
  <2> HIDE DEF k
  <2>2. s[k] \in S /\ Rank(R, S, s[k]) = Rank(R, S, r)
    BY <1>2, <2>1
  <2>3. s[k] = r
    BY <2>2, RanksOrder
  <2> QED BY <2>1, <2>3
<1>6. s \in [1 .. n -> S]
  BY <1>2, <1>3
<1> QED BY <1>1, <1>2, <1>4, <1>5, <1>6 DEF s, n

-----------------------------------------------------------------------------
(* Rows in order *)

LEMMA RowsFinite ==
    ASSUME NEW S \in SUBSET Rows
    PROVE  IsFiniteSet(S) /\ Cardinality(S) \in Nat
  BY RowsAssumption, FS_Subset, FS_CardinalityType

LEMMA BeforeIsOrder ==
    /\ \A a \in Rows : ~Before(a, a)
    /\ \A a, b \in Rows : a # b => Before(a, b) \/ Before(b, a)
    /\ \A a, b \in Rows : Before(a, b) => ~Before(b, a)
    /\ \A a, b, c \in Rows : Before(a, b) /\ Before(b, c) => Before(a, c)
<1>1. \A a \in Rows : DateOf[a] \in Nat /\ a \in Nat
  BY RowsAssumption, ContentAssumption
<1> QED BY <1>1 DEF Before

BeforeRel == {e \in Rows \X Rows : Before(e[1], e[2])}

\* The rows of a sequence in their order, without repetition.
InOrder(s) == \A i, j \in DOMAIN s : i < j => Before(s[i], s[j])

LEMMA SortedIsListing ==
    ASSUME NEW S \in SUBSET Rows
    PROVE  Orders(BeforeRel, S) /\ Sorted(S) = Listing(BeforeRel, S)
<1>1. \A a, b \in S : <<a, b>> \in BeforeRel <=> Before(a, b)
  BY DEF BeforeRel
<1>2. Orders(BeforeRel, S)
  BY <1>1, BeforeIsOrder DEF Orders
<1>3. \A r \in S : Rank(BeforeRel, S, r) = Cardinality({x \in S : Before(x, r)})
  <2> SUFFICES ASSUME NEW r \in S
               PROVE  {x \in S : <<x, r>> \in BeforeRel} = {x \in S : Before(x, r)}
    BY DEF Rank
  <2> QED BY <1>1
<1>4. ASSUME NEW k \in 1 .. Cardinality(S)
      PROVE  (CHOOSE r \in S : Cardinality({x \in S : Before(x, r)}) = k - 1)
                 = CHOOSE r \in S : Rank(BeforeRel, S, r) = k - 1
  <2>1. \A r : (r \in S /\ Cardinality({x \in S : Before(x, r)}) = k - 1)
                 <=> (r \in S /\ Rank(BeforeRel, S, r) = k - 1)
    BY <1>3
  <2> QED BY <2>1
<1>5. Sorted(S) = Listing(BeforeRel, S)
  <2> DEFINE n == Cardinality(S)
             F(k) == CHOOSE r \in S : Cardinality({x \in S : Before(x, r)}) = k - 1
             G(k) == CHOOSE r \in S : Rank(BeforeRel, S, r) = k - 1
  <2>1. Sorted(S) = [k \in 1 .. n |-> F(k)] /\ Listing(BeforeRel, S) = [k \in 1 .. n |-> G(k)]
    BY DEF Sorted, Listing
  <2>2. \A k \in 1 .. n : F(k) = G(k)
    BY <1>4
  <2> HIDE DEF F, G, n
  <2> QED BY <2>1, <2>2
<1> QED BY <1>2, <1>5

LEMMA SortedInOrder ==
    ASSUME NEW S \in SUBSET Rows
    PROVE  /\ Sorted(S) \in Seq(Rows)
           /\ Len(Sorted(S)) = Cardinality(S)
           /\ InOrder(Sorted(S))
           /\ ToSet(Sorted(S)) = S
<1> DEFINE s == Sorted(S)
           n == Cardinality(S)
<1>1. n \in Nat /\ IsFiniteSet(S)
  BY RowsFinite
<1>2. /\ s \in [1 .. n -> S]
      /\ \A i, j \in 1 .. n : i < j => <<s[i], s[j]>> \in BeforeRel
      /\ \A r \in S : \E k \in 1 .. n : s[k] = r
  BY <1>1, SortedIsListing, ListingInOrder
<1> HIDE DEF s, n
<1>3. s \in Seq(Rows) /\ Len(s) = n /\ DOMAIN s = 1 .. n
  BY <1>1, <1>2
<1>4. InOrder(s)
  <2> SUFFICES ASSUME NEW i \in 1 .. n, NEW j \in 1 .. n, i < j PROVE Before(s[i], s[j])
    BY <1>3 DEF InOrder
  <2>1. <<s[i], s[j]>> \in BeforeRel
    BY <1>2
  <2>2. DEFINE e == <<s[i], s[j]>>
  <2>3. e[1] = s[i] /\ e[2] = s[j]
    OBVIOUS
  <2> QED BY <2>1, <2>3 DEF BeforeRel
<1>5. ToSet(s) = S
  BY <1>2, <1>3 DEF ToSet
<1> QED BY <1>3, <1>4, <1>5 DEF s, n

LEMMA InOrderDistinct ==
    ASSUME NEW s \in Seq(Rows), InOrder(s)
    PROVE  /\ \A i, j \in 1 .. Len(s) : s[i] = s[j] => i = j
           /\ \A i, j \in 1 .. Len(s) : Before(s[i], s[j]) => i < j
           /\ IsFiniteSet(ToSet(s)) /\ Cardinality(ToSet(s)) = Len(s)
           /\ Distinct(s)
<1>1. Len(s) \in Nat /\ DOMAIN s = 1 .. Len(s) /\ \A i \in 1 .. Len(s) : s[i] \in Rows
  OBVIOUS
<1>2. ASSUME NEW i \in 1 .. Len(s), NEW j \in 1 .. Len(s)
      PROVE  (s[i] = s[j] => i = j) /\ (Before(s[i], s[j]) => i < j)
  <2>1. i < j => Before(s[i], s[j])
    BY <1>1 DEF InOrder
  <2>2. j < i => Before(s[j], s[i])
    BY <1>1 DEF InOrder
  <2>3. s[i] \in Rows /\ s[j] \in Rows
    BY <1>1
  <2>4. i < j \/ j < i \/ i = j
    BY <1>1
  <2> QED BY <2>1, <2>2, <2>3, <2>4, BeforeIsOrder
<1>3. s \in [1 .. Len(s) -> ToSet(s)]
  BY <1>1 DEF ToSet
<1>4. s \in Surjection(1 .. Len(s), ToSet(s)) /\ s \in Injection(1 .. Len(s), ToSet(s))
  <2>1. \A t \in ToSet(s) : \E i \in 1 .. Len(s) : s[i] = t
    BY <1>1 DEF ToSet
  <2> QED BY <1>2, <1>3, <2>1 DEF Surjection, Injection, IsInjective
<1>5. IsFiniteSet(1 .. Len(s)) /\ Cardinality(1 .. Len(s)) = Len(s)
  BY <1>1, FirstNumbers
<1>6. IsFiniteSet(ToSet(s)) /\ Cardinality(ToSet(s)) = Len(s)
  BY <1>4, <1>5, FS_Surjection
<1> QED BY <1>2, <1>6 DEF Distinct

\* Only one sequence lists a set in order.
LEMMA SortedUnique ==
    ASSUME NEW s \in Seq(Rows), InOrder(s)
    PROVE  s = Sorted(ToSet(s))
<1> DEFINE S == ToSet(s)
           t == Sorted(S)
<1>1. Len(s) \in Nat /\ DOMAIN s = 1 .. Len(s) /\ \A i \in 1 .. Len(s) : s[i] \in Rows
  OBVIOUS
<1>2. S \in SUBSET Rows
  BY <1>1 DEF ToSet
<1>3. IsFiniteSet(S) /\ Cardinality(S) = Len(s) /\ Orders(BeforeRel, S)
  BY <1>2, InOrderDistinct, SortedIsListing
<1>4. /\ t \in [1 .. Len(s) -> S]
      /\ \A k \in 1 .. Len(s) : Rank(BeforeRel, S, t[k]) = k - 1
  BY <1>2, <1>3, SortedIsListing, ListingInOrder
<1>5. ASSUME NEW k \in 1 .. Len(s)
      PROVE  s[k] \in S /\ Rank(BeforeRel, S, s[k]) = k - 1
  <2> DEFINE P == {x \in S : <<x, s[k]>> \in BeforeRel}
             f == [i \in 1 .. k - 1 |-> s[i]]
  <2>1. \A a, b \in S : <<a, b>> \in BeforeRel <=> Before(a, b)
    BY <1>2 DEF BeforeRel
  <2>2. s[k] \in S
    BY <1>1 DEF ToSet
  <2>3. \A i \in 1 .. k - 1 : i \in 1 .. Len(s) /\ i < k
    BY <1>1
  <2>4. \A i \in 1 .. k - 1 : s[i] \in P
    BY <1>1, <2>1, <2>2, <2>3 DEF InOrder, ToSet
  <2>5. \A x \in P : \E i \in 1 .. k - 1 : s[i] = x
    <3> TAKE x \in P
    <3>1. PICK i \in 1 .. Len(s) : s[i] = x
      BY <1>1 DEF ToSet
    <3>2. i < k
      BY <2>1, <2>2, <3>1, InOrderDistinct
    <3> QED BY <1>1, <3>1, <3>2
  <2> HIDE DEF P, S
  <2>6. f \in Surjection(1 .. k - 1, P) /\ f \in Injection(1 .. k - 1, P)
    BY <2>3, <2>4, <2>5, InOrderDistinct DEF Surjection, Injection, IsInjective
  <2>7. IsFiniteSet(1 .. k - 1) /\ Cardinality(1 .. k - 1) = k - 1
    <3>1. k - 1 \in Nat
      BY <1>1
    <3> QED BY <3>1, FirstNumbers
  <2> HIDE DEF f
  <2>8. Cardinality(P) = k - 1
    BY <2>6, <2>7, FS_Surjection
  <2> QED BY <2>2, <2>8 DEF Rank, P
<1> HIDE DEF S, t
<1>6. \A k \in 1 .. Len(s) : s[k] = t[k]
  BY <1>3, <1>4, <1>5, RanksOrder
<1>7. s = [k \in 1 .. Len(s) |-> s[k]] /\ t = [k \in 1 .. Len(s) |-> t[k]]
  BY <1>1, <1>4
<1> QED BY <1>6, <1>7 DEF S, t

LEMMA SortedSet ==
    ASSUME NEW s \in Seq(Rows), InOrder(s), NEW S, ToSet(s) = S
    PROVE  s = Sorted(S)
  BY SortedUnique

\* Two sets, all of one before all of the other.
LEMMA SortedConcat ==
    ASSUME NEW A \in SUBSET Rows, NEW B \in SUBSET Rows,
           \A a \in A, b \in B : Before(a, b)
    PROVE  Sorted(A) \o Sorted(B) = Sorted(A \cup B)
<1> DEFINE s == Sorted(A)
           t == Sorted(B)
           u == s \o t
<1>1. s \in Seq(Rows) /\ InOrder(s) /\ ToSet(s) = A
  BY SortedInOrder
<1>2. t \in Seq(Rows) /\ InOrder(t) /\ ToSet(t) = B
  BY SortedInOrder
<1> HIDE DEF s, t
<1>3. /\ u \in Seq(Rows) /\ Len(u) = Len(s) + Len(t)
      /\ Len(s) \in Nat /\ Len(t) \in Nat
      /\ DOMAIN u = 1 .. Len(s) + Len(t)
      /\ DOMAIN s = 1 .. Len(s) /\ DOMAIN t = 1 .. Len(t)
  BY <1>1, <1>2
<1>4. \A i \in 1 .. Len(s) : i \in DOMAIN u /\ u[i] = s[i] /\ u[i] \in A
  BY <1>1, <1>2, <1>3 DEF ToSet
<1>5. \A i \in 1 .. Len(t) : Len(s) + i \in DOMAIN u /\ u[Len(s) + i] = t[i]
                               /\ u[Len(s) + i] \in B
  BY <1>1, <1>2, <1>3 DEF ToSet
<1>6. \A i \in DOMAIN u : i \in 1 .. Len(s) \/ \E j \in 1 .. Len(t) : i = Len(s) + j
  <2> TAKE i \in DOMAIN u
  <2>1. i \notin 1 .. Len(s) => i - Len(s) \in 1 .. Len(t) /\ i = Len(s) + (i - Len(s))
    BY <1>3
  <2> QED BY <2>1
<1> HIDE DEF u
<1>7. InOrder(u)
  <2> SUFFICES ASSUME NEW i \in DOMAIN u, NEW j \in DOMAIN u, i < j
               PROVE  Before(u[i], u[j])
    BY DEF InOrder
  <2>1. CASE i \in 1 .. Len(s) /\ j \in 1 .. Len(s)
    BY <1>1, <1>3, <1>4, <2>1 DEF InOrder
  <2>2. CASE i \in 1 .. Len(s) /\ \E k \in 1 .. Len(t) : j = Len(s) + k
    BY <1>4, <1>5, <2>2
  <2>3. CASE (\E k \in 1 .. Len(t) : i = Len(s) + k) /\ j \in 1 .. Len(s)
    BY <1>3, <2>3
  <2>4. CASE (\E k \in 1 .. Len(t) : i = Len(s) + k) /\ \E k \in 1 .. Len(t) : j = Len(s) + k
    <3>1. PICK k \in 1 .. Len(t) : i = Len(s) + k
      BY <2>4
    <3>2. PICK m \in 1 .. Len(t) : j = Len(s) + m
      BY <2>4
    <3>3. k < m
      BY <1>3, <3>1, <3>2
    <3> QED BY <1>2, <1>3, <1>5, <3>1, <3>2, <3>3 DEF InOrder
  <2> QED BY <1>6, <2>1, <2>2, <2>3, <2>4
<1>8. ToSet(u) = A \cup B
  <2>1. ToSet(u) \subseteq A \cup B
    BY <1>4, <1>5, <1>6 DEF ToSet
  <2>2. A \subseteq ToSet(u)
    BY <1>1, <1>3, <1>4 DEF ToSet
  <2>3. B \subseteq ToSet(u)
    BY <1>2, <1>3, <1>5 DEF ToSet
  <2> QED BY <2>1, <2>2, <2>3
<1> QED BY <1>3, <1>7, <1>8, SortedSet DEF u, s, t

\* A set that has every row before one of its rows is listed first.
LEMMA SortedPrefix ==
    ASSUME NEW S \in SUBSET Rows, NEW A \in SUBSET S,
           \A a \in A, b \in S \ A : Before(a, b)
    PROVE  /\ IsPrefix(Sorted(A), Sorted(S))
           /\ Len(Sorted(A)) = Len(Sorted(S)) <=> A = S
<1> DEFINE s == Sorted(A)
           t == Sorted(S \ A)
<1>1. A \in SUBSET Rows /\ S \ A \in SUBSET Rows /\ A \cup (S \ A) = S
  OBVIOUS
<1>2. Sorted(S) = s \o t
  BY <1>1, SortedConcat
<1>3. /\ s \in Seq(Rows) /\ t \in Seq(Rows)
      /\ ToSet(t) = S \ A
      /\ Len(s) = Cardinality(A) /\ Len(Sorted(S)) = Cardinality(S)
  BY <1>1, SortedInOrder
<1> HIDE DEF s, t
<1>4. IsPrefix(s, s \o t)
  <2>1. Len(s) <= Len(s \o t) /\ Len(s) \in Nat
    BY <1>3
  <2>2. ASSUME Len(s) # 0 PROVE SubSeq(s \o t, 1, Len(s)) = SubSeq(s, 1, Len(s))
    <3>1. 1 \in 1 .. Len(s) /\ Len(s) \in 1 .. Len(s)
      BY <2>1, <2>2
    <3> QED BY <1>3, <3>1, SubSeqOfConcat1
  <2>3. ASSUME Len(s) = 0 PROVE SubSeq(s \o t, 1, Len(s)) = SubSeq(s, 1, Len(s))
    BY <2>3, SubSeqEmpty
  <2> QED BY <2>1, <2>2, <2>3 DEF IsPrefix
<1>5. IsFiniteSet(S)
  BY RowsFinite
<1>6. Cardinality(S) = Cardinality(A) <=> A = S
  BY <1>5, FS_Subset
<1> QED BY <1>2, <1>3, <1>4, <1>6 DEF s

-----------------------------------------------------------------------------
(* Lists without some of their elements *)

LEMMA ConcatSet ==
    ASSUME NEW S, NEW s \in Seq(S), NEW t \in Seq(S)
    PROVE  s \o t \in Seq(S) /\ ToSet(s \o t) \subseteq ToSet(s) \cup ToSet(t)
<1>1. /\ Len(s) \in Nat /\ Len(t) \in Nat /\ DOMAIN (s \o t) = 1 .. Len(s) + Len(t)
      /\ DOMAIN s = 1 .. Len(s) /\ DOMAIN t = 1 .. Len(t)
      /\ s \o t \in Seq(S)
  OBVIOUS
<1>2. ASSUME NEW i \in 1 .. Len(s) + Len(t)
      PROVE  (s \o t)[i] \in ToSet(s) \cup ToSet(t)
  <2>1. CASE i <= Len(s)
    <3>1. i \in DOMAIN s /\ (s \o t)[i] = s[i]
      BY <1>1, <2>1
    <3> QED BY <3>1 DEF ToSet
  <2>2. CASE ~(i <= Len(s))
    <3>1. i - Len(s) \in DOMAIN t /\ (s \o t)[i] = t[i - Len(s)]
      BY <1>1, <2>2
    <3> QED BY <3>1 DEF ToSet
  <2> QED BY <2>1, <2>2
<1> QED BY <1>1, <1>2 DEF ToSet

LessRel == {e \in Nat \X Nat : e[1] < e[2]}

LEMMA FilteredIsListing ==
    ASSUME NEW n \in Nat, NEW I \in SUBSET (1 .. n), NEW s
    PROVE  /\ IsFiniteSet(I) /\ Orders(LessRel, I)
           /\ Filtered(s, I) = [k \in 1 .. Cardinality(I) |-> s[Listing(LessRel, I)[k]]]
           /\ \A i, j \in I : <<i, j>> \in LessRel <=> i < j
<1>1. IsFiniteSet(I)
  BY FirstNumbers, FS_Subset
<1>2. I \subseteq Nat
  OBVIOUS
<1>3. \A i, j \in I : <<i, j>> \in LessRel <=> i < j
  BY <1>2 DEF LessRel
<1>4. Orders(LessRel, I)
  BY <1>2, <1>3 DEF Orders
<1>5. \A i \in I : Rank(LessRel, I, i) = Cardinality({j \in I : j < i})
  <2> SUFFICES ASSUME NEW i \in I
               PROVE  {j \in I : <<j, i>> \in LessRel} = {j \in I : j < i}
    BY DEF Rank
  <2> QED BY <1>3
<1> DEFINE c == Cardinality(I)
           F(k) == CHOOSE i \in I : Cardinality({j \in I : j < i}) = k - 1
           G(k) == CHOOSE i \in I : Rank(LessRel, I, i) = k - 1
<1>6. \A k \in 1 .. c : F(k) = G(k)
  <2> TAKE k \in 1 .. c
  <2>1. \A i : (i \in I /\ Cardinality({j \in I : j < i}) = k - 1)
                 <=> (i \in I /\ Rank(LessRel, I, i) = k - 1)
    BY <1>5
  <2> QED BY <2>1
<1>7. Filtered(s, I) = [k \in 1 .. c |-> s[F(k)]]
  BY DEF Filtered
<1>8. Listing(LessRel, I) = [k \in 1 .. c |-> G(k)]
  BY DEF Listing
<1> HIDE DEF F, G, c
<1>9. Filtered(s, I) = [k \in 1 .. c |-> s[Listing(LessRel, I)[k]]]
  BY <1>6, <1>7, <1>8
<1> QED BY <1>1, <1>3, <1>4, <1>9 DEF c

\* What is left keeps its order: the k-th element left is at place p[k].
LEMMA FilteredPlaces ==
    ASSUME NEW S, NEW s \in Seq(S), NEW I \in SUBSET DOMAIN s
    PROVE  \E p : /\ Filtered(s, I) \in Seq(S)
                  /\ DOMAIN Filtered(s, I) = 1 .. Len(Filtered(s, I))
                  /\ \A k \in DOMAIN Filtered(s, I) :
                         p[k] \in I /\ p[k] \in Nat /\ Filtered(s, I)[k] = s[p[k]]
                  /\ \A k, m \in DOMAIN Filtered(s, I) : k < m <=> p[k] < p[m]
                  /\ \A i \in I : \E k \in DOMAIN Filtered(s, I) : p[k] = i
<1> DEFINE p == Listing(LessRel, I)
           c == Cardinality(I)
           f == Filtered(s, I)
<1>1. Len(s) \in Nat /\ I \in SUBSET (1 .. Len(s)) /\ \A i \in I : s[i] \in S
  OBVIOUS
<1>2. /\ IsFiniteSet(I) /\ Orders(LessRel, I)
      /\ f = [k \in 1 .. c |-> s[p[k]]]
      /\ \A i, j \in I : <<i, j>> \in LessRel <=> i < j
  BY <1>1, FilteredIsListing
<1>3. /\ c \in Nat
      /\ p \in [1 .. c -> I]
      /\ \A i, j \in 1 .. c : i < j <=> <<p[i], p[j]>> \in LessRel
      /\ \A i \in I : \E k \in 1 .. c : p[k] = i
  BY <1>2, ListingInOrder
<1> HIDE DEF p, c, f
<1>4. \A k \in 1 .. c : p[k] \in I /\ p[k] \in Nat /\ f[k] = s[p[k]] /\ s[p[k]] \in S
  BY <1>1, <1>2, <1>3
<1>5. f \in [1 .. c -> S]
  BY <1>2, <1>4
<1>6. f \in Seq(S) /\ Len(f) = c /\ DOMAIN f = 1 .. c
  BY <1>3, <1>5
<1>7. \A k, m \in 1 .. c : k < m <=> p[k] < p[m]
  BY <1>2, <1>3, <1>4
<1>8. /\ f \in Seq(S) /\ DOMAIN f = 1 .. Len(f)
      /\ \A k \in DOMAIN f : p[k] \in I /\ p[k] \in Nat /\ f[k] = s[p[k]]
      /\ \A k, m \in DOMAIN f : k < m <=> p[k] < p[m]
      /\ \A i \in I : \E k \in DOMAIN f : p[k] = i
  BY <1>3, <1>4, <1>6, <1>7
<1> QED BY <1>8 DEF f

LEMMA FilteredSeq ==
    ASSUME NEW S, NEW s \in Seq(S), NEW I \in SUBSET DOMAIN s
    PROVE  /\ Filtered(s, I) \in Seq(S)
           /\ ToSet(Filtered(s, I)) = {s[i] : i \in I}
<1> DEFINE f == Filtered(s, I)
<1>1. PICK p : /\ f \in Seq(S)
               /\ DOMAIN f = 1 .. Len(f)
               /\ \A k \in DOMAIN f : p[k] \in I /\ p[k] \in Nat /\ f[k] = s[p[k]]
               /\ \A k, m \in DOMAIN f : k < m <=> p[k] < p[m]
               /\ \A i \in I : \E k \in DOMAIN f : p[k] = i
  BY FilteredPlaces
<1> HIDE DEF f
<1>2. ToSet(f) = {s[i] : i \in I}
  BY <1>1 DEF ToSet
<1> QED BY <1>1, <1>2 DEF f

LEMMA FilteredSorted ==
    ASSUME NEW s \in Seq(Rows), InOrder(s), NEW I \in SUBSET DOMAIN s
    PROVE  Filtered(s, I) = Sorted({s[i] : i \in I})
<1> DEFINE f == Filtered(s, I)
<1>1. PICK p : /\ f \in Seq(Rows)
               /\ DOMAIN f = 1 .. Len(f)
               /\ \A k \in DOMAIN f : p[k] \in I /\ p[k] \in Nat /\ f[k] = s[p[k]]
               /\ \A k, m \in DOMAIN f : k < m <=> p[k] < p[m]
               /\ \A i \in I : \E k \in DOMAIN f : p[k] = i
  BY FilteredPlaces
<1> HIDE DEF f
<1>2. InOrder(f)
  BY <1>1 DEF InOrder
<1>3. ToSet(f) = {s[i] : i \in I}
  BY <1>1 DEF ToSet
<1> QED BY <1>1, <1>2, <1>3, SortedSet DEF f

\* uniqueRows leaves each row once, and none that was not there; it leaves a list
\* in order as it is.
LEMMA UniqueRowsDistinct ==
    ASSUME NEW s \in Seq(Rows)
    PROVE  /\ UniqueRows(s) \in Seq(Rows)
           /\ Distinct(UniqueRows(s))
           /\ ToSet(UniqueRows(s)) \subseteq ToSet(s)
<1> DEFINE I == {i \in DOMAIN s : \A j \in 1 .. i - 1 : s[j] # s[i]}
           f == Filtered(s, I)
<1>1. I \in SUBSET DOMAIN s /\ \A i \in I : \A j \in 1 .. i - 1 : s[j] # s[i]
  OBVIOUS
<1>2. f = UniqueRows(s)
  BY DEF UniqueRows
<1> HIDE DEF I
<1>3. PICK p : /\ f \in Seq(Rows)
               /\ DOMAIN f = 1 .. Len(f)
               /\ \A k \in DOMAIN f : p[k] \in I /\ p[k] \in Nat /\ f[k] = s[p[k]]
               /\ \A k, m \in DOMAIN f : k < m <=> p[k] < p[m]
               /\ \A i \in I : \E k \in DOMAIN f : p[k] = i
  BY <1>1, FilteredPlaces
<1> HIDE DEF f
<1>4. \A i \in I : i \in Nat /\ i >= 1
  BY <1>1
<1>5. ASSUME NEW k \in DOMAIN f, NEW m \in DOMAIN f, k < m PROVE f[k] # f[m]
  <2>1. p[k] < p[m] /\ p[k] \in I /\ p[m] \in I /\ f[k] = s[p[k]] /\ f[m] = s[p[m]]
    BY <1>3, <1>5
  <2>2. p[k] \in 1 .. p[m] - 1
    BY <1>4, <2>1
  <2> QED BY <1>1, <2>1, <2>2
<1>6. \A k, m \in DOMAIN f : f[k] = f[m] => k = m
  <2> SUFFICES ASSUME NEW k \in DOMAIN f, NEW m \in DOMAIN f, k # m PROVE f[k] # f[m]
    OBVIOUS
  <2>1. k < m \/ m < k
    BY <1>3
  <2> QED BY <1>5, <2>1
<1>7. f \in Surjection(1 .. Len(f), ToSet(f)) /\ f \in Injection(1 .. Len(f), ToSet(f))
  <2>1. f \in [1 .. Len(f) -> ToSet(f)]
    BY <1>3 DEF ToSet
  <2>2. \A t \in ToSet(f) : \E i \in 1 .. Len(f) : f[i] = t
    BY <1>3 DEF ToSet
  <2> QED BY <1>3, <1>6, <2>1, <2>2 DEF Surjection, Injection, IsInjective
<1>8. Len(f) \in Nat /\ IsFiniteSet(1 .. Len(f)) /\ Cardinality(1 .. Len(f)) = Len(f)
  <2>1. Len(f) \in Nat
    BY <1>3
  <2> QED BY <2>1, FirstNumbers
<1>9. Cardinality(ToSet(f)) = Len(f)
  BY <1>7, <1>8, FS_Surjection
<1>10. ToSet(f) \subseteq ToSet(s)
  BY <1>3, <1>1 DEF ToSet
<1> QED BY <1>3, <1>2, <1>9, <1>10 DEF Distinct

LEMMA UniqueRowsOfSorted ==
    ASSUME NEW s \in Seq(Rows), InOrder(s)
    PROVE  UniqueRows(s) = s
<1> DEFINE I == {i \in DOMAIN s : \A j \in 1 .. i - 1 : s[j] # s[i]}
<1>1. \A i \in DOMAIN s : \A j \in 1 .. i - 1 : s[j] # s[i]
  <2> SUFFICES ASSUME NEW i \in 1 .. Len(s), NEW j \in 1 .. i - 1 PROVE s[j] # s[i]
    OBVIOUS
  <2>1. j \in 1 .. Len(s) /\ j # i
    OBVIOUS
  <2> QED BY <2>1, InOrderDistinct
<1>2. I = DOMAIN s
  BY <1>1
<1>3. UniqueRows(s) = Filtered(s, I)
  BY DEF UniqueRows
<1> HIDE DEF I
<1>4. UniqueRows(s) = Sorted({s[i] : i \in DOMAIN s})
  BY <1>2, <1>3, FilteredSorted
<1> QED BY <1>4, SortedUnique DEF ToSet

-----------------------------------------------------------------------------
(* Pages of a list *)

Upto(D, c) == IF c = None THEN D ELSE {r \in D : ~Before(c, r)}

\* A page shows the first rows of D, up to its cursor; a page without a cursor
\* shows them all.
Lists(rows, cursor, D) ==
    /\ D \in SUBSET Rows
    /\ rows = Sorted(Upto(D, cursor))
    /\ cursor # None => cursor \in D /\ \E r \in D : Before(cursor, r)

LEMMA ListsPrefix ==
    ASSUME NEW D, NEW rows, NEW cursor, Lists(rows, cursor, D)
    PROVE  /\ rows \in Seq(Rows) /\ InOrder(rows) /\ Distinct(rows)
           /\ ToSet(rows) = Upto(D, cursor) /\ ToSet(rows) \subseteq D
           /\ IsPrefix(rows, Sorted(D))
           /\ cursor # None <=> Len(rows) < Len(Sorted(D))
<1> DEFINE U == Upto(D, cursor)
<1>1. D \in SUBSET Rows /\ U \in SUBSET D /\ rows = Sorted(U)
  BY DEF Lists, Upto
<1>2. \A a \in U, b \in D \ U : Before(a, b)
  BY <1>1, BeforeIsOrder DEF Lists, Upto
<1>3. U = D <=> cursor = None
  BY DEF Lists, Upto
<1> HIDE DEF U
<1>4. IsPrefix(rows, Sorted(D)) /\ (Len(rows) = Len(Sorted(D)) <=> U = D)
  BY <1>1, <1>2, SortedPrefix
<1>5. /\ rows \in Seq(Rows) /\ InOrder(rows) /\ ToSet(rows) = U
      /\ Sorted(D) \in Seq(Rows)
  BY <1>1, SortedInOrder
<1>6. Len(rows) \in Nat /\ Len(Sorted(D)) \in Nat /\ Len(rows) <= Len(Sorted(D))
  BY <1>4, <1>5 DEF IsPrefix
<1> QED BY <1>1, <1>3, <1>4, <1>5, <1>6, InOrderDistinct DEF U

\* _page: the first rows of what was found, and a cursor when there are more.
LEMMA PageLists ==
    ASSUME NEW S \in SUBSET Rows, NEW limit \in Nat \ {0}
    PROVE  /\ Lists(Page(S, limit).rows, Page(S, limit).cursor, S)
           /\ Page(S, limit).hasMore <=> Page(S, limit).cursor # None
           /\ Page(S, limit).cursor \in Rows \cup {None}
           /\ Page(S, limit).hasMore \in BOOLEAN
           /\ Page(S, limit).reading = cached
           /\ Page(S, limit).rows \in Seq(Rows)
<1> DEFINE order == Sorted(S)
           more == Len(order) > limit
           part == SubSeq(order, 1, limit)
<1>1. order \in Seq(Rows) /\ InOrder(order) /\ ToSet(order) = S
  BY SortedInOrder
<1>2. Page(S, limit) = [rows    |-> IF more THEN part ELSE order,
                        cursor  |-> IF more THEN order[limit] ELSE None,
                        hasMore |-> more,
                        reading |-> cached]
  BY DEF Page
<1>3. CASE ~more
  <2>1. Lists(order, None, S)
    BY DEF Lists, Upto
  <2>2. Page(S, limit) = [rows |-> order, cursor |-> None, hasMore |-> FALSE,
                          reading |-> cached]
    <3>1. more = FALSE
      BY <1>3
    <3> HIDE DEF more, order, part
    <3> QED BY <1>2, <3>1
  <2> HIDE DEF order, part
  <2>3. /\ Page(S, limit).rows = order /\ Page(S, limit).cursor = None
        /\ Page(S, limit).hasMore = FALSE /\ Page(S, limit).reading = cached
    BY <2>2
  <2> QED BY <1>1, <2>1, <2>3
<1>4. CASE more
  <2> DEFINE c == order[limit]
             n == order[limit + 1]
  <2> HIDE DEF order
  <2>1. /\ limit \in Nat /\ limit >= 1 /\ Len(order) \in Nat /\ limit < Len(order)
        /\ DOMAIN order = 1 .. Len(order)
    BY <1>1, <1>4
  <2>2. /\ limit \in DOMAIN order /\ limit + 1 \in DOMAIN order
        /\ \A i \in 1 .. limit : i \in DOMAIN order /\ i \in Nat
    BY <2>1
  <2>3. c \in S /\ n \in S /\ Before(c, n) /\ c \in Rows /\ c # None
    BY <1>1, <2>1, <2>2, RowsAssumption DEF InOrder, ToSet
  <2>4. /\ part \in Seq(Rows) /\ Len(part) = limit /\ DOMAIN part = 1 .. limit
        /\ \A i \in 1 .. limit : part[i] = order[i]
    BY <1>1, <2>1
  <2> HIDE DEF part
  <2>5. InOrder(part)
    BY <1>1, <2>2, <2>4 DEF InOrder
  <2>6. ToSet(part) = Upto(S, c)
    <3>1. \A i \in DOMAIN order : ~Before(c, order[i]) <=> i <= limit
      <4> TAKE i \in DOMAIN order
      <4>1. Before(c, order[i]) <=> limit < i
        BY <1>1, <2>1, <2>2, InOrderDistinct DEF InOrder
      <4> QED BY <2>1, <4>1
    <3>2. ToSet(part) = {order[i] : i \in 1 .. limit}
      BY <2>4 DEF ToSet
    <3>3. S = {order[i] : i \in DOMAIN order}
      BY <1>1 DEF ToSet
    <3>4. \A i \in DOMAIN order : i <= limit <=> i \in 1 .. limit
      BY <2>1
    <3> QED BY <2>2, <2>3, <3>1, <3>2, <3>3, <3>4 DEF Upto
  <2>7. part = Sorted(Upto(S, c))
    BY <2>4, <2>5, <2>6, SortedSet
  <2>8. Lists(part, c, S)
    BY <2>3, <2>7 DEF Lists
  <2>9. Page(S, limit) = [rows |-> part, cursor |-> c, hasMore |-> TRUE,
                          reading |-> cached]
    BY <1>2, <1>4
  <2> HIDE DEF c, more
  <2>10. /\ Page(S, limit).rows = part /\ Page(S, limit).cursor = c
         /\ Page(S, limit).hasMore = TRUE /\ Page(S, limit).reading = cached
    BY <2>9
  <2> QED BY <2>3, <2>4, <2>8, <2>10
<1> QED BY <1>3, <1>4

\* A page and the one that continues it from cursor c on show the first rows of the
\* list together, and no row twice.
LEMMA ListsAppend ==
    ASSUME NEW D \in SUBSET Rows, NEW c \in D, NEW rows, rows = Sorted(Upto(D, c)),
           NEW next, NEW d, Lists(next, d, {r \in D : Before(c, r)})
    PROVE  /\ Lists(rows \o next, d, D)
           /\ \A i \in DOMAIN next : ~Contains(rows, next[i])
<1> DEFINE E == {r \in D : Before(c, r)}
           A == Upto(D, c)
           B == Upto(E, d)
<1>1. /\ A = {r \in D : ~Before(c, r)}
      /\ E \in SUBSET Rows /\ next = Sorted(B)
      /\ d # None => d \in E /\ \E r \in E : Before(d, r)
  BY RowsAssumption DEF Lists, Upto
<1>2. A \in SUBSET Rows /\ B \in SUBSET Rows /\ B \subseteq E
  BY <1>1 DEF Upto
<1>3. \A a \in A, b \in B : Before(a, b)
  BY <1>1, <1>2, BeforeIsOrder
<1>4. A \cup B = Upto(D, d)
  BY <1>1, BeforeIsOrder DEF Upto
<1>5. d # None => d \in D /\ \E r \in D : Before(d, r)
  BY <1>1
<1>6. ASSUME NEW i \in DOMAIN next PROVE ~Contains(rows, next[i])
  <2>1. /\ next \in Seq(Rows) /\ ToSet(next) = B
        /\ rows \in Seq(Rows) /\ ToSet(rows) = A
    BY <1>1, <1>2, SortedInOrder
  <2>2. next[i] \in B
    BY <2>1 DEF ToSet
  <2>3. \A j \in 1 .. Len(rows) : rows[j] \in A
    BY <2>1 DEF ToSet
  <2>4. next[i] \notin A
    BY <1>1, <1>2, <2>2
  <2> QED BY <2>3, <2>4 DEF Contains
<1> HIDE DEF B, E
<1>7. rows \o next = Sorted(A \cup B)
  <2> HIDE DEF A
  <2> QED BY <1>1, <1>2, <1>3, SortedConcat DEF A
<1> QED BY <1>4, <1>5, <1>6, <1>7 DEF Lists

LEMMA ListsContinue ==
    ASSUME NEW D, NEW rows, NEW c, c # None, Lists(rows, c, D),
           NEW next, NEW d, Lists(next, d, {r \in D : Before(c, r)})
    PROVE  /\ Lists(rows \o next, d, D)
           /\ \A i \in DOMAIN next : ~Contains(rows, next[i])
<1>1. D \in SUBSET Rows /\ c \in D /\ rows = Sorted(Upto(D, c))
  BY DEF Lists
<1> QED BY <1>1, ListsAppend

-----------------------------------------------------------------------------
(* Types *)

FlightsOK(fl) ==
    /\ fl = [v \in Views |-> fl[v]]
    /\ fl["cards"] \in [Queries -> Grouped \cup {None}]
    /\ fl["transactions"] \in [Queries -> Table \cup {None}]

TypeInv == TypeOK /\ FlightsOK(flights)

LEMMA ReadableRows ==
    /\ \A q \in Queries : Matches[q] \in SUBSET Rows
    /\ PerCard \in Nat \ {0} /\ PerPage \in Nat \ {0}
    /\ MaxMoves \in Nat /\ None \notin Rows
  BY ContentAssumption, LimitsAssumption, RowsAssumption

LEMMA PageIsPart ==
    ASSUME NEW S \in SUBSET Rows, NEW limit \in Nat \ {0}, cached \subseteq Rows
    PROVE  Page(S, limit) \in Parts
<1> DEFINE p == Page(S, limit)
<1>1. /\ p.hasMore <=> p.cursor # None
      /\ p.cursor \in Rows \cup {None} /\ p.hasMore \in BOOLEAN
      /\ p.reading = cached /\ p.rows \in Seq(Rows)
  BY PageLists
<1>2. p = [rows |-> p.rows, cursor |-> p.cursor, hasMore |-> p.hasMore,
           reading |-> p.reading]
  BY DEF Page
<1> HIDE DEF p
<1>3. p \in [rows : Seq(Rows), cursor : Rows \cup {None}, hasMore : BOOLEAN,
             reading : (SUBSET Rows) \cup {None}]
  BY <1>1, <1>2
<1> QED BY <1>1, <1>3 DEF Parts, p

LEMMA PagesTyped ==
    ASSUME NEW q \in Queries, cached \subseteq Rows
    PROVE  /\ \A c, cursor : CardPage(c, q, cursor) \in Parts
           /\ \A cursor : AllPage(q, cursor) \in Parts
           /\ GroupedResult(q) \in Grouped /\ GroupedResult(q).query = q
           /\ AllResult(q) \in Table /\ AllResult(q).query = q
<1>1. \A c, cursor : CardPage(c, q, cursor) \in Parts
  <2> TAKE c, cursor
  <2> DEFINE S == CardMatches(c, q) \cap (IF cursor = None THEN Rows ELSE CardAfter(cursor))
  <2>1. S \in SUBSET Rows
    BY DEF CardMatches
  <2>2. CardPage(c, q, cursor) = Page(S, PerCard)
    BY DEF CardPage
  <2> HIDE DEF S
  <2> QED BY <2>1, <2>2, PageIsPart, ReadableRows
<1>2. \A cursor : AllPage(q, cursor) \in Parts
  <2> TAKE cursor
  <2> DEFINE S == cached \cap Matches[q] \cap (IF cursor = None THEN Rows ELSE AllAfter(cursor))
  <2>1. S \in SUBSET Rows
    OBVIOUS
  <2>2. AllPage(q, cursor) = Page(S, PerPage)
    BY DEF AllPage
  <2> HIDE DEF S
  <2> QED BY <2>1, <2>2, PageIsPart, ReadableRows
<1>3. GroupedResult(q) \in Grouped /\ GroupedResult(q).query = q
  BY <1>1 DEF GroupedResult, Grouped
<1>4. AllResult(q) \in Table /\ AllResult(q).query = q
  BY <1>2 DEF AllResult, Table
<1> QED BY <1>1, <1>2, <1>3, <1>4

LEMMA AskedTyped ==
    ASSUME NEW fl, FlightsOK(fl), NEW v \in Views, NEW q \in Queries, cached \subseteq Rows
    PROVE  FlightsOK(Asked(fl, v, q)) /\ \A up : FlightsOK(AskedIf(up, fl, v, q))
<1>1. FlightsOK(Asked(fl, v, q))
  <2>1. CASE fl[v][q] # None
    BY <2>1 DEF Asked
  <2>2. CASE fl[v][q] = None
    <3> DEFINE x == FirstPage(v, q)
    <3>1. /\ v = "cards" => x \in Grouped
          /\ v = "transactions" => x \in Table
      BY PagesTyped DEF FirstPage
    <3>2. Asked(fl, v, q) = [fl EXCEPT ![v][q] = x]
      BY <2>2 DEF Asked
    <3> HIDE DEF x
    <3> QED BY <3>1, <3>2 DEF FlightsOK, Views
  <2> QED BY <2>1, <2>2
<1> QED BY <1>1 DEF AskedIf

LEMMA NoFlightsTyped == FlightsOK(NoFlights)
  BY DEF FlightsOK, NoFlights, Views

LEMMA HydratedTyped ==
    ASSUME NEW T, NEW data \in [Queries -> T \cup {None}],
           NEW kept \in [Queries -> T \cup {None}], NEW q \in Queries
    PROVE  Hydrated(data, kept, q) \in [Queries -> T \cup {None}]
  BY DEF Hydrated

LEMMA SnapshotTyped ==
    ASSUME NEW T, NEW old \in [Queries -> T \cup {None}], NEW q \in Queries,
           NEW data \in T \cup {None}
    PROVE  Snapshot(old, q, data) \in [Queries -> T \cup {None}]
  BY DEF Snapshot

LEMMA ShownTyped ==
    ASSUME NEW T, NEW data \in [Queries -> T \cup {None}], NEW q \in Queries,
           NEW last \in Queries \cup {None}
    PROVE  Shown(q, data, last) \in T \cup {None}
  BY DEF Shown

LEMMA AppendedPart ==
    ASSUME NEW next \in Parts, NEW rows \in Seq(Rows),
           NEW reading \in (SUBSET Rows) \cup {None}
    PROVE  [rows |-> rows, cursor |-> next.cursor, hasMore |-> next.hasMore,
            reading |-> reading] \in Parts
<1>1. next.cursor \in Rows \cup {None} /\ next.hasMore \in BOOLEAN
      /\ next.hasMore <=> next.cursor # None
  BY DEF Parts
<1> QED BY <1>1 DEF Parts

LEMMA JoinedTyped ==
    ASSUME NEW first, NEW after, NEW next \in Parts
    PROVE  Joined(first, after, next) \in (SUBSET Rows) \cup {None}
<1>1. next.reading \in (SUBSET Rows) \cup {None}
  BY DEF Parts
<1> QED BY <1>1 DEF Joined

LEMMA AggregatedTyped ==
    ASSUME NEW result \in Table \cup {None}, NEW extra \in Extra \cup {None}, NEW q
    PROVE  Aggregated(result, extra, q) \in Table \cup {None}
<1>1. CASE result = None \/ extra = None \/ extra.query # q
  BY <1>1 DEF Aggregated
<1>2. CASE ~(result = None \/ extra = None \/ extra.query # q)
  <2> DEFINE rows == UniqueRows(result.page.rows \o extra.part.rows)
             page == [rows    |-> rows,
                      cursor  |-> extra.part.cursor,
                      hasMore |-> extra.part.hasMore,
                      reading |-> Joined(result.page, extra.after, extra.part)]
  <2>1. result \in Table /\ result.page \in Parts /\ extra.part \in Parts
    BY <1>2 DEF Table, Extra
  <2>2. result.page.rows \o extra.part.rows \in Seq(Rows)
    BY <2>1 DEF Parts
  <2>3. rows \in Seq(Rows)
    BY <2>2, UniqueRowsDistinct
  <2>4. Aggregated(result, extra, q) = [query |-> result.query, page |-> page]
    BY <1>2 DEF Aggregated
  <2> HIDE DEF rows
  <2>5. page \in Parts
    BY <2>1, <2>3, JoinedTyped, AppendedPart
  <2> HIDE DEF page
  <2> QED BY <2>1, <2>4, <2>5 DEF Table
<1> QED BY <1>1, <1>2

\* What a render leaves alone or writes.
LEMMA RenderedTyped ==
    ASSUME TypeInv, Rendered, scope' \in Scope,
           search' \in [Queries -> Grouped \cup {None}],
           all' \in [Queries -> Table \cup {None}],
           aggregatePage' \in Extra \cup {None}
    PROVE  /\ previous' \in Queries \cup {None}
           /\ store'.cards \in [Queries -> Grouped \cup {None}]
           /\ store'.transactions \in [Queries -> Table \cup {None}]
<1> DEFINE q == scope'.query
           g == Shown(q, search', previous)
           t == Aggregated(all'[q], aggregatePage', q)
<1>1. q \in Queries
  BY DEF Scope
<1>2. /\ previous \in Queries \cup {None}
      /\ store.cards \in [Queries -> Grouped \cup {None}]
      /\ store.transactions \in [Queries -> Table \cup {None}]
  BY DEF TypeInv, TypeOK
<1>3. /\ previous' = IF search'[q] # None THEN q ELSE previous
      /\ store' = [cards |-> Snapshot(store.cards, q, g),
                   transactions |-> Snapshot(store.transactions, q, t)]
  BY DEF Rendered, Persisted
<1>4. g \in Grouped \cup {None}
  BY <1>1, <1>2, ShownTyped
<1>5. t \in Table \cup {None}
  BY <1>1, AggregatedTyped
<1> HIDE DEF q, g, t
<1>6. store'.cards = Snapshot(store.cards, q, g)
      /\ store'.transactions = Snapshot(store.transactions, q, t)
  BY <1>3
<1> QED BY <1>1, <1>2, <1>3, <1>4, <1>5, <1>6, SnapshotTyped

LEMMA CardGroupTyped ==
    ASSUME TypeInv, ShownGroups # None, NEW c \in Cards
    PROVE  CardGroup(c) \in Parts
<1>1. ShownGroups \in Grouped
  <2>1. scope.query \in Queries
    BY DEF TypeInv, TypeOK, Scope
  <2> QED BY <2>1, ShownTyped DEF TypeInv, TypeOK, ShownGroups
<1>2. ShownGroups.groups[c] \in Parts
  BY <1>1 DEF Grouped
<1>3. pageState[c] \in Extra \cup {None}
  BY DEF TypeInv, TypeOK
<1> DEFINE first == ShownGroups.groups[c]
           extra == pageState[c]
<1>4. CASE extra = None
  BY <1>2, <1>4 DEF CardGroup
<1>5. CASE extra # None
  <2>1. extra.part \in Parts
    BY <1>3, <1>5 DEF Extra
  <2>2. first.rows \o extra.part.rows \in Seq(Rows)
    BY <1>2, <2>1 DEF Parts
  <2>3. CardGroup(c) = [rows    |-> first.rows \o extra.part.rows,
                        cursor  |-> extra.part.cursor,
                        hasMore |-> extra.part.hasMore,
                        reading |-> Joined(first, extra.after, extra.part)]
    BY <1>5 DEF CardGroup
  <2> HIDE DEF first, extra
  <2> QED BY <1>2, <2>1, <2>2, <2>3, JoinedTyped, AppendedPart DEF first
<1> QED BY <1>4, <1>5

LEMMA DetachedTyped ==
    ASSUME NEW ls \in SUBSET Load, NEW s \in Scope
    PROVE  Detached(ls, s) \in SUBSET Load
<1> SUFFICES ASSUME NEW k \in ls
             PROVE  (IF k.live THEN [k EXCEPT !.live = FALSE, !.seen = s] ELSE k) \in Load
  BY DEF Detached
<1> QED BY DEF Load

LEMMA NewLoadTyped ==
    ASSUME scope \in Scope, NEW c \in Cards \cup {None}, NEW page \in Parts,
           NEW after \in Rows \cup {None}
    PROVE  NewLoad(c, page, after) \in Load
  BY DEF NewLoad, Load, Scope

LEMMA MergedTyped ==
    ASSUME NEW extra \in Extra \cup {None}, NEW l \in Load, NEW rows \in Seq(Rows),
           NEW reading \in (SUBSET Rows) \cup {None}
    PROVE  Merged(extra, l, rows, reading) \in Extra
<1>1. l.page \in Parts /\ l.query \in Queries /\ l.gen \in 0 .. MaxMoves
      /\ l.after \in Rows \cup {None}
  BY DEF Load
<1>2. extra # None => extra.after \in Rows \cup {None}
  BY DEF Extra
<1> DEFINE one == IF extra = None \/ extra.part.reading = reading THEN reading ELSE None
           part == [rows    |-> rows,
                    cursor  |-> l.page.cursor,
                    hasMore |-> l.page.hasMore,
                    reading |-> one]
<1>3. part \in Parts
  <2>1. one \in (SUBSET Rows) \cup {None}
    OBVIOUS
  <2> HIDE DEF one
  <2> QED BY <1>1, <2>1, AppendedPart
<1> HIDE DEF part
<1>4. Merged(extra, l, rows, reading) =
          [part |-> part, after |-> IF extra = None THEN l.after ELSE extra.after,
           query |-> l.query, gen |-> l.gen]
  BY DEF Merged, part
<1> QED BY <1>1, <1>2, <1>3, <1>4 DEF Extra

LEMMA TypeInit == Init => TypeInv
<1> SUFFICES ASSUME Init PROVE TypeInv
  OBVIOUS
<1>1. cached \subseteq Rows /\ syncs \in 0 .. MaxSyncs /\ online \in BOOLEAN
  BY ContentAssumption, LimitsAssumption DEF Init
<1>2. scope \in Scope /\ scope.query \in Queries
  BY DEF Init, Scope
<1>3. FlightsOK(flights)
  BY <1>1, <1>2, NoFlightsTyped, AskedTyped DEF Init, Views
<1>4. store.cards = Nothing /\ store.transactions = Nothing
  BY DEF Init, Views
<1>5. Nothing \in [Queries -> Grouped \cup {None}] /\ Nothing \in [Queries -> Table \cup {None}]
  BY DEF Nothing
<1>6. pageState \in [Cards -> Extra \cup {None}] /\ aggregatePage \in Extra \cup {None}
      /\ cardLoads \subseteq Load /\ tableLoads \subseteq Load
      /\ search = Nothing /\ all = Nothing /\ previous = None
  BY DEF Init, NoPages
<1> QED BY <1>1, <1>2, <1>3, <1>4, <1>5, <1>6 DEF TypeInv, TypeOK, FlightsOK

LEMMA NewScopeTyped ==
    ASSUME TypeInv, NEW v \in Views, NEW q \in Queries, NewScope(v, q), Cleared
    PROVE  /\ scope' \in Scope /\ scope'.view = v /\ scope'.query = q
           /\ pageState' \in [Cards -> Extra \cup {None}]
           /\ aggregatePage' \in Extra \cup {None}
<1>1. scope \in Scope /\ MaxMoves \in Nat
  BY ReadableRows DEF TypeInv, TypeOK
<1>2. scope.gen + 1 \in 0 .. MaxMoves
  BY <1>1 DEF Scope, NewScope
<1> QED BY <1>2 DEF NewScope, Cleared, NoPages, Scope

LEMMA RefreshEndsTyped == TypeInv /\ RefreshEnds => TypeInv'
<1> SUFFICES ASSUME TypeInv, RefreshEnds PROVE TypeInv'
  OBVIOUS
<1> USE DEF server, loads
<1>1. scope.view \in Views /\ scope.query \in Queries /\ cached \subseteq Rows
  BY DEF TypeInv, TypeOK, Scope
<1>2. /\ scope' \in Scope
      /\ pageState' \in [Cards -> Extra \cup {None}]
      /\ aggregatePage' \in Extra \cup {None}
  BY <1>1, NewScopeTyped DEF RefreshEnds
<1>3. /\ search' \in [Queries -> Grouped \cup {None}]
      /\ all' \in [Queries -> Table \cup {None}]
  BY DEF RefreshEnds, TypeInv, TypeOK
<1>4. /\ previous' \in Queries \cup {None}
      /\ store'.cards \in [Queries -> Grouped \cup {None}]
      /\ store'.transactions \in [Queries -> Table \cup {None}]
  BY <1>2, <1>3, RenderedTyped DEF RefreshEnds
<1>5. FlightsOK(flights')
  <2> DEFINE v == scope.view
             q == scope.query
             data == IF v = "cards" THEN search[q] ELSE all[q]
             dropped == IF data = None THEN flights ELSE [flights EXCEPT ![v][q] = None]
  <2>1. FlightsOK(flights)
    BY DEF TypeInv
  <2>2. FlightsOK([flights EXCEPT ![v][q] = None])
    BY <1>1, <2>1 DEF FlightsOK, Views
  <2>3. FlightsOK(dropped)
    BY <2>1, <2>2
  <2>4. flights' = IF online THEN Asked(dropped, v, q) ELSE flights
    BY DEF RefreshEnds
  <2> HIDE DEF dropped
  <2>5. FlightsOK(Asked(dropped, v, q))
    BY <1>1, <2>3, AskedTyped
  <2> QED BY <2>1, <2>4, <2>5
<1> QED BY <1>2, <1>3, <1>4, <1>5 DEF RefreshEnds, TypeInv, TypeOK, FlightsOK

LEMMA NavigateTyped ==
    ASSUME TypeInv, NEW v \in Views, NEW q \in Queries, Navigate(v, q)
    PROVE  TypeInv'
<1> USE DEF server
<1>1. /\ scope' \in Scope
      /\ pageState' \in [Cards -> Extra \cup {None}]
      /\ aggregatePage' \in Extra \cup {None}
  BY NewScopeTyped DEF Navigate
<1>2. /\ search' \in [Queries -> Grouped \cup {None}]
      /\ all' \in [Queries -> Table \cup {None}]
  BY HydratedTyped DEF Navigate, TypeInv, TypeOK
<1>3. /\ previous' \in Queries \cup {None}
      /\ store'.cards \in [Queries -> Grouped \cup {None}]
      /\ store'.transactions \in [Queries -> Table \cup {None}]
  BY <1>1, <1>2, RenderedTyped DEF Navigate
<1>4. FlightsOK(flights')
  BY AskedTyped DEF Navigate, TypeInv, TypeOK
<1>5. tableLoads' \in SUBSET Load
  BY <1>1, DetachedTyped DEF Navigate, TypeInv, TypeOK
<1> QED BY <1>1, <1>2, <1>3, <1>4, <1>5 DEF Navigate, TypeInv, TypeOK, FlightsOK

LEMMA ArriveTyped ==
    ASSUME TypeInv, NEW v \in Views, NEW q \in Queries, Arrive(v, q)
    PROVE  TypeInv'
<1> USE DEF server, loads, pages
<1>1. FlightsOK(flights)
  BY DEF TypeInv
<1>2. /\ search' \in [Queries -> Grouped \cup {None}]
      /\ all' \in [Queries -> Table \cup {None}]
  BY <1>1 DEF Arrive, TypeInv, TypeOK, FlightsOK
<1>3. /\ scope' \in Scope
      /\ pageState' \in [Cards -> Extra \cup {None}]
      /\ aggregatePage' \in Extra \cup {None}
  BY DEF Arrive, TypeInv, TypeOK
<1>4. /\ previous' \in Queries \cup {None}
      /\ store'.cards \in [Queries -> Grouped \cup {None}]
      /\ store'.transactions \in [Queries -> Table \cup {None}]
  BY <1>2, <1>3, RenderedTyped DEF Arrive
<1>5. FlightsOK(flights')
  BY <1>1 DEF Arrive, FlightsOK, Views
<1> QED BY <1>2, <1>3, <1>4, <1>5 DEF Arrive, TypeInv, TypeOK, FlightsOK

LEMMA RerenderTyped == TypeInv /\ Rerender => TypeInv'
<1> SUFFICES ASSUME TypeInv, Rerender PROVE TypeInv'
  OBVIOUS
<1> USE DEF server, loads, pages
<1>1. scope.query \in Queries
  BY DEF TypeInv, TypeOK, Scope
<1>2. /\ search' \in [Queries -> Grouped \cup {None}]
      /\ all' \in [Queries -> Table \cup {None}]
  BY <1>1, HydratedTyped DEF Rerender, TypeInv, TypeOK
<1>3. /\ scope' \in Scope
      /\ pageState' \in [Cards -> Extra \cup {None}]
      /\ aggregatePage' \in Extra \cup {None}
  BY DEF Rerender, TypeInv, TypeOK
<1>4. /\ previous' \in Queries \cup {None}
      /\ store'.cards \in [Queries -> Grouped \cup {None}]
      /\ store'.transactions \in [Queries -> Table \cup {None}]
  BY <1>2, <1>3, RenderedTyped DEF Rerender
<1> QED BY <1>2, <1>3, <1>4 DEF Rerender, TypeInv, TypeOK, FlightsOK

LEMMA ReloadTyped == TypeInv /\ Reload => TypeInv'
<1> SUFFICES ASSUME TypeInv, Reload PROVE TypeInv'
  OBVIOUS
<1> USE DEF server
<1>1. scope.query \in Queries /\ scope.view \in Views
  BY DEF TypeInv, TypeOK, Scope
<1>2. Nothing \in [Queries -> Grouped \cup {None}] /\ Nothing \in [Queries -> Table \cup {None}]
  BY DEF Nothing
<1>3. /\ search' \in [Queries -> Grouped \cup {None}]
      /\ all' \in [Queries -> Table \cup {None}]
  BY <1>1, <1>2, HydratedTyped DEF Reload, TypeInv, TypeOK
<1>4. /\ scope' \in Scope
      /\ pageState' \in [Cards -> Extra \cup {None}]
      /\ aggregatePage' \in Extra \cup {None}
  BY <1>1, NewScopeTyped DEF Reload
<1>5. previous' \in Queries \cup {None}
  BY <1>1 DEF Reload
<1>6. FlightsOK(flights')
  BY <1>1, NoFlightsTyped, AskedTyped DEF Reload, TypeInv, TypeOK
<1> QED BY <1>3, <1>4, <1>5, <1>6 DEF Reload, TypeInv, TypeOK, FlightsOK

LEMMA LoadMoreOfCardTyped ==
    ASSUME TypeInv, NEW c \in Cards, LoadMoreOfCard(c)
    PROVE  TypeInv'
<1> USE DEF server, results, pages
<1>1. scope \in Scope /\ scope.query \in Queries /\ cached \subseteq Rows /\ cardLoads \in SUBSET Load
      /\ pageState[c] \in Extra \cup {None}
  BY DEF TypeInv, TypeOK, Scope
<1> DEFINE cursor == CardGroup(c).cursor
           page == CardPage(c, scope.query, cursor)
           after == Begins(pageState[c], cursor)
<1>2. cursor \in Rows \cup {None}
  BY CardGroupTyped DEF LoadMoreOfCard, Parts
<1>3. page \in Parts
  BY <1>1, PagesTyped
<1>4. cardLoads' = Detached(cardLoads, scope) \cup {NewLoad(c, page, after)}
  BY DEF LoadMoreOfCard
<1> HIDE DEF cursor, page
<1>5. after \in Rows \cup {None}
  BY <1>1, <1>2 DEF Begins, Extra
<1> HIDE DEF after
<1>6. cardLoads' \subseteq Load
  BY <1>1, <1>3, <1>4, <1>5, DetachedTyped, NewLoadTyped
<1> QED BY <1>6 DEF LoadMoreOfCard, TypeInv, TypeOK, FlightsOK

LEMMA LoadMoreOfTableTyped == TypeInv /\ LoadMoreOfTable => TypeInv'
<1> SUFFICES ASSUME TypeInv, LoadMoreOfTable PROVE TypeInv'
  OBVIOUS
<1> USE DEF server, results, pages
<1>1. scope \in Scope /\ scope.query \in Queries /\ cached \subseteq Rows /\ tableLoads \subseteq Load
      /\ aggregatePage \in Extra \cup {None} /\ all \in [Queries -> Table \cup {None}]
  BY DEF TypeInv, TypeOK, Scope
<1> DEFINE cursor == AggregateData.page.cursor
           page == AllPage(scope.query, cursor)
           after == Begins(aggregatePage, cursor)
<1>2. AggregateData \in Table
  BY <1>1, AggregatedTyped DEF LoadMoreOfTable, AggregateData
<1>3. cursor \in Rows \cup {None}
  BY <1>2 DEF Table, Parts
<1>4. page \in Parts
  BY <1>1, PagesTyped
<1>5. tableLoads' = tableLoads \cup {NewLoad(None, page, after)}
  BY DEF LoadMoreOfTable
<1> HIDE DEF cursor, page
<1>6. after \in Rows \cup {None}
  BY <1>1, <1>3 DEF Begins, Extra
<1> HIDE DEF after
<1>7. tableLoads' \subseteq Load
  BY <1>1, <1>4, <1>5, <1>6, NewLoadTyped
<1> QED BY <1>7 DEF LoadMoreOfTable, TypeInv, TypeOK, FlightsOK

LEMMA RowsOfTyped ==
    ASSUME NEW extra \in Extra \cup {None}
    PROVE  RowsOf(extra) \in Seq(Rows)
  BY DEF RowsOf, Extra, Parts

LEMMA CardPageArrivesTyped ==
    ASSUME TypeInv, NEW l \in cardLoads, CardPageArrives(l)
    PROVE  TypeInv'
<1> USE DEF server, results
<1>1. l \in Load /\ l.page \in Parts /\ pageState \in [Cards -> Extra \cup {None}]
      /\ cardLoads' \subseteq Load
  BY DEF CardPageArrives, TypeInv, TypeOK, Load
<1>2. pageState' \in [Cards -> Extra \cup {None}]
  <2> DEFINE extra == pageState[l.card]
             new == Merged(extra, l, RowsOf(extra) \o l.page.rows, l.page.reading)
  <2>1. pageState' = pageState \/ pageState' = [pageState EXCEPT ![l.card] = new]
    BY DEF CardPageArrives
  <2>2. ASSUME l.card \in Cards PROVE new \in Extra
    <3>1. extra \in Extra \cup {None}
      BY <1>1, <2>2
    <3>2. RowsOf(extra) \o l.page.rows \in Seq(Rows)
      BY <1>1, <3>1, RowsOfTyped DEF Parts
    <3>3. l.page.reading \in (SUBSET Rows) \cup {None}
      BY <1>1 DEF Parts
    <3> HIDE DEF extra
    <3> QED BY <1>1, <3>1, <3>2, <3>3, MergedTyped
  <2> HIDE DEF new
  <2> QED BY <1>1, <2>1, <2>2
<1> QED BY <1>1, <1>2 DEF CardPageArrives, TypeInv, TypeOK, FlightsOK

LEMMA TablePageArrivesTyped ==
    ASSUME TypeInv, NEW l \in tableLoads, TablePageArrives(l)
    PROVE  TypeInv'
<1> USE DEF server
<1>1. l \in Load /\ l.page \in Parts /\ l.query \in Queries /\ tableLoads' \subseteq Load
      /\ aggregatePage \in Extra \cup {None} /\ all \in [Queries -> Table \cup {None}]
  BY DEF TablePageArrives, TypeInv, TypeOK, Load
<1>2. aggregatePage' \in Extra \cup {None}
  <2> DEFINE result == all[l.query]
             base == IF result = None THEN <<>> ELSE result.page.rows
             known == IF aggregatePage # None /\ aggregatePage.query = l.query
                        THEN aggregatePage ELSE None
             rows == UniqueRows(base \o RowsOf(known) \o l.page.rows)
             left == {i \in DOMAIN rows : ~Contains(base, rows[i])}
             reading == IF result = None THEN None ELSE Joined(result.page, l.after, l.page)
  <2>1. \/ aggregatePage' = aggregatePage
        \/ aggregatePage' = Merged(known, l, Filtered(rows, left), reading)
    BY DEF TablePageArrives
  <2>2. known \in Extra \cup {None}
    BY <1>1
  <2>3. result \in Table \cup {None}
    BY <1>1
  <2>4. reading \in (SUBSET Rows) \cup {None}
    BY <1>1, JoinedTyped
  <2>5. base \in Seq(Rows)
    BY <2>3 DEF Table, Parts
  <2> HIDE DEF base, known, reading, result
  <2>6. base \o RowsOf(known) \o l.page.rows \in Seq(Rows)
    <3>1. RowsOf(known) \in Seq(Rows) /\ l.page.rows \in Seq(Rows)
      BY <1>1, <2>2, RowsOfTyped DEF Parts
    <3> QED BY <2>5, <3>1
  <2>7. rows \in Seq(Rows)
    BY <2>6, UniqueRowsDistinct
  <2>8. left \in SUBSET DOMAIN rows
    OBVIOUS
  <2> HIDE DEF rows, left
  <2>9. Filtered(rows, left) \in Seq(Rows)
    BY <2>7, <2>8, FilteredSeq
  <2>10. Merged(known, l, Filtered(rows, left), reading) \in Extra
    BY <1>1, <2>2, <2>4, <2>9, MergedTyped
  <2> QED BY <1>1, <2>1, <2>10
<1>3. scope' \in Scope /\ search' \in [Queries -> Grouped \cup {None}]
      /\ all' \in [Queries -> Table \cup {None}]
  BY DEF TablePageArrives, TypeInv, TypeOK
<1>4. /\ previous' \in Queries \cup {None}
      /\ store'.cards \in [Queries -> Grouped \cup {None}]
      /\ store'.transactions \in [Queries -> Table \cup {None}]
  BY <1>2, <1>3, RenderedTyped DEF TablePageArrives
<1> QED BY <1>1, <1>2, <1>3, <1>4 DEF TablePageArrives, TypeInv, TypeOK, FlightsOK

LEMMA TypeStep == TypeInv /\ [Next]_vars => TypeInv'
<1> SUFFICES ASSUME TypeInv, [Next]_vars PROVE TypeInv'
  OBVIOUS
<1> USE DEF server, results, pages, loads
<1>1. CASE Focus \/ ChangeNetwork
  <2>1. scope.view \in Views /\ scope.query \in Queries /\ cached \subseteq Rows
    BY DEF TypeInv, TypeOK, Scope
  <2>2. FlightsOK(flights')
    BY <1>1, <2>1, AskedTyped DEF Focus, ChangeNetwork, TypeInv
  <2> QED BY <1>1, <2>2 DEF Focus, ChangeNetwork, TypeInv, TypeOK, FlightsOK
<1>2. ASSUME NEW r \in Rows, Sync(r) PROVE TypeInv'
  <2>1. cached' \subseteq Rows /\ syncs' \in 0 .. MaxSyncs
    BY <1>2, LimitsAssumption DEF Sync, TypeInv, TypeOK
  <2> QED BY <1>2, <2>1 DEF Sync, TypeInv, TypeOK, FlightsOK
<1>3. CASE UNCHANGED vars
  BY <1>3 DEF vars, TypeInv, TypeOK, FlightsOK
<1> QED
  BY <1>1, <1>2, <1>3, RefreshEndsTyped, NavigateTyped, ArriveTyped, RerenderTyped,
     ReloadTyped, LoadMoreOfCardTyped, LoadMoreOfTableTyped, CardPageArrivesTyped,
     TablePageArrivesTyped DEF Next

\* The page's state, the answers under way and the stored snapshots have their types;
\* in particular a list has a cursor exactly when it has more (_page).
THEOREM PagesHaveTheirTypes == Spec => []TypeOK
<1>1. TypeInv => TypeOK
  BY DEF TypeInv
<1> QED BY <1>1, TypeInit, TypeStep, PTL DEF Spec

-----------------------------------------------------------------------------
(* The table *)

\* The rows that a reading has for a query.
Due(p, q) == p.reading \cap Matches[q]

TableListed(t, q) ==
    /\ t.query = q
    /\ Distinct(t.page.rows)
    /\ ToSet(t.page.rows) \subseteq Matches[q]
    /\ t.page.reading # None => Lists(t.page.rows, t.page.cursor, Due(t.page, q))

\* A page asked for from cursor c on.
PageListed(p, q, c) ==
    /\ c \in Rows
    /\ ToSet(p.rows) \subseteq Matches[q]
    /\ p.reading # None => Lists(p.rows, p.cursor, {r \in Due(p, q) : Before(c, r)})

TablesListed(tables) == \A q \in Queries : tables[q] # None => TableListed(tables[q], q)

\* The pages after the first belong to the list that is shown.
ExtraListed(extra, s) ==
    /\ extra.query = s.query /\ extra.gen = s.gen
    /\ PageListed(extra.part, extra.query, extra.after)

\* A load that is followed continues the pages that are there, and is the only one;
\* one that is no longer followed is of an earlier list than its callbacks saw.
Start(l, extra) == IF extra = None THEN l.after ELSE extra.part.cursor
LoadListed(l, extra) ==
    /\ PageListed(l.page, l.query, Start(l, extra))
    /\ extra # None => l.after = extra.after
LoadsListed(ls, extra, s) ==
    /\ \A l \in ls : l.gen <= s.gen /\ (~l.live => l.gen < l.seen.gen)
    /\ \A l, k \in ls : l.live /\ k.live => l = k
    /\ \A l \in ls :
          l.live /\ l.gen = s.gen /\ l.query = s.query => LoadListed(l, extra)

TableInv ==
    /\ TablesListed(all)
    /\ TablesListed(store.transactions)
    /\ TablesListed(flights["transactions"])
    /\ aggregatePage # None => ExtraListed(aggregatePage, scope)
    /\ LoadsListed(tableLoads, aggregatePage, scope)

LEMMA AllPageListed ==
    ASSUME NEW q \in Queries, cached \subseteq Rows
    PROVE  /\ AllResult(q) # None => TableListed(AllResult(q), q)
           /\ \A c \in Rows : PageListed(AllPage(q, c), q, c)
<1>1. Matches[q] \in SUBSET Rows /\ None \notin Rows /\ PerPage \in Nat \ {0}
  BY ReadableRows
<1>2. TableListed(AllResult(q), q)
  <2> DEFINE S == cached \cap Matches[q] \cap Rows
             p == AllPage(q, None)
  <2>1. S \in SUBSET Rows /\ S = cached \cap Matches[q]
    BY <1>1
  <2>2. p = Page(S, PerPage)
    BY DEF AllPage
  <2> HIDE DEF S
  <2>3. Lists(p.rows, p.cursor, S) /\ p.reading = cached
    BY <1>1, <2>1, <2>2, PageLists
  <2>4. Distinct(p.rows) /\ ToSet(p.rows) \subseteq S
    BY <2>3, ListsPrefix
  <2>5. AllResult(q).query = q /\ AllResult(q).page = p
    BY DEF AllResult
  <2> HIDE DEF p
  <2> QED BY <2>1, <2>3, <2>4, <2>5 DEF TableListed, Due
<1>3. ASSUME NEW c \in Rows PROVE PageListed(AllPage(q, c), q, c)
  <2> DEFINE S == cached \cap Matches[q] \cap AllAfter(c)
             p == AllPage(q, c)
  <2>1. S \in SUBSET Rows /\ S = {r \in cached \cap Matches[q] : Before(c, r)}
    BY <1>1 DEF AllAfter
  <2>2. p = Page(S, PerPage)
    BY <1>1, <1>3 DEF AllPage
  <2> HIDE DEF S
  <2>3. Lists(p.rows, p.cursor, S) /\ p.reading = cached
    BY <1>1, <2>1, <2>2, PageLists
  <2>4. ToSet(p.rows) \subseteq S
    BY <2>3, ListsPrefix
  <2> HIDE DEF p
  <2>5. PageListed(p, q, c)
    BY <1>3, <2>1, <2>3, <2>4 DEF PageListed, Due
  <2> QED BY <2>5 DEF p
<1> QED BY <1>2, <1>3

LEMMA AskedListed ==
    ASSUME NEW fl, FlightsOK(fl), NEW v \in Views, NEW q \in Queries, cached \subseteq Rows,
           TablesListed(fl["transactions"])
    PROVE  /\ TablesListed(Asked(fl, v, q)["transactions"])
           /\ \A up : TablesListed(AskedIf(up, fl, v, q)["transactions"])
<1>1. TablesListed(Asked(fl, v, q)["transactions"])
  <2>1. CASE fl[v][q] # None \/ v = "cards"
    BY <2>1 DEF Asked, FlightsOK, Views
  <2>2. CASE fl[v][q] = None /\ v = "transactions"
    <3> DEFINE x == AllResult(q)
    <3>1. x # None => TableListed(x, q)
      BY AllPageListed
    <3>2. Asked(fl, v, q) = [fl EXCEPT !["transactions"][q] = x]
      BY <2>2 DEF Asked, FirstPage
    <3> HIDE DEF x
    <3>3. Asked(fl, v, q)["transactions"] = [fl["transactions"] EXCEPT ![q] = x]
      BY <3>2 DEF FlightsOK, Views
    <3> QED BY <3>1, <3>3 DEF TablesListed, FlightsOK
  <2> QED BY <2>1, <2>2 DEF Views
<1> QED BY <1>1 DEF AskedIf

LEMMA HydratedListed ==
    ASSUME NEW data \in [Queries -> Table \cup {None}], NEW kept, NEW q \in Queries,
           TablesListed(data), TablesListed(kept)
    PROVE  TablesListed(Hydrated(data, kept, q))
  BY DEF Hydrated, TablesListed

\* The first page and the pages loaded after it, together.
LEMMA AggregatedListed ==
    ASSUME NEW result \in Table \cup {None}, NEW extra \in Extra \cup {None},
           NEW q \in Queries,
           result # None => TableListed(result, q),
           extra # None => PageListed(extra.part, extra.query, extra.after),
           Aggregated(result, extra, q) # None
    PROVE  TableListed(Aggregated(result, extra, q), q)
<1>1. CASE result = None \/ extra = None \/ extra.query # q
  BY <1>1 DEF Aggregated
<1>2. CASE ~(result = None \/ extra = None \/ extra.query # q)
  <2> DEFINE first == result.page
             next == extra.part
             both == first.rows \o next.rows
             reading == Joined(first, extra.after, next)
             page == [rows    |-> UniqueRows(both),
                      cursor  |-> next.cursor,
                      hasMore |-> next.hasMore,
                      reading |-> reading]
  <2>1. /\ first \in Parts /\ next \in Parts
        /\ TableListed(result, q) /\ PageListed(next, q, extra.after)
    BY <1>2 DEF Table, Extra
  <2>2. Aggregated(result, extra, q) = [query |-> result.query, page |-> page]
    BY <1>2 DEF Aggregated
  <2>3. first.rows \in Seq(Rows) /\ next.rows \in Seq(Rows)
    BY <2>1 DEF Parts
  <2>4. result.query = q /\ extra.after \in Rows
        /\ ToSet(first.rows) \subseteq Matches[q] /\ ToSet(next.rows) \subseteq Matches[q]
    BY <2>1 DEF TableListed, PageListed
  <2>5. both \in Seq(Rows) /\ ToSet(both) \subseteq Matches[q]
    BY <2>3, <2>4, ConcatSet
  <2>6. /\ Distinct(UniqueRows(both))
        /\ ToSet(UniqueRows(both)) \subseteq Matches[q]
    BY <2>5, UniqueRowsDistinct
  <2>7. ASSUME reading # None
        PROVE  Lists(UniqueRows(both), next.cursor, reading \cap Matches[q])
    <3> DEFINE D == reading \cap Matches[q]
    <3>1. /\ extra.after = first.cursor /\ extra.after # None
          /\ first.reading = reading /\ next.reading = reading
      BY <2>4, <2>7, ReadableRows DEF Joined
    <3>2. /\ Lists(first.rows, extra.after, D)
          /\ Lists(next.rows, next.cursor, {r \in D : Before(extra.after, r)})
      BY <2>1, <2>7, <3>1 DEF TableListed, PageListed, Due
    <3> HIDE DEF D
    <3>3. Lists(both, next.cursor, D)
      BY <3>1, <3>2, ListsContinue
    <3> HIDE DEF both
    <3>4. UniqueRows(both) = both
      <4>1. both \in Seq(Rows) /\ InOrder(both)
        BY <3>3, ListsPrefix
      <4> QED BY <4>1, UniqueRowsOfSorted
    <3> QED BY <3>3, <3>4 DEF D
  <2> HIDE DEF both, reading
  <2>8. /\ page.rows = UniqueRows(both) /\ page.cursor = next.cursor
        /\ page.reading = reading
    OBVIOUS
  <2> HIDE DEF page, next
  <2>9. /\ Aggregated(result, extra, q).query = q
        /\ Aggregated(result, extra, q).page = page
    BY <2>2, <2>4
  <2> QED BY <2>6, <2>7, <2>8, <2>9 DEF TableListed, Due
<1> QED BY <1>1, <1>2

\* The rows of a page that continues the table, once those shown are left out.
LEMMA NewRows ==
    ASSUME NEW D, NEW base, NEW c, c # None, Lists(base, c, D),
           NEW tail, NEW d, Lists(tail, d, {r \in D : Before(c, r)}),
           NEW rows, rows = UniqueRows(base \o tail)
    PROVE  Filtered(rows, {i \in DOMAIN rows : ~Contains(base, rows[i])}) = tail
<1> DEFINE left == {i \in DOMAIN rows : ~Contains(base, rows[i])}
<1>1. Lists(base \o tail, d, D) /\ \A i \in DOMAIN tail : ~Contains(base, tail[i])
  BY ListsContinue
<1>2. rows = base \o tail /\ rows \in Seq(Rows) /\ InOrder(rows)
  BY <1>1, ListsPrefix, UniqueRowsOfSorted
<1>3. base \in Seq(Rows) /\ tail \in Seq(Rows) /\ InOrder(tail)
  BY ListsPrefix
<1>4. left \in SUBSET DOMAIN rows
  OBVIOUS
<1>5. {rows[i] : i \in left} = ToSet(tail)
  <2>1. ASSUME NEW i \in left PROVE rows[i] \in ToSet(tail)
    <3>1. i \in 1 .. Len(base) + Len(tail) /\ Len(base) \in Nat /\ Len(tail) \in Nat
      BY <1>2, <1>3
    <3>2. i \in 1 .. Len(base) => rows[i] = base[i] /\ Contains(base, rows[i])
      BY <1>2, <1>3 DEF Contains
    <3>3. i \notin 1 .. Len(base)
      BY <3>2
    <3>4. i - Len(base) \in DOMAIN tail /\ rows[i] = tail[i - Len(base)]
      BY <1>2, <1>3, <3>1, <3>3
    <3> QED BY <3>4 DEF ToSet
  <2>2. ASSUME NEW j \in DOMAIN tail PROVE \E i \in left : rows[i] = tail[j]
    <3>1. Len(base) + j \in DOMAIN rows /\ rows[Len(base) + j] = tail[j]
      BY <1>2, <1>3
    <3>2. ~Contains(base, tail[j])
      BY <1>1
    <3> QED BY <3>1, <3>2
  <2> HIDE DEF left
  <2> QED BY <2>1, <2>2 DEF ToSet
<1> HIDE DEF left
<1>6. Filtered(rows, left) = Sorted(ToSet(tail))
  BY <1>2, <1>4, <1>5, FilteredSorted
<1>7. tail = Sorted(ToSet(tail))
  BY <1>3, SortedUnique
<1> QED BY <1>6, <1>7 DEF left

LEMMA TableInit == TypeInv /\ Init => TableInv
<1> SUFFICES ASSUME TypeInv, Init PROVE TableInv
  OBVIOUS
<1>1. cached \subseteq Rows /\ scope.query \in Queries
  BY DEF TypeInv, TypeOK, Scope
<1>2. TablesListed(NoFlights["transactions"])
  BY DEF TablesListed, NoFlights, Views
<1>3. TablesListed(flights["transactions"])
  BY <1>1, <1>2, NoFlightsTyped, AskedListed DEF Init, Views
<1>4. store.transactions = Nothing /\ all = Nothing
  BY DEF Init, Views
<1>5. TablesListed(Nothing)
  BY DEF TablesListed, Nothing
<1>6. aggregatePage = None /\ tableLoads = {}
  BY DEF Init
<1>7. LoadsListed({}, aggregatePage, scope)
  BY DEF LoadsListed
<1> QED BY <1>3, <1>4, <1>5, <1>6, <1>7 DEF TableInv

LEMMA RenderedListed ==
    ASSUME TypeInv, TypeInv', Rendered,
           TablesListed(store.transactions), TablesListed(all'),
           aggregatePage' # None =>
               PageListed(aggregatePage'.part, aggregatePage'.query, aggregatePage'.after)
    PROVE  TablesListed(store'.transactions)
<1> DEFINE q == scope'.query
           t == Aggregated(all'[q], aggregatePage', q)
           old == store.transactions
<1>1. /\ q \in Queries
      /\ all'[q] \in Table \cup {None} /\ aggregatePage' \in Extra \cup {None}
      /\ old \in [Queries -> Table \cup {None}]
  BY DEF TypeInv, TypeOK, Scope
<1>2. store'.transactions = Snapshot(old, q, t)
  BY DEF Rendered, Persisted
<1>3. all'[q] # None => TableListed(all'[q], q)
  BY <1>1 DEF TablesListed
<1>4. t # None => TableListed(t, q)
  BY <1>1, <1>3, AggregatedListed
<1> HIDE DEF t, q
<1>5. TablesListed(Snapshot(old, q, t))
  BY <1>1, <1>4 DEF Snapshot, TablesListed
<1> QED BY <1>2, <1>5

\* A new list: no load continues it yet.
LEMMA NewListLoads ==
    ASSUME TypeInv, NEW ls \in SUBSET tableLoads, NEW s \in Scope, s.gen = scope.gen + 1,
           LoadsListed(tableLoads, aggregatePage, scope), NEW extra
    PROVE  LoadsListed(ls, extra, s) /\ LoadsListed(Detached(ls, s), extra, s)
<1>1. /\ scope.gen \in Nat /\ s.gen = scope.gen + 1
      /\ \A l \in ls : l \in Load /\ l.gen \in Nat /\ l.gen <= scope.gen
      /\ \A l \in ls : ~l.live => l.gen < l.seen.gen
  BY DEF TypeInv, TypeOK, LoadsListed, Load, Scope
<1>2. LoadsListed(ls, extra, s)
  <2>1. \A l \in ls : l.gen <= s.gen /\ l.gen # s.gen /\ (~l.live => l.gen < l.seen.gen)
    BY <1>1
  <2>2. \A l, k \in ls : l.live /\ k.live => l = k
    BY DEF LoadsListed
  <2> QED BY <2>1, <2>2 DEF LoadsListed
<1>3. ASSUME NEW l \in Detached(ls, s)
      PROVE  l.gen <= s.gen /\ ~l.live /\ l.gen < l.seen.gen
  <2>1. PICK k \in ls : l = IF k.live THEN [k EXCEPT !.live = FALSE, !.seen = s] ELSE k
    BY DEF Detached
  <2>2. CASE k.live
    <3>1. l.gen = k.gen /\ l.seen = s /\ l.live = FALSE
      BY <1>1, <2>1, <2>2 DEF Load
    <3> QED BY <1>1, <3>1
  <2>3. CASE ~k.live
    BY <1>1, <2>1, <2>3
  <2> QED BY <2>2, <2>3
<1> QED BY <1>2, <1>3 DEF LoadsListed

LEMMA NewScopeListed ==
    ASSUME NEW v, NEW q, NewScope(v, q), Cleared
    PROVE  scope'.gen = scope.gen + 1 /\ aggregatePage' = None
  BY DEF NewScope, Cleared

LEMMA NavigateListed ==
    ASSUME TypeInv, TypeInv', TableInv, NEW v \in Views, NEW q \in Queries, Navigate(v, q)
    PROVE  TableInv'
<1>1. scope'.gen = scope.gen + 1 /\ aggregatePage' = None
  BY NewScopeListed DEF Navigate
<1>2. /\ cached \subseteq Rows /\ FlightsOK(flights) /\ scope' \in Scope
      /\ all \in [Queries -> Table \cup {None}]
  BY DEF TypeInv, TypeOK
<1>3. TablesListed(all')
  BY <1>2, HydratedListed DEF Navigate, TableInv
<1>4. TablesListed(store'.transactions)
  BY <1>1, <1>3, RenderedListed DEF Navigate, TableInv
<1>5. TablesListed(flights'["transactions"])
  BY <1>2, AskedListed DEF Navigate, TableInv
<1>6. LoadsListed(tableLoads', aggregatePage', scope')
  <2>1. tableLoads' = Detached(tableLoads, scope')
    BY DEF Navigate
  <2> QED BY <1>1, <1>2, <2>1, NewListLoads DEF TableInv
<1> QED BY <1>1, <1>3, <1>4, <1>5, <1>6 DEF TableInv

LEMMA RefreshEndsListed ==
    ASSUME TypeInv, TypeInv', TableInv, RefreshEnds
    PROVE  TableInv'
<1> USE DEF loads, server
<1>1. scope'.gen = scope.gen + 1 /\ aggregatePage' = None
  BY NewScopeListed DEF RefreshEnds
<1>2. /\ cached \subseteq Rows /\ FlightsOK(flights) /\ scope' \in Scope
      /\ scope.view \in Views /\ scope.query \in Queries
  BY DEF TypeInv, TypeOK, Scope
<1>3. TablesListed(all')
  BY DEF RefreshEnds, TableInv
<1>4. TablesListed(store'.transactions)
  BY <1>1, <1>3, RenderedListed DEF RefreshEnds, TableInv
<1>5. TablesListed(flights'["transactions"])
  <2> DEFINE v == scope.view
             q == scope.query
             data == IF v = "cards" THEN search[q] ELSE all[q]
             dropped == IF data = None THEN flights ELSE [flights EXCEPT ![v][q] = None]
  <2>1. TablesListed(flights["transactions"])
    BY DEF TableInv
  <2>2. /\ FlightsOK([flights EXCEPT ![v][q] = None])
        /\ TablesListed([flights EXCEPT ![v][q] = None]["transactions"])
    BY <1>2, <2>1 DEF FlightsOK, Views, TablesListed
  <2>3. FlightsOK(dropped) /\ TablesListed(dropped["transactions"])
    BY <1>2, <2>1, <2>2
  <2>4. flights' = IF online THEN Asked(dropped, v, q) ELSE flights
    BY DEF RefreshEnds
  <2> HIDE DEF dropped
  <2> QED BY <1>2, <2>1, <2>3, <2>4, AskedListed
<1>6. LoadsListed(tableLoads', aggregatePage', scope')
  <2>1. tableLoads' = tableLoads
    BY DEF RefreshEnds
  <2> QED BY <1>1, <1>2, <2>1, NewListLoads DEF TableInv
<1> QED BY <1>1, <1>3, <1>4, <1>5, <1>6 DEF TableInv

LEMMA ReloadListed ==
    ASSUME TypeInv, TypeInv', TableInv, Reload
    PROVE  TableInv'
<1> USE DEF server
<1>1. scope'.gen = scope.gen + 1 /\ aggregatePage' = None /\ tableLoads' = {}
  BY NewScopeListed DEF Reload
<1>2. /\ cached \subseteq Rows /\ scope.view \in Views /\ scope.query \in Queries
  BY DEF TypeInv, TypeOK, Scope
<1>3. TablesListed(Nothing) /\ Nothing \in [Queries -> Table \cup {None}]
  BY DEF Nothing, TablesListed
<1>4. TablesListed(all')
  BY <1>2, <1>3, HydratedListed DEF Reload, TableInv
<1>5. store' = store
  BY DEF Reload
<1>6. TablesListed(NoFlights["transactions"])
  BY DEF TablesListed, NoFlights, Views
<1>7. TablesListed(flights'["transactions"])
  BY <1>2, <1>6, NoFlightsTyped, AskedListed DEF Reload
<1>8. LoadsListed({}, aggregatePage', scope')
  BY DEF LoadsListed
<1> QED BY <1>1, <1>4, <1>5, <1>7, <1>8 DEF TableInv

LEMMA ArriveListed ==
    ASSUME TypeInv, TypeInv', TableInv, NEW v \in Views, NEW q \in Queries, Arrive(v, q)
    PROVE  TableInv'
<1> USE DEF server, loads, pages
<1>1. FlightsOK(flights) /\ TablesListed(flights["transactions"])
      /\ all \in [Queries -> Table \cup {None}]
  BY DEF TypeInv, TypeOK, TableInv
<1>2. TablesListed(all')
  <2>1. CASE all' = all
    BY <2>1 DEF TableInv
  <2>2. CASE all' = [all EXCEPT ![q] = flights["transactions"][q]]
    BY <1>1, <2>2 DEF TableInv, TablesListed
  <2> QED BY <2>1, <2>2 DEF Arrive
<1>3. UNCHANGED <<aggregatePage, tableLoads, scope>>
  BY DEF Arrive
<1>4. TablesListed(store'.transactions)
  BY <1>2, <1>3, RenderedListed DEF Arrive, TableInv, ExtraListed
<1>5. TablesListed(flights'["transactions"])
  <2>1. flights' = [flights EXCEPT ![v][q] = None]
    BY DEF Arrive
  <2> QED BY <1>1, <2>1 DEF FlightsOK, Views, TablesListed
<1> QED BY <1>2, <1>3, <1>4, <1>5 DEF TableInv

LEMMA RerenderListed ==
    ASSUME TypeInv, TypeInv', TableInv, Rerender
    PROVE  TableInv'
<1> USE DEF server, loads, pages
<1>1. all \in [Queries -> Table \cup {None}] /\ scope.query \in Queries
  BY DEF TypeInv, TypeOK, Scope
<1>2. TablesListed(all')
  BY <1>1, HydratedListed DEF Rerender, TableInv
<1>3. UNCHANGED <<aggregatePage, tableLoads, scope, flights>>
  BY DEF Rerender
<1>4. TablesListed(store'.transactions)
  BY <1>2, <1>3, RenderedListed DEF Rerender, TableInv, ExtraListed
<1> QED BY <1>2, <1>3, <1>4 DEF TableInv

LEMMA LoadMoreOfTableListed ==
    ASSUME TypeInv, TableInv, LoadMoreOfTable
    PROVE  TableInv'
<1> USE DEF server, results, pages
<1>1. /\ scope \in Scope /\ scope.query \in Queries /\ cached \subseteq Rows
      /\ aggregatePage \in Extra \cup {None} /\ all \in [Queries -> Table \cup {None}]
  BY DEF TypeInv, TypeOK, Scope
<1> DEFINE cursor == AggregateData.page.cursor
           page == AllPage(scope.query, cursor)
           after == Begins(aggregatePage, cursor)
           new == NewLoad(None, page, after)
<1>2. /\ tableLoads' = tableLoads \cup {new}
      /\ \A l \in tableLoads : ~l.live
      /\ UNCHANGED <<scope, all, store, flights, aggregatePage>>
  BY DEF LoadMoreOfTable
<1>3. cursor \in Rows
  <2>1. AggregateData \in Table
    BY <1>1, AggregatedTyped DEF LoadMoreOfTable, AggregateData
  <2> QED BY <2>1 DEF Table, Parts, LoadMoreOfTable
<1>4. PageListed(page, scope.query, cursor)
  BY <1>1, <1>3, AllPageListed
<1>5. aggregatePage # None => aggregatePage.query = scope.query
  BY DEF TableInv, ExtraListed
<1>6. aggregatePage # None => cursor = aggregatePage.part.cursor
  <2>1. ASSUME aggregatePage # None PROVE cursor = aggregatePage.part.cursor
    <3>1. all[scope.query] # None
      BY <2>1, <1>5 DEF LoadMoreOfTable, AggregateData, Aggregated
    <3> QED BY <1>5, <2>1, <3>1 DEF AggregateData, Aggregated
  <2> QED BY <2>1
<1>7. /\ new.page = page /\ new.query = scope.query /\ new.after = after
      /\ new.live = TRUE /\ new.gen = scope.gen
  BY DEF NewLoad
<1> HIDE DEF cursor, page, new
<1>8. after = IF aggregatePage = None THEN cursor ELSE aggregatePage.after
  BY DEF Begins
<1> HIDE DEF after
<1>9. LoadListed(new, aggregatePage)
  <2>1. Start(new, aggregatePage) = cursor
    BY <1>6, <1>7, <1>8 DEF Start
  <2> QED BY <1>4, <1>7, <1>8, <2>1 DEF LoadListed
<1>10. LoadsListed(tableLoads', aggregatePage, scope)
  <2>1. LoadsListed(tableLoads, aggregatePage, scope)
    BY DEF TableInv
  <2>2. new.gen <= scope.gen
    BY <1>1, <1>7 DEF Scope
  <2>3. \A l \in tableLoads' : l.gen <= scope.gen /\ (~l.live => l.gen < l.seen.gen)
    BY <1>2, <1>7, <2>1, <2>2 DEF LoadsListed
  <2>4. \A l, k \in tableLoads' : l.live /\ k.live => l = k
    BY <1>2
  <2>5. \A l \in tableLoads' : l.live => LoadListed(l, aggregatePage)
    BY <1>2, <1>9
  <2> QED BY <2>3, <2>4, <2>5 DEF LoadsListed
<1> QED BY <1>2, <1>10 DEF TableInv

LEMMA AcceptedIsListed ==
    ASSUME TypeInv, LoadsListed(tableLoads, aggregatePage, scope), NEW l \in tableLoads,
           Accepts(l, "transactions")
    PROVE  /\ l.live /\ l.query = scope.query /\ l.gen = scope.gen
           /\ LoadListed(l, aggregatePage)
<1>1. l.live
  <2>1. l.gen \in Nat /\ l.seen.gen \in Nat
    BY DEF TypeInv, TypeOK, Load, Scope
  <2> QED BY <2>1 DEF Accepts, Sees, LoadsListed
<1>2. l.query = scope.query /\ l.gen = scope.gen
  BY <1>1 DEF Accepts, Sees
<1> QED BY <1>1, <1>2 DEF LoadsListed

\* What onSuccess of aggregateMoreMutation makes of the pages after the first.
MergedTable(result, known, l) ==
    LET base == IF result = None THEN <<>> ELSE result.page.rows
        rows == UniqueRows(base \o RowsOf(known) \o l.page.rows)
        left == {i \in DOMAIN rows : ~Contains(base, rows[i])}
        reading == IF result = None THEN None ELSE Joined(result.page, l.after, l.page)
    IN  Merged(known, l, Filtered(rows, left), reading)

LEMMA MergedListed ==
    ASSUME NEW result \in Table \cup {None}, NEW known \in Extra \cup {None},
           NEW l \in Load,
           result # None => TableListed(result, l.query),
           known # None => known.query = l.query /\ PageListed(known.part, l.query, known.after),
           LoadListed(l, known)
    PROVE  /\ MergedTable(result, known, l).query = l.query
           /\ MergedTable(result, known, l).gen = l.gen
           /\ PageListed(MergedTable(result, known, l).part, l.query,
                         MergedTable(result, known, l).after)
<1> DEFINE base == IF result = None THEN <<>> ELSE result.page.rows
           rows == UniqueRows(base \o RowsOf(known) \o l.page.rows)
           left == {i \in DOMAIN rows : ~Contains(base, rows[i])}
           reading == IF result = None THEN None ELSE Joined(result.page, l.after, l.page)
           new == MergedTable(result, known, l)
           q == l.query
           tail == RowsOf(known) \o l.page.rows
           d == l.page.cursor
<1>15. new = Merged(known, l, Filtered(rows, left), reading)
  BY DEF MergedTable
<1> HIDE DEF new
<1>1. /\ q \in Queries /\ l.page \in Parts /\ l.page.rows \in Seq(Rows)
      /\ None \notin Rows
  BY ReadableRows DEF Load, Parts
<1>2. base \in Seq(Rows) /\ (result # None => result.page \in Parts)
  BY DEF Table, Parts
<1>3. RowsOf(known) \in Seq(Rows) /\ tail \in Seq(Rows)
  BY <1>1, RowsOfTyped
<1>4. /\ ToSet(base) \subseteq Matches[q] /\ ToSet(RowsOf(known)) \subseteq Matches[q]
      /\ ToSet(l.page.rows) \subseteq Matches[q]
  <2>1. ToSet(base) \subseteq Matches[q]
    BY DEF TableListed, ToSet
  <2>2. ToSet(RowsOf(known)) \subseteq Matches[q]
    BY DEF PageListed, RowsOf, ToSet
  <2> QED BY <2>1, <2>2 DEF LoadListed, PageListed
<1>5. base \o RowsOf(known) \o l.page.rows = base \o tail
  <2>1. \A a, b, c \in Seq(Rows) : (a \o b) \o c = a \o (b \o c)
    BY ConcatAssociative
  <2> QED BY ZenonT(30), <1>1, <1>2, <1>3, <2>1
<1> HIDE DEF base
<1>6. base \o tail \in Seq(Rows) /\ ToSet(base \o tail) \subseteq Matches[q]
  <2>1. ToSet(tail) \subseteq Matches[q]
    BY <1>1, <1>3, <1>4, ConcatSet
  <2> HIDE DEF tail
  <2> QED BY <1>2, <1>3, <1>4, <2>1, ConcatSet
<1> HIDE DEF tail
<1>16. rows = UniqueRows(base \o tail)
  BY <1>5
<1> HIDE DEF rows
<1>7. rows \in Seq(Rows) /\ ToSet(rows) \subseteq Matches[q]
  BY <1>6, <1>16, UniqueRowsDistinct
<1>8. left \in SUBSET DOMAIN rows
  OBVIOUS
<1> HIDE DEF left
<1>9. ToSet(Filtered(rows, left)) \subseteq Matches[q]
  <2>1. ToSet(Filtered(rows, left)) = {rows[i] : i \in left}
    BY <1>7, <1>8, FilteredSeq
  <2>2. {rows[i] : i \in left} \subseteq ToSet(rows)
    BY <1>8 DEF ToSet
  <2> QED BY <1>7, <2>1, <2>2
<1> DEFINE after == IF known = None THEN l.after ELSE known.after
           one == IF known = None \/ known.part.reading = reading THEN reading ELSE None
<1>10. /\ new.query = l.query /\ new.gen = l.gen /\ new.after = after
       /\ new.part.rows = Filtered(rows, left) /\ new.part.cursor = d
       /\ new.part.reading = one
  BY <1>15 DEF Merged
<1>11. after \in Rows /\ after = l.after
  BY DEF LoadListed, PageListed, Start
<1>12. ASSUME one # None
       PROVE  Lists(Filtered(rows, left), d, {r \in one \cap Matches[q] : Before(after, r)})
  <2> DEFINE D == one \cap Matches[q]
             E == {r \in D : Before(after, r)}
  <2>1. /\ result # None /\ reading = one
        /\ l.after = result.page.cursor
        /\ result.page.reading = one /\ l.page.reading = one
        /\ known # None => known.part.reading = one
    BY <1>12 DEF Joined
  <2>2. Lists(base, after, D)
    <3>1. base = result.page.rows
      BY <2>1 DEF base
    <3> QED BY <1>11, <1>12, <2>1, <3>1 DEF TableListed, Due
  <2>3. Lists(tail, d, E)
    <3>1. CASE known = None
      <4>1. tail = l.page.rows
        BY <1>1, <3>1 DEF tail, RowsOf
      <4> QED BY <1>12, <2>1, <3>1, <4>1 DEF LoadListed, PageListed, Start, Due
    <3>2. CASE known # None
      <4> DEFINE y == known.part.cursor
      <4>1. /\ y \in Rows /\ y # None
            /\ Lists(known.part.rows, y, E)
            /\ Lists(l.page.rows, d, {r \in D : Before(y, r)})
        BY <1>1, <1>12, <2>1, <3>2 DEF LoadListed, PageListed, Start, Due
      <4>2. {r \in E : Before(y, r)} = {r \in D : Before(y, r)}
        <5>1. y \in E /\ D \in SUBSET Rows
          BY <1>1, <4>1, ReadableRows DEF Lists
        <5> QED BY <1>11, <5>1, BeforeIsOrder
      <4>3. tail = known.part.rows \o l.page.rows
        BY <3>2 DEF tail, RowsOf
      <4> HIDE DEF D, E, y
      <4> QED BY <4>1, <4>2, <4>3, ListsContinue
    <3> QED BY <3>1, <3>2
  <2>4. after # None
    BY <1>1, <1>11
  <2> HIDE DEF D
  <2>6. Filtered(rows, left) = tail
    BY <1>16, <2>2, <2>3, <2>4, NewRows DEF left
  <2> QED BY <2>3, <2>6 DEF D
<1> HIDE DEF after, one, q, d, reading
<1>13. ASSUME new.part.reading # None
       PROVE  Lists(new.part.rows, new.part.cursor,
                    {r \in Due(new.part, q) : Before(new.after, r)})
  BY <1>10, <1>12, <1>13 DEF Due
<1>14. PageListed(new.part, q, new.after)
  BY <1>9, <1>10, <1>11, <1>13 DEF PageListed
<1> QED BY <1>10, <1>14 DEF q, new

LEMMA TablePageArrivesListed ==
    ASSUME TypeInv, TypeInv', TableInv, NEW l \in tableLoads, TablePageArrives(l)
    PROVE  TableInv'
<1> USE DEF server
<1>1. /\ l \in Load /\ l.query \in Queries
      /\ aggregatePage \in Extra \cup {None} /\ all \in [Queries -> Table \cup {None}]
      /\ LoadsListed(tableLoads, aggregatePage, scope)
  BY DEF TypeInv, TypeOK, Load, TableInv
<1>2. /\ tableLoads' = tableLoads \ {l}
      /\ UNCHANGED <<scope, all, flights>> /\ Rendered
  BY DEF TablePageArrives
<1>3. /\ aggregatePage' # None => ExtraListed(aggregatePage', scope)
      /\ LoadsListed(tableLoads', aggregatePage', scope)
  <2>1. CASE UNCHANGED aggregatePage
    BY <1>1, <1>2, <2>1 DEF TableInv, LoadsListed
  <2> DEFINE result == all[l.query]
             known == IF aggregatePage # None /\ aggregatePage.query = l.query
                        THEN aggregatePage ELSE None
             new == MergedTable(result, known, l)
  <2>2. CASE Accepts(l, "transactions") /\ aggregatePage' = new
    <3>1. /\ l.live /\ l.query = scope.query /\ l.gen = scope.gen
          /\ LoadListed(l, aggregatePage)
      BY <1>1, <2>2, AcceptedIsListed
    <3>2. /\ aggregatePage # None => ExtraListed(aggregatePage, scope)
          /\ known = aggregatePage
      BY <3>1 DEF TableInv, ExtraListed
    <3>3. known # None => known.query = l.query /\ PageListed(known.part, l.query, known.after)
      BY <3>1, <3>2 DEF ExtraListed
    <3>4. result \in Table \cup {None} /\ (result # None => TableListed(result, l.query))
      BY <1>1 DEF TableInv, TablesListed
    <3>5. known \in Extra \cup {None} /\ LoadListed(l, known)
      BY <1>1, <3>1, <3>2
    <3> HIDE DEF known, result
    <3>6. /\ new.query = l.query /\ new.gen = l.gen
          /\ PageListed(new.part, l.query, new.after)
      BY <1>1, <3>3, <3>4, <3>5, MergedListed
    <3> HIDE DEF new
    <3>7. ExtraListed(aggregatePage', scope)
      BY <2>2, <3>1, <3>6 DEF ExtraListed
    <3>8. LoadsListed(tableLoads', aggregatePage', scope)
      BY <1>1, <1>2, <3>1 DEF LoadsListed
    <3> QED BY <3>7, <3>8
  <2> QED BY <2>1, <2>2 DEF TablePageArrives, MergedTable
<1>4. TablesListed(all') /\ TablesListed(flights'["transactions"])
  BY <1>2 DEF TableInv
<1>5. TablesListed(store'.transactions)
  BY <1>2, <1>3, <1>4, RenderedListed DEF TableInv, ExtraListed
<1> QED BY <1>2, <1>3, <1>4, <1>5 DEF TableInv

LEMMA TableStep == TypeInv /\ TypeInv' /\ TableInv /\ [Next]_vars => TableInv'
<1> SUFFICES ASSUME TypeInv, TypeInv', TableInv, [Next]_vars PROVE TableInv'
  OBVIOUS
<1> USE DEF server, results, pages, loads
<1>1. ASSUME UNCHANGED <<scope, all, flights, aggregatePage, tableLoads, store>>
      PROVE  TableInv'
  BY <1>1 DEF TableInv
<1>2. CASE Focus \/ ChangeNetwork
  <2>1. /\ scope.view \in Views /\ scope.query \in Queries /\ cached \subseteq Rows
        /\ FlightsOK(flights)
    BY DEF TypeInv, TypeOK, Scope
  <2>2. TablesListed(flights'["transactions"])
    BY <1>2, <2>1, AskedListed DEF Focus, ChangeNetwork, TableInv
  <2> QED BY <1>2, <2>2 DEF Focus, ChangeNetwork, TableInv
<1>3. ASSUME NEW r \in Rows, Sync(r) PROVE TableInv'
  BY <1>1, <1>3 DEF Sync
<1>4. ASSUME NEW c \in Cards, LoadMoreOfCard(c) PROVE TableInv'
  BY <1>1, <1>4 DEF LoadMoreOfCard
<1>5. ASSUME NEW l \in cardLoads, CardPageArrives(l) PROVE TableInv'
  BY <1>1, <1>5 DEF CardPageArrives
<1>6. CASE UNCHANGED vars
  BY <1>1, <1>6 DEF vars
<1> QED
  BY <1>2, <1>3, <1>4, <1>5, <1>6, RefreshEndsListed, NavigateListed, ArriveListed,
     RerenderListed, ReloadListed, LoadMoreOfTableListed, TablePageArrivesListed DEF Next

\* The table shows no row twice, and only rows of the submitted query; when its pages
\* are of one reading it shows the first of that reading's rows, in order, and has
\* more exactly when there are more (all_transactions, AggregateCursorCodec and
\* aggregateMoreMutation), whatever was pressed, refetched, reloaded or reset.
THEOREM TableStaysInOrder == Spec => []TableInOrder
<1>1. TypeInv /\ TableInv => TableInOrder
  <2> SUFFICES ASSUME TypeInv, TableInv, AggregateData # None
               PROVE  LET page == AggregateData.page
                          due == Sorted(page.reading \cap Matches[scope.query])
                      IN  /\ Distinct(page.rows)
                          /\ ToSet(page.rows) \subseteq Matches[scope.query]
                          /\ page.reading # None =>
                                /\ IsPrefix(page.rows, due)
                                /\ page.hasMore <=> Len(page.rows) < Len(due)
    BY DEF TableInOrder
  <2> DEFINE q == scope.query
             page == AggregateData.page
  <2>1. /\ q \in Queries /\ all[q] \in Table \cup {None}
        /\ aggregatePage \in Extra \cup {None}
    BY DEF TypeInv, TypeOK, Scope
  <2>2. /\ all[q] # None => TableListed(all[q], q)
        /\ aggregatePage # None =>
               PageListed(aggregatePage.part, aggregatePage.query, aggregatePage.after)
    BY <2>1 DEF TableInv, TablesListed, ExtraListed
  <2>3. AggregateData = Aggregated(all[q], aggregatePage, q)
    BY DEF AggregateData
  <2>4. AggregateData \in Table /\ TableListed(AggregateData, q)
    BY <2>1, <2>2, <2>3, AggregatedTyped, AggregatedListed
  <2>5. page.hasMore <=> page.cursor # None
    BY <2>4 DEF Table, Parts
  <2>6. /\ Distinct(page.rows) /\ ToSet(page.rows) \subseteq Matches[q]
        /\ page.reading # None =>
               Lists(page.rows, page.cursor, page.reading \cap Matches[q])
    BY <2>4 DEF TableListed, Due
  <2> HIDE DEF page, q
  <2>7. /\ Distinct(page.rows) /\ ToSet(page.rows) \subseteq Matches[q]
        /\ page.reading # None =>
               /\ IsPrefix(page.rows, Sorted(page.reading \cap Matches[q]))
               /\ page.hasMore <=>
                      Len(page.rows) < Len(Sorted(page.reading \cap Matches[q]))
    BY <2>5, <2>6, ListsPrefix
  <2> QED BY <2>7 DEF page, q
<1>2. Init => TypeInv /\ TableInv
  BY TypeInit, TableInit
<1>3. TypeInv /\ TableInv /\ [Next]_vars => (TypeInv /\ TableInv)'
  BY TypeStep, TableStep
<1> QED BY <1>1, <1>2, <1>3, PTL DEF Spec

-----------------------------------------------------------------------------
(* The cards *)

DueOf(p, q, c) == {r \in p.reading \cap Matches[q] : CardOf[r] = c}

\* What a card's cursor leaves to come of D.
CardRest(D, after) == {r \in D : Before(after, r) /\ (Dated(after) => Dated(r))}

GroupListed(g) ==
    \A c \in Cards : g.groups[c].reading # None =>
        Lists(g.groups[c].rows, g.groups[c].cursor, DueOf(g.groups[c], g.query, c))
GroupsListed(groups) == \A q \in Queries : groups[q] # None => GroupListed(groups[q])

\* A card's page asked for from a cursor on.
CardPageListed(p, q, c, after) ==
    /\ after \in Rows
    /\ p.reading # None => Lists(p.rows, p.cursor, CardRest(DueOf(p, q, c), after))

CardPagesListed(extras, s) ==
    \A c \in Cards : extras[c] # None =>
        /\ extras[c].query = s.query /\ extras[c].gen = s.gen
        /\ CardPageListed(extras[c].part, extras[c].query, c, extras[c].after)

CardLoadListed(l, extra) ==
    /\ CardPageListed(l.page, l.query, l.card, Start(l, extra))
    /\ extra # None => l.after = extra.after

\* While cards are continued one at a time, there is one load at most, and the page
\* follows it.
CardLoadsListed(ls, extras, s) ==
    /\ \A l \in ls : l.live /\ l.card \in Cards /\ l.gen <= s.gen
    /\ \A l, k \in ls : l = k
    /\ \A l \in ls :
          l.gen = s.gen /\ l.query = s.query => CardLoadListed(l, extras[l.card])

CardsInv ==
    /\ GroupsListed(search)
    /\ GroupsListed(store.cards)
    /\ GroupsListed(flights["cards"])
    /\ CardPagesListed(pageState, scope)
    /\ CardLoadsListed(cardLoads, pageState, scope)

LEMMA CardPagesFound ==
    ASSUME NEW q \in Queries, cached \subseteq Rows
    PROVE  /\ GroupedResult(q) # None => GroupListed(GroupedResult(q))
           /\ \A c \in Cards, after \in Rows :
                  CardPageListed(CardPage(c, q, after), q, c, after)
<1>1. Matches[q] \in SUBSET Rows /\ None \notin Rows /\ PerCard \in Nat \ {0}
  BY ReadableRows
<1>2. ASSUME NEW c \in Cards
      PROVE  Lists(CardPage(c, q, None).rows, CardPage(c, q, None).cursor,
                   DueOf(CardPage(c, q, None), q, c))
  <2> DEFINE S == CardMatches(c, q) \cap Rows
             p == CardPage(c, q, None)
  <2>1. S \in SUBSET Rows /\ S = {r \in cached \cap Matches[q] : CardOf[r] = c}
    BY <1>1 DEF CardMatches
  <2>2. p = Page(S, PerCard)
    BY DEF CardPage
  <2> HIDE DEF S
  <2>3. Lists(p.rows, p.cursor, S) /\ p.reading = cached
    BY <1>1, <2>1, <2>2, PageLists
  <2> HIDE DEF p
  <2>4. Lists(p.rows, p.cursor, DueOf(p, q, c))
    BY <2>1, <2>3 DEF DueOf
  <2> QED BY <2>4 DEF p
<1>3. GroupListed(GroupedResult(q))
  <2>1. /\ GroupedResult(q).query = q
        /\ \A c \in Cards : GroupedResult(q).groups[c] = CardPage(c, q, None)
    BY DEF GroupedResult
  <2> QED BY <1>2, <2>1 DEF GroupListed
<1>4. ASSUME NEW c \in Cards, NEW after \in Rows
      PROVE  CardPageListed(CardPage(c, q, after), q, c, after)
  <2> DEFINE S == CardMatches(c, q) \cap CardAfter(after)
             p == CardPage(c, q, after)
  <2>1. /\ S \in SUBSET Rows
        /\ S = CardRest({r \in cached \cap Matches[q] : CardOf[r] = c}, after)
    BY <1>1 DEF CardMatches, CardAfter, CardRest
  <2>2. p = Page(S, PerCard)
    BY <1>1, <1>4 DEF CardPage
  <2> HIDE DEF S
  <2>3. Lists(p.rows, p.cursor, S) /\ p.reading = cached
    BY <1>1, <2>1, <2>2, PageLists
  <2> HIDE DEF p
  <2>4. CardPageListed(p, q, c, after)
    BY <1>4, <2>1, <2>3 DEF CardPageListed, DueOf
  <2> QED BY <2>4 DEF p
<1> QED BY <1>3, <1>4

LEMMA CardsAsked ==
    ASSUME NEW fl, FlightsOK(fl), NEW v \in Views, NEW q \in Queries, cached \subseteq Rows,
           GroupsListed(fl["cards"])
    PROVE  /\ GroupsListed(Asked(fl, v, q)["cards"])
           /\ \A up : GroupsListed(AskedIf(up, fl, v, q)["cards"])
<1>1. GroupsListed(Asked(fl, v, q)["cards"])
  <2>1. CASE fl[v][q] # None \/ v = "transactions"
    BY <2>1 DEF Asked, FlightsOK, Views
  <2>2. CASE fl[v][q] = None /\ v = "cards"
    <3> DEFINE x == GroupedResult(q)
    <3>1. x # None => GroupListed(x)
      BY CardPagesFound
    <3>2. Asked(fl, v, q) = [fl EXCEPT !["cards"][q] = x]
      BY <2>2 DEF Asked, FirstPage
    <3> HIDE DEF x
    <3>3. Asked(fl, v, q)["cards"] = [fl["cards"] EXCEPT ![q] = x]
      BY <3>2 DEF FlightsOK, Views
    <3> QED BY <3>1, <3>3 DEF GroupsListed, FlightsOK
  <2> QED BY <2>1, <2>2 DEF Views
<1> QED BY <1>1 DEF AskedIf

LEMMA CardsHydrated ==
    ASSUME NEW data \in [Queries -> Grouped \cup {None}], NEW kept, NEW q \in Queries,
           GroupsListed(data), GroupsListed(kept)
    PROVE  GroupsListed(Hydrated(data, kept, q))
  BY DEF Hydrated, GroupsListed

\* The snapshot is a whole result, the previous query's perhaps.
LEMMA CardsRendered ==
    ASSUME TypeInv, TypeInv', Rendered,
           GroupsListed(store.cards), GroupsListed(search')
    PROVE  GroupsListed(store'.cards)
<1> DEFINE q == scope'.query
           g == Shown(q, search', previous)
           old == store.cards
<1>1. /\ q \in Queries /\ previous \in Queries \cup {None}
      /\ old \in [Queries -> Grouped \cup {None}]
  BY DEF TypeInv, TypeOK, Scope
<1>2. store'.cards = Snapshot(old, q, g)
  BY DEF Rendered, Persisted
<1>3. g # None => GroupListed(g)
  BY <1>1 DEF Shown, GroupsListed
<1> HIDE DEF g, q
<1>4. GroupsListed(Snapshot(old, q, g))
  BY <1>1, <1>3 DEF Snapshot, GroupsListed
<1> QED BY <1>2, <1>4

\* A card's cursor leaves the same rows to come of the list and of what an earlier
\* cursor left.
LEMMA RestOfRest ==
    ASSUME NEW D \in SUBSET Rows, NEW a \in Rows, NEW y \in CardRest(D, a)
    PROVE  CardRest(D, y) = {r \in CardRest(D, a) : Before(y, r)}
<1>1. \A r \in Rows : DateOf[r] \in Nat
  BY ContentAssumption
<1>2. y \in Rows /\ Before(a, y) /\ (Dated(a) => Dated(y))
  BY DEF CardRest
<1>3. ~Dated(a) => ~Dated(y)
  BY <1>1, <1>2 DEF Before, Dated
<1>4. ASSUME NEW r \in D
      PROVE  Before(y, r) /\ (Dated(y) => Dated(r))
                 <=> Before(a, r) /\ (Dated(a) => Dated(r)) /\ Before(y, r)
  BY <1>2, <1>3, BeforeIsOrder
<1> QED BY <1>4 DEF CardRest

\* A card's first page and the pages after it show the first of its rows; of its
\* dated rows only once a dated cursor was followed.
CardLists(rows, cursor, D) ==
    Lists(rows, cursor, D) \/ Lists(rows, cursor, {r \in D : Dated(r)})

LEMMA CardContinues ==
    ASSUME NEW D, NEW rows, NEW c, c # None, Lists(rows, c, D),
           NEW next, NEW d, Lists(next, d, CardRest(D, c))
    PROVE  CardLists(rows \o next, d, D)
<1>1. D \in SUBSET Rows /\ c \in D /\ rows = Sorted(Upto(D, c))
  BY DEF Lists
<1>2. CASE Dated(c)
  <2> DEFINE E == {r \in D : Dated(r)}
  <2>1. \A r \in Rows : DateOf[r] \in Nat
    BY ContentAssumption
  <2>2. \A r \in D : ~Before(c, r) => Dated(r)
    BY <1>1, <1>2, <2>1 DEF Before, Dated
  <2>3. Upto(D, c) = Upto(E, c)
    BY <1>1, <2>2 DEF Upto
  <2>4. CardRest(D, c) = {r \in E : Before(c, r)}
    BY <1>2 DEF CardRest
  <2>5. E \in SUBSET Rows /\ c \in E
    BY <1>1, <1>2
  <2> HIDE DEF E
  <2>6. Lists(rows \o next, d, E)
    BY <1>1, <2>3, <2>4, <2>5, ListsAppend
  <2> QED BY <2>6 DEF CardLists, E
<1>3. CASE ~Dated(c)
  <2>1. CardRest(D, c) = {r \in D : Before(c, r)}
    BY <1>3 DEF CardRest
  <2> QED BY <2>1, ListsContinue DEF CardLists
<1> QED BY <1>2, <1>3

\* The dated rows among those shown.
LEMMA DatedInOrder ==
    ASSUME NEW D \in SUBSET Rows, NEW rows, NEW cursor, CardLists(rows, cursor, D),
           NEW dated, dated = Filtered(rows, {i \in DOMAIN rows : Dated(rows[i])}),
           NEW due, due = Sorted({r \in D : Dated(r)})
    PROVE  Distinct(rows) /\ IsPrefix(dated, due) /\ (cursor = None => dated = due)
<1> DEFINE E == {r \in D : Dated(r)}
           I == {i \in DOMAIN rows : Dated(rows[i])}
<1>1. PICK F \in {D, E} : Lists(rows, cursor, F)
  BY DEF CardLists
<1> DEFINE A == {r \in Upto(F, cursor) : Dated(r)}
<1>2. /\ rows \in Seq(Rows) /\ InOrder(rows) /\ Distinct(rows)
      /\ ToSet(rows) = Upto(F, cursor)
  BY <1>1, ListsPrefix
<1>3. {rows[i] : i \in I} = A
  BY <1>2 DEF ToSet
<1>4. I \in SUBSET DOMAIN rows
  OBVIOUS
<1>5. dated = Filtered(rows, I)
  OBVIOUS
<1> HIDE DEF I
<1>6. dated = Sorted(A)
  BY <1>2, <1>3, <1>4, <1>5, FilteredSorted
<1>7. E \in SUBSET Rows /\ A \in SUBSET E /\ due = Sorted(E)
  BY DEF Upto
<1>8. ASSUME NEW a \in A, NEW b \in E \ A PROVE Before(a, b)
  <2>1. cursor # None /\ cursor \in Rows /\ ~Before(cursor, a) /\ Before(cursor, b)
        /\ a \in Rows /\ b \in Rows
    BY <1>1, <1>7 DEF Upto, Lists
  <2> QED BY <2>1, BeforeIsOrder
<1>9. cursor = None => A = E
  BY DEF Upto
<1> HIDE DEF A, E
<1> QED BY <1>2, <1>6, <1>7, <1>8, <1>9, SortedPrefix

LEMMA CardsInit == TypeInv /\ Init => CardsInv
<1> SUFFICES ASSUME TypeInv, Init PROVE CardsInv
  OBVIOUS
<1>1. cached \subseteq Rows /\ scope.query \in Queries
  BY DEF TypeInv, TypeOK, Scope
<1>2. GroupsListed(NoFlights["cards"])
  BY DEF GroupsListed, NoFlights, Views
<1>3. GroupsListed(flights["cards"])
  BY <1>1, <1>2, NoFlightsTyped, CardsAsked DEF Init, Views
<1>4. store.cards = Nothing /\ search = Nothing
  BY DEF Init, Views
<1>5. GroupsListed(Nothing)
  BY DEF GroupsListed, Nothing
<1>6. CardPagesListed(pageState, scope) /\ CardLoadsListed(cardLoads, pageState, scope)
  BY DEF Init, NoPages, CardPagesListed, CardLoadsListed
<1> QED BY <1>3, <1>4, <1>5, <1>6 DEF CardsInv

\* A new list has no pages after the first, and no load continues it.
LEMMA NewListCards ==
    ASSUME TypeInv, CardsInv, NEW v, NEW q, NewScope(v, q), Cleared
    PROVE  /\ CardPagesListed(pageState', scope')
           /\ CardLoadsListed(cardLoads, pageState', scope')
           /\ CardLoadsListed({}, pageState', scope')
<1>1. scope'.gen = scope.gen + 1 /\ \A c \in Cards : pageState'[c] = None
  BY DEF NewScope, Cleared, NoPages
<1>2. scope.gen \in Nat /\ \A l \in cardLoads : l.gen \in Nat /\ l.gen <= scope.gen
  BY DEF TypeInv, TypeOK, Load, Scope, CardsInv, CardLoadsListed
<1>3. \A l \in cardLoads : l.gen <= scope'.gen /\ l.gen # scope'.gen
  BY <1>1, <1>2
<1> QED BY <1>1, <1>3 DEF CardPagesListed, CardLoadsListed, CardsInv

LEMMA NavigateCards ==
    ASSUME TypeInv, TypeInv', CardsInv, NEW v \in Views, NEW q \in Queries, Navigate(v, q)
    PROVE  CardsInv'
<1>1. /\ cached \subseteq Rows /\ FlightsOK(flights)
      /\ search \in [Queries -> Grouped \cup {None}]
  BY DEF TypeInv, TypeOK
<1>2. GroupsListed(search')
  BY <1>1, CardsHydrated DEF Navigate, CardsInv
<1>3. GroupsListed(store'.cards)
  BY <1>2, CardsRendered DEF Navigate, CardsInv
<1>4. GroupsListed(flights'["cards"])
  BY <1>1, CardsAsked DEF Navigate, CardsInv
<1>5. /\ CardPagesListed(pageState', scope')
      /\ CardLoadsListed(cardLoads', pageState', scope')
  BY NewListCards DEF Navigate
<1> QED BY <1>2, <1>3, <1>4, <1>5 DEF CardsInv

LEMMA RefreshEndsCards ==
    ASSUME TypeInv, TypeInv', CardsInv, RefreshEnds
    PROVE  CardsInv'
<1> USE DEF loads, server
<1>1. /\ cached \subseteq Rows /\ FlightsOK(flights)
      /\ scope.view \in Views /\ scope.query \in Queries
  BY DEF TypeInv, TypeOK, Scope
<1>2. GroupsListed(search')
  BY DEF RefreshEnds, CardsInv
<1>3. GroupsListed(store'.cards)
  BY <1>2, CardsRendered DEF RefreshEnds, CardsInv
<1>4. GroupsListed(flights'["cards"])
  <2> DEFINE v == scope.view
             q == scope.query
             data == IF v = "cards" THEN search[q] ELSE all[q]
             dropped == IF data = None THEN flights ELSE [flights EXCEPT ![v][q] = None]
  <2>1. GroupsListed(flights["cards"])
    BY DEF CardsInv
  <2>2. /\ FlightsOK([flights EXCEPT ![v][q] = None])
        /\ GroupsListed([flights EXCEPT ![v][q] = None]["cards"])
    BY <1>1, <2>1 DEF FlightsOK, Views, GroupsListed
  <2>3. FlightsOK(dropped) /\ GroupsListed(dropped["cards"])
    BY <1>1, <2>1, <2>2
  <2>4. flights' = IF online THEN Asked(dropped, v, q) ELSE flights
    BY DEF RefreshEnds
  <2> HIDE DEF dropped
  <2> QED BY <1>1, <2>1, <2>3, <2>4, CardsAsked
<1>5. /\ CardPagesListed(pageState', scope')
      /\ CardLoadsListed(cardLoads', pageState', scope')
  BY NewListCards DEF RefreshEnds
<1> QED BY <1>2, <1>3, <1>4, <1>5 DEF CardsInv

LEMMA ReloadCards ==
    ASSUME TypeInv, TypeInv', CardsInv, Reload
    PROVE  CardsInv'
<1> USE DEF server
<1>1. /\ cached \subseteq Rows /\ scope.view \in Views /\ scope.query \in Queries
  BY DEF TypeInv, TypeOK, Scope
<1>2. GroupsListed(Nothing) /\ Nothing \in [Queries -> Grouped \cup {None}]
  BY DEF Nothing, GroupsListed
<1>3. GroupsListed(search')
  BY <1>1, <1>2, CardsHydrated DEF Reload, CardsInv
<1>4. GroupsListed(store'.cards)
  BY DEF Reload, CardsInv
<1>5. GroupsListed(NoFlights["cards"])
  BY DEF GroupsListed, NoFlights, Views
<1>6. GroupsListed(flights'["cards"])
  BY <1>1, <1>5, NoFlightsTyped, CardsAsked DEF Reload
<1>7. /\ CardPagesListed(pageState', scope')
      /\ CardLoadsListed(cardLoads', pageState', scope')
  BY NewListCards DEF Reload
<1> QED BY <1>3, <1>4, <1>6, <1>7 DEF CardsInv

LEMMA ArriveCards ==
    ASSUME TypeInv, TypeInv', CardsInv, NEW v \in Views, NEW q \in Queries, Arrive(v, q)
    PROVE  CardsInv'
<1> USE DEF server, loads, pages
<1>1. FlightsOK(flights) /\ GroupsListed(flights["cards"])
      /\ search \in [Queries -> Grouped \cup {None}]
  BY DEF TypeInv, TypeOK, CardsInv
<1>2. GroupsListed(search')
  <2>1. CASE search' = search
    BY <2>1 DEF CardsInv
  <2>2. CASE search' = [search EXCEPT ![q] = flights["cards"][q]]
    BY <1>1, <2>2 DEF CardsInv, GroupsListed
  <2> QED BY <2>1, <2>2 DEF Arrive
<1>3. UNCHANGED <<pageState, cardLoads, scope>>
  BY DEF Arrive
<1>4. GroupsListed(store'.cards)
  BY <1>2, CardsRendered DEF Arrive, CardsInv
<1>5. GroupsListed(flights'["cards"])
  <2>1. flights' = [flights EXCEPT ![v][q] = None]
    BY DEF Arrive
  <2> QED BY <1>1, <2>1 DEF FlightsOK, Views, GroupsListed
<1> QED BY <1>2, <1>3, <1>4, <1>5 DEF CardsInv

LEMMA RerenderCards ==
    ASSUME TypeInv, TypeInv', CardsInv, Rerender
    PROVE  CardsInv'
<1> USE DEF server, loads, pages
<1>1. search \in [Queries -> Grouped \cup {None}] /\ scope.query \in Queries
  BY DEF TypeInv, TypeOK, Scope
<1>2. GroupsListed(search')
  BY <1>1, CardsHydrated DEF Rerender, CardsInv
<1>3. UNCHANGED <<pageState, cardLoads, scope, flights>>
  BY DEF Rerender
<1>4. GroupsListed(store'.cards)
  BY <1>2, CardsRendered DEF Rerender, CardsInv
<1> QED BY <1>2, <1>3, <1>4 DEF CardsInv

LEMMA LoadMoreOfCardListed ==
    ASSUME ~Overlap, TypeInv, CardsInv, NEW c \in Cards, LoadMoreOfCard(c)
    PROVE  CardsInv'
<1> USE DEF server, results, pages
<1>1. /\ scope \in Scope /\ scope.query \in Queries /\ cached \subseteq Rows
      /\ pageState[c] \in Extra \cup {None}
  BY DEF TypeInv, TypeOK, Scope
<1> DEFINE cursor == CardGroup(c).cursor
           page == CardPage(c, scope.query, cursor)
           after == Begins(pageState[c], cursor)
           new == NewLoad(c, page, after)
<1>2. /\ cardLoads' = {new}
      /\ UNCHANGED <<scope, search, store, flights, pageState>>
  BY DEF LoadMoreOfCard, Detached
<1>3. cursor \in Rows
  <2>1. CardGroup(c) \in Parts /\ CardGroup(c).hasMore
    BY CardGroupTyped DEF LoadMoreOfCard
  <2> QED BY <2>1 DEF Parts
<1>4. CardPageListed(page, scope.query, c, cursor)
  BY <1>1, <1>3, CardPagesFound
<1>5. pageState[c] # None => cursor = pageState[c].part.cursor
  BY DEF CardGroup
<1>6. /\ new.page = page /\ new.query = scope.query /\ new.after = after
      /\ new.live = TRUE /\ new.gen = scope.gen /\ new.card = c
  BY DEF NewLoad
<1> HIDE DEF cursor, page, new
<1>7. after = IF pageState[c] = None THEN cursor ELSE pageState[c].after
  BY DEF Begins
<1> HIDE DEF after
<1>8. CardLoadListed(new, pageState[c])
  <2>1. Start(new, pageState[c]) = cursor
    BY <1>5, <1>6, <1>7 DEF Start
  <2> QED BY <1>4, <1>6, <1>7, <2>1 DEF CardLoadListed
<1>9. CardLoadsListed({new}, pageState, scope)
  <2>1. new.gen <= scope.gen
    BY <1>1, <1>6 DEF Scope
  <2> QED BY <1>6, <1>8, <2>1 DEF CardLoadsListed
<1> QED BY <1>2, <1>9 DEF CardsInv

\* onSuccess of loadMoreMutation keeps the pages after a card's first in order.
LEMMA MergedCard ==
    ASSUME NEW extra \in Extra \cup {None}, NEW l \in Load, NEW c, c = l.card,
           extra # None => CardPageListed(extra.part, l.query, c, extra.after),
           CardLoadListed(l, extra),
           NEW new, new = Merged(extra, l, RowsOf(extra) \o l.page.rows, l.page.reading)
    PROVE  /\ new.query = l.query /\ new.gen = l.gen
           /\ CardPageListed(new.part, l.query, c, new.after)
<1> DEFINE q == l.query
           d == l.page.cursor
           rows == RowsOf(extra) \o l.page.rows
           after == IF extra = None THEN l.after ELSE extra.after
           one == IF extra = None \/ extra.part.reading = l.page.reading
                    THEN l.page.reading ELSE None
           D == {r \in one \cap Matches[q] : CardOf[r] = c}
<1>1. q \in Queries /\ l.page.rows \in Seq(Rows) /\ Matches[q] \in SUBSET Rows /\ None \notin Rows
  BY ReadableRows DEF Load, Parts
<1>2. /\ new.query = l.query /\ new.gen = l.gen /\ new.after = after
      /\ new.part.rows = rows /\ new.part.cursor = d /\ new.part.reading = one
  BY DEF Merged
<1>3. after \in Rows
  BY DEF CardLoadListed, CardPageListed, Start
<1>4. ASSUME one # None PROVE Lists(rows, d, CardRest(D, after))
  <2>1. l.page.reading = one /\ (extra # None => extra.part.reading = one)
    BY <1>4
  <2>2. DueOf(l.page, q, c) = D /\ (extra # None => DueOf(extra.part, q, c) = D)
    BY <2>1 DEF DueOf
  <2>3. CASE extra = None
    <3>1. rows = l.page.rows
      BY <1>1, <2>3 DEF RowsOf
    <3>2. Lists(l.page.rows, d, CardRest(D, after))
      BY <1>4, <2>1, <2>2, <2>3 DEF CardLoadListed, CardPageListed, Start
    <3> QED BY <3>1, <3>2
  <2>4. CASE extra # None
    <3> DEFINE y == extra.part.cursor
    <3>1. /\ y \in Rows
          /\ Lists(extra.part.rows, y, CardRest(D, after))
          /\ Lists(l.page.rows, d, CardRest(D, y))
      BY <1>4, <2>1, <2>2, <2>4 DEF CardLoadListed, CardPageListed, Start
    <3>2. y \in CardRest(D, after) /\ D \in SUBSET Rows /\ y # None
      BY <1>1, <3>1 DEF Lists
    <3>3. rows = extra.part.rows \o l.page.rows
      BY <2>4 DEF RowsOf
    <3> HIDE DEF D, y, after, rows
    <3>4. CardRest(D, y) = {r \in CardRest(D, after) : Before(y, r)}
      BY <1>3, <3>2, RestOfRest
    <3> QED BY <3>1, <3>2, <3>3, <3>4, ListsContinue
  <2> QED BY <2>3, <2>4
<1> HIDE DEF after, one, rows, q, d
<1>5. ASSUME new.part.reading # None
      PROVE  Lists(new.part.rows, new.part.cursor,
                   CardRest(DueOf(new.part, q, c), new.after))
  BY <1>2, <1>4, <1>5 DEF DueOf
<1>6. CardPageListed(new.part, q, c, new.after)
  BY <1>2, <1>3, <1>5 DEF CardPageListed
<1> QED BY <1>2, <1>6 DEF q

LEMMA CardPageArrivesListed ==
    ASSUME TypeInv, CardsInv, NEW l \in cardLoads, CardPageArrives(l)
    PROVE  CardsInv'
<1> USE DEF server, results
<1>1. /\ l \in Load /\ l.card \in Cards /\ l.live
      /\ pageState \in [Cards -> Extra \cup {None}]
      /\ CardLoadsListed(cardLoads, pageState, scope)
  BY DEF TypeInv, TypeOK, CardsInv, CardLoadsListed
<1>2. cardLoads' = {} /\ UNCHANGED <<scope, search, flights, store>>
  BY <1>1 DEF CardPageArrives, CardLoadsListed
<1>3. CardLoadsListed({}, pageState', scope)
  BY DEF CardLoadsListed
<1>4. CardPagesListed(pageState', scope)
  <2> DEFINE extra == pageState[l.card]
             new == Merged(extra, l, RowsOf(extra) \o l.page.rows, l.page.reading)
  <2>1. CASE UNCHANGED pageState
    BY <2>1 DEF CardsInv
  <2>2. CASE Accepts(l, "cards") /\ pageState' = [pageState EXCEPT ![l.card] = new]
    <3>1. l.query = scope.query /\ l.gen = scope.gen
      BY <1>1, <2>2 DEF Accepts, Sees
    <3>2. CardLoadListed(l, extra)
      BY <1>1, <3>1 DEF CardLoadsListed
    <3>3. extra # None => CardPageListed(extra.part, l.query, l.card, extra.after)
      BY <1>1, <3>1 DEF CardsInv, CardPagesListed
    <3>4. extra \in Extra \cup {None}
      BY <1>1
    <3> HIDE DEF extra
    <3>5. /\ new.query = l.query /\ new.gen = l.gen
          /\ CardPageListed(new.part, l.query, l.card, new.after)
      BY <1>1, <3>2, <3>3, <3>4, MergedCard
    <3> HIDE DEF new
    <3>6. \A c \in Cards : pageState'[c] = IF c = l.card THEN new ELSE pageState[c]
      BY <1>1, <2>2
    <3> QED BY <3>1, <3>5, <3>6 DEF CardsInv, CardPagesListed
  <2> QED BY <2>1, <2>2 DEF CardPageArrives
<1> QED BY <1>2, <1>3, <1>4 DEF CardsInv

LEMMA CardsStep ==
    ASSUME ~Overlap
    PROVE  TypeInv /\ TypeInv' /\ CardsInv /\ [Next]_vars => CardsInv'
<1> SUFFICES ASSUME TypeInv, TypeInv', CardsInv, [Next]_vars PROVE CardsInv'
  OBVIOUS
<1> USE DEF server, results, pages, loads
<1>1. ASSUME UNCHANGED <<scope, search, flights, pageState, cardLoads, store>>
      PROVE  CardsInv'
  BY <1>1 DEF CardsInv
<1>2. CASE Focus \/ ChangeNetwork
  <2>1. /\ scope.view \in Views /\ scope.query \in Queries /\ cached \subseteq Rows
        /\ FlightsOK(flights)
    BY DEF TypeInv, TypeOK, Scope
  <2>2. GroupsListed(flights'["cards"])
    BY <1>2, <2>1, CardsAsked DEF Focus, ChangeNetwork, CardsInv
  <2> QED BY <1>2, <2>2 DEF Focus, ChangeNetwork, CardsInv
<1>3. ASSUME NEW r \in Rows, Sync(r) PROVE CardsInv'
  BY <1>1, <1>3 DEF Sync
<1>4. CASE LoadMoreOfTable
  BY <1>1, <1>4 DEF LoadMoreOfTable
<1>5. ASSUME NEW l \in tableLoads, TablePageArrives(l) PROVE CardsInv'
  <2>1. /\ UNCHANGED <<scope, search, flights, pageState, cardLoads>>
        /\ Rendered
    BY <1>5 DEF TablePageArrives
  <2>2. GroupsListed(store'.cards)
    BY <2>1, CardsRendered DEF CardsInv
  <2> QED BY <2>1, <2>2 DEF CardsInv
<1>6. CASE UNCHANGED vars
  BY <1>1, <1>6 DEF vars
<1> QED
  BY <1>2, <1>3, <1>4, <1>5, <1>6, RefreshEndsCards, NavigateCards, ArriveCards,
     RerenderCards, ReloadCards, LoadMoreOfCardListed, CardPageArrivesListed DEF Next

\* While "Load more" is pressed on one card at a time, a card whose pages are of one
\* reading shows no row twice and its dated transactions in order, and all of them
\* when it has nothing more to load (search, card_transactions, _page and
\* loadMoreMutation).
THEOREM CardsStayInOrder == ASSUME ~Overlap PROVE Spec => []CardsInOrder
<1>1. TypeInv /\ CardsInv => CardsInOrder
  <2> SUFFICES ASSUME TypeInv, CardsInv, ShownGroups # None,
                      ShownGroups.query = scope.query, NEW c \in Cards,
                      CardGroup(c).reading # None
               PROVE  LET page == CardGroup(c)
                          rows == page.rows
                          dated == Filtered(rows, {i \in DOMAIN rows : Dated(rows[i])})
                          due == Sorted({r \in page.reading \cap Matches[scope.query] :
                                            CardOf[r] = c /\ Dated(r)})
                      IN  /\ Distinct(rows)
                          /\ IsPrefix(dated, due)
                          /\ ~page.hasMore => dated = due
    BY DEF CardsInOrder
  <2> DEFINE q == scope.query
             page == CardGroup(c)
             first == ShownGroups.groups[c]
             extra == pageState[c]
             D == {r \in page.reading \cap Matches[q] : CardOf[r] = c}
  <2>1. q \in Queries /\ Matches[q] \in SUBSET Rows /\ None \notin Rows
    BY ReadableRows DEF TypeInv, TypeOK, Scope
  <2>2. GroupListed(ShownGroups)
    <3>1. previous \in Queries \cup {None}
      BY DEF TypeInv, TypeOK
    <3> QED BY <2>1, <3>1 DEF CardsInv, GroupsListed, ShownGroups, Shown
  <2>3. first.reading # None => Lists(first.rows, first.cursor, DueOf(first, q, c))
    BY <2>2 DEF GroupListed
  <2>4. page.hasMore <=> page.cursor # None
    BY CardGroupTyped DEF Parts
  <2>5. CardLists(page.rows, page.cursor, D)
    <3>1. CASE extra = None
      <4>1. page = first
        BY <3>1 DEF CardGroup
      <4> HIDE DEF page, first
      <4> QED BY <2>3, <4>1 DEF CardLists, DueOf, page
    <3>2. CASE extra # None
      <4>1. /\ page.rows = first.rows \o extra.part.rows
            /\ page.cursor = extra.part.cursor
            /\ page.reading = Joined(first, extra.after, extra.part)
        BY <3>2 DEF CardGroup
      <4>2. /\ extra.after \in Rows
            /\ extra.part.reading # None =>
                   Lists(extra.part.rows, extra.part.cursor,
                         CardRest(DueOf(extra.part, q, c), extra.after))
        BY <3>2 DEF CardsInv, CardPagesListed, CardPageListed
      <4>3. /\ extra.after = first.cursor /\ extra.after # None
            /\ first.reading = page.reading /\ extra.part.reading = page.reading
            /\ page.reading # None
        BY <2>1, <4>1, <4>2 DEF Joined
      <4>4. DueOf(first, q, c) = D /\ DueOf(extra.part, q, c) = D
        BY <4>3 DEF DueOf
      <4> HIDE DEF page, first, extra, D
      <4> QED BY <2>3, <4>1, <4>2, <4>3, <4>4, CardContinues
    <3> QED BY <3>1, <3>2
  <2>6. D \in SUBSET Rows
    BY <2>1
  <2>7. {r \in page.reading \cap Matches[q] : CardOf[r] = c /\ Dated(r)}
            = {r \in D : Dated(r)}
    OBVIOUS
  <2> HIDE DEF page, D, q
  <2>8. LET rows == page.rows
            dated == Filtered(rows, {i \in DOMAIN rows : Dated(rows[i])})
            due == Sorted({r \in D : Dated(r)})
        IN  Distinct(rows) /\ IsPrefix(dated, due) /\ (page.cursor = None => dated = due)
    BY <2>5, <2>6, DatedInOrder
  <2> QED BY <2>4, <2>7, <2>8 DEF page, q
<1>2. Init => TypeInv /\ CardsInv
  BY TypeInit, CardsInit
<1>3. TypeInv /\ CardsInv /\ [Next]_vars => (TypeInv /\ CardsInv)'
  BY TypeStep, CardsStep
<1> QED BY <1>1, <1>2, <1>3, PTL DEF Spec

\* While "Load more" is pressed on one card at a time, no page of an earlier list
\* is appended to the one that is shown, for any number of lists, of continuations
\* under way and of changes of the cache (DashboardPage's onSuccess handlers).
THEOREM NoPageCrossesLists == ASSUME ~Overlap PROVE Spec => []NoLatePage
<1>1. TableInv /\ CardsInv => NoLatePage
  BY DEF TableInv, ExtraListed, CardsInv, CardPagesListed, NoLatePage
<1>2. Init => TypeInv /\ TableInv /\ CardsInv
  BY TypeInit, TableInit, CardsInit
<1>3. TypeInv /\ TableInv /\ CardsInv /\ [Next]_vars => (TypeInv /\ TableInv /\ CardsInv)'
  BY TypeStep, TableStep, CardsStep
<1> QED BY <1>1, <1>2, <1>3, PTL DEF Spec
=============================================================================
