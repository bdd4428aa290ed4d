-------------------------- MODULE DefinitionsProofs --------------------------
(***************************************************************************)
(* Proofs about Definitions, for any rules, aggregates, cards and banks    *)
(* and any requests: a limit stays what the owner asked for, an alert is   *)
(* what the limit by itself calls for, and the totals agree.               *)
(*                                                                         *)
(* Inductions are over sets of numbers and of subsets: a set that has 0,   *)
(* and with each number the next, has them all.                            *)
(***************************************************************************)
EXTENDS Definitions, FiniteSetTheorems, SequenceTheorems, WellFoundedInduction, TLAPS

-----------------------------------------------------------------------------
(* Induction *)

\* A set that has 0, and with each number the next, has every number.
LEMMA EveryNumber ==
    ASSUME NEW S, 0 \in S, \A n \in Nat : n \in S => n + 1 \in S
    PROVE  \A n \in Nat : n \in S
<1> SUFFICES ASSUME Nat \ S # {} PROVE FALSE
  OBVIOUS
<1> DEFINE R == OpToRel(<, Nat)
           T == Nat \ S
<1>1. IsWellFoundedOn(R, Nat)
  BY NatLessThanWellFounded
<1>2. T \subseteq Nat /\ T # {}
  OBVIOUS
<1>3. PICK x \in T : \A y \in T : ~(<<y, x>> \in R)
  <2> HIDE DEF R, T
  <2> QED BY <1>1, <1>2, WFMin
<1>4. x # 0 /\ x - 1 \in Nat /\ x - 1 < x /\ x - 1 + 1 = x
  OBVIOUS
<1>5. <<x - 1, x>> \in R
  BY <1>4 DEF OpToRel
<1> QED BY <1>3, <1>4, <1>5

\* A set of numbers has a least one, and if it is bounded a greatest one.
LEMMA LeastNumber ==
    ASSUME NEW I, I \subseteq Nat, I # {}
    PROVE  Min(I) \in I /\ \A i \in I : Min(I) <= i
<1> DEFINE R == OpToRel(<, Nat)
<1>1. IsWellFoundedOn(R, Nat)
  BY NatLessThanWellFounded
<1>2. PICK x \in I : \A y \in I : ~(<<y, x>> \in R)
  <2> HIDE DEF R
  <2> QED BY <1>1, WFMin
<1>3. \A y \in I : x <= y
  <2> TAKE y \in I
  <2>1. x \in Nat /\ y \in Nat /\ (y < x => <<y, x>> \in R)
    BY DEF OpToRel
  <2> HIDE DEF R
  <2> QED BY <1>2, <2>1
<1> QED BY <1>3 DEF Min

LEMMA GreatestNumber ==
    ASSUME NEW n \in Nat, NEW I, I \subseteq 0 .. n, I # {}
    PROVE  Max(I) \in I /\ \A i \in I : i <= Max(I)
<1> DEFINE J == {n - i : i \in I}
<1>1. J \subseteq Nat /\ J # {}
  <2>1. \A i \in I : i \in 0 .. n /\ n - i \in Nat
    OBVIOUS
  <2>2. PICK i \in I : TRUE
    OBVIOUS
  <2>3. n - i \in J
    OBVIOUS
  <2>4. \A j \in J : \E k \in I : j = n - k
    OBVIOUS
  <2> HIDE DEF J
  <2> QED BY <2>1, <2>3, <2>4
<1>2. Min(J) \in J /\ \A j \in J : Min(J) <= j
  <2> HIDE DEF J
  <2> QED BY <1>1, LeastNumber
<1>3. PICK x \in I : \A i \in I : n - x <= n - i
  BY <1>2
<1>4. \A i \in I : x >= i
  BY <1>3
<1> QED BY <1>4 DEF Max

-----------------------------------------------------------------------------
(* Folds *)

\* g folds the subsets of D: c chooses the element that H takes next.
FoldsSome(g, P, c, base, H) ==
    \A s \in P : g[s] = IF s = {} THEN base ELSE H[<<s, g[s \ {c[s]}]>>]

\* Such a fold exists.
LEMMA FoldExists ==
    ASSUME NEW D, IsFiniteSet(D),
           NEW c, \A s \in SUBSET D : s # {} => c[s] \in s,
           NEW V, NEW base \in V, NEW H \in [(SUBSET D) \X V -> V]
    PROVE  \E g \in [SUBSET D -> V] : FoldsSome(g, SUBSET D, c, base, H)
<1> DEFINE Small(n) == {s \in SUBSET D : Cardinality(s) <= n}
           Good == {n \in Nat : \E g \in [Small(n) -> V] : FoldsSome(g, Small(n), c, base, H)}
<1>1. ASSUME NEW s \in SUBSET D
      PROVE  /\ IsFiniteSet(s) /\ Cardinality(s) \in Nat
             /\ s # {} => /\ s \ {c[s]} \in SUBSET D
                          /\ Cardinality(s \ {c[s]}) = Cardinality(s) - 1
             /\ Cardinality(s) = 0 <=> s = {}
  <2>1. IsFiniteSet(s) /\ Cardinality(s) \in Nat
    BY FS_Subset, FS_CardinalityType
  <2>2. Cardinality(s) = 0 <=> s = {}
    BY <2>1, FS_EmptySet
  <2>3. ASSUME s # {} PROVE Cardinality(s \ {c[s]}) = Cardinality(s) - 1
    BY <2>1, <2>3, FS_RemoveElement
  <2> QED BY <2>1, <2>2, <2>3
<1>2. 0 \in Good
  <2> DEFINE g == [s \in Small(0) |-> base]
  <2>1. \A s \in Small(0) : s = {}
    <3> TAKE s \in Small(0)
    <3>1. /\ Cardinality(s) \in Nat /\ Cardinality(s) <= 0
          /\ Cardinality(s) = 0 <=> s = {}
      BY <1>1
    <3> QED BY <3>1
  <2>2. g \in [Small(0) -> V]
    OBVIOUS
  <2>3. \A s \in Small(0) : g[s] = base
    OBVIOUS
  <2> HIDE DEF g
  <2>4. FoldsSome(g, Small(0), c, base, H)
    BY <2>1, <2>3 DEF FoldsSome
  <2> HIDE DEF Small
  <2> QED BY <2>2, <2>4
<1>3. ASSUME NEW n \in Nat, n \in Good PROVE n + 1 \in Good
  <2>1. PICK g \in [Small(n) -> V] : FoldsSome(g, Small(n), c, base, H)
    BY <1>3
  <2> DEFINE h == [s \in Small(n + 1) |->
                      IF s = {} THEN base ELSE H[<<s, g[s \ {c[s]}]>>]]
  <2>2. ASSUME NEW s \in Small(n + 1), s # {}
        PROVE  s \ {c[s]} \in Small(n)
    <3>1. /\ s \ {c[s]} \in SUBSET D
          /\ Cardinality(s) \in Nat
          /\ Cardinality(s \ {c[s]}) = Cardinality(s) - 1
      BY <1>1, <2>2
    <3> QED BY <3>1
  <2>3. h \in [Small(n + 1) -> V]
    <3> SUFFICES ASSUME NEW s \in Small(n + 1), s # {}
                 PROVE  H[<<s, g[s \ {c[s]}]>>] \in V
      OBVIOUS
    <3>1. s \in SUBSET D /\ g[s \ {c[s]}] \in V
      BY <2>2
    <3> QED BY <3>1
  <2>4. \A s \in Small(n) : s \in Small(n + 1) /\ h[s] = g[s]
    <3> TAKE s \in Small(n)
    <3>1. s \in Small(n + 1)
      <4>1. s \in SUBSET D /\ Cardinality(s) \in Nat /\ Cardinality(s) <= n
        BY <1>1
      <4> QED BY <4>1
    <3>2. g[s] = IF s = {} THEN base ELSE H[<<s, g[s \ {c[s]}]>>]
      BY <2>1 DEF FoldsSome
    <3> QED BY <3>1, <3>2
  <2>5. FoldsSome(h, Small(n + 1), c, base, H)
    <3> SUFFICES ASSUME NEW s \in Small(n + 1)
                 PROVE  h[s] = IF s = {} THEN base ELSE H[<<s, h[s \ {c[s]}]>>]
      BY DEF FoldsSome
    <3>1. h[s] = IF s = {} THEN base ELSE H[<<s, g[s \ {c[s]}]>>]
      OBVIOUS
    <3> HIDE DEF h
    <3>2. s # {} => h[s \ {c[s]}] = g[s \ {c[s]}]
      BY <2>2, <2>4
    <3> QED BY <3>1, <3>2
  <2> HIDE DEF h, Small
  <2> QED BY <2>3, <2>5
<1> HIDE DEF Good
<1>4. \A n \in Nat : n \in Good
  BY <1>2, <1>3, EveryNumber
<1>5. Cardinality(D) \in Nat /\ Small(Cardinality(D)) = SUBSET D
  <2>1. Cardinality(D) \in Nat /\ \A s \in SUBSET D : Cardinality(s) <= Cardinality(D)
    BY FS_Subset, FS_CardinalityType
  <2> QED BY <2>1
<1>6. \E g \in [Small(Cardinality(D)) -> V] :
          FoldsSome(g, Small(Cardinality(D)), c, base, H)
  BY <1>4, <1>5 DEF Good
<1> HIDE DEF Small
<1> QED BY <1>5, <1>6

-----------------------------------------------------------------------------
(* Sums *)

\* A set that has each subset of D of which it has those with a member less has
\* every subset of D.
LEMMA SubsetInduction ==
    ASSUME NEW D, IsFiniteSet(D), NEW P,
           \A s \in SUBSET D : (\A x \in s : s \ {x} \in P) => s \in P
    PROVE  \A s \in SUBSET D : s \in P
<1> DEFINE Good == {n \in Nat : \A s \in SUBSET D : Cardinality(s) <= n => s \in P}
<1>1. ASSUME NEW s \in SUBSET D
      PROVE  /\ Cardinality(s) \in Nat
             /\ Cardinality(s) = 0 <=> s = {}
             /\ \A x \in s : s \ {x} \in SUBSET D /\ Cardinality(s \ {x}) = Cardinality(s) - 1
  <2>1. IsFiniteSet(s) /\ Cardinality(s) \in Nat
    BY FS_Subset, FS_CardinalityType
  <2>2. Cardinality(s) = 0 <=> s = {}
    BY <2>1, FS_EmptySet
  <2>3. \A x \in s : Cardinality(s \ {x}) = Cardinality(s) - 1
    BY <2>1, FS_RemoveElement
  <2> QED BY <2>1, <2>2, <2>3
<1>2. 0 \in Good
  <2> SUFFICES ASSUME NEW s \in SUBSET D, Cardinality(s) <= 0 PROVE s \in P
    OBVIOUS
  <2>1. s = {}
    BY <1>1
  <2> QED BY <2>1
<1>3. ASSUME NEW n \in Nat, n \in Good PROVE n + 1 \in Good
  <2> SUFFICES ASSUME NEW s \in SUBSET D, Cardinality(s) <= n + 1 PROVE s \in P
    OBVIOUS
  <2>1. ASSUME NEW x \in s PROVE s \ {x} \in P
    <3>1. s \ {x} \in SUBSET D /\ Cardinality(s \ {x}) <= n
      BY <1>1
    <3> QED BY <1>3, <3>1
  <2> QED BY <2>1
<1> HIDE DEF Good
<1>4. \A n \in Nat : n \in Good
  BY <1>2, <1>3, EveryNumber
<1> QED
  <2> TAKE s \in SUBSET D
  <2>1. Cardinality(s) \in Good /\ Cardinality(s) \in Nat
    BY <1>1, <1>4
  <2> QED BY <2>1 DEF Good

\* h adds what F gives to the members of a subset of D.
Adds(h, D, F) ==
    /\ h \in [SUBSET D -> Int]
    /\ h[{}] = 0
    /\ \A s \in SUBSET D : \A x \in s : h[s] = F[x] + h[s \ {x}]

Chosen(s) == CHOOSE x \in s : TRUE

\* There is such a sum.
LEMMA SumExists ==
    ASSUME NEW D, IsFiniteSet(D), NEW F \in [D -> Int]
    PROVE  \E h : Adds(h, D, F)
<1> DEFINE c == [s \in SUBSET D |-> Chosen(s)]
           H == [p \in (SUBSET D) \X Int |->
                    IF p[1] = {} THEN 0 ELSE F[c[p[1]]] + p[2]]
<1>1. \A s \in SUBSET D : s # {} => c[s] \in s
  BY DEF Chosen
<1> HIDE DEF c
<1>2. H \in [(SUBSET D) \X Int -> Int]
  <2> SUFFICES ASSUME NEW s \in SUBSET D, NEW n \in Int, s # {}
               PROVE  F[c[s]] + n \in Int
    OBVIOUS
  <2>1. c[s] \in D
    BY <1>1
  <2> QED BY <2>1
<1>3. \A s \in SUBSET D : \A n \in Int : s # {} => H[<<s, n>>] = F[c[s]] + n
  OBVIOUS
<1> HIDE DEF H
<1>4. PICK h \in [SUBSET D -> Int] : FoldsSome(h, SUBSET D, c, 0, H)
  BY <1>1, <1>2, FoldExists, 0 \in Int
<1>5. /\ h[{}] = 0
      /\ \A s \in SUBSET D : s # {} => h[s] = F[c[s]] + h[s \ {c[s]}]
  <2>1. \A s \in SUBSET D : s \ {c[s]} \in SUBSET D
    OBVIOUS
  <2> QED BY <1>3, <1>4, <2>1 DEF FoldsSome
<1> DEFINE P == {s \in SUBSET D : \A x \in s : h[s] = F[x] + h[s \ {x}]}
<1>6. ASSUME NEW s \in SUBSET D, \A x \in s : s \ {x} \in P
      PROVE  s \in P
  <2> SUFFICES ASSUME NEW x \in s PROVE h[s] = F[x] + h[s \ {x}]
    OBVIOUS
  <2>1. c[s] \in s /\ h[s] = F[c[s]] + h[s \ {c[s]}]
    BY <1>1, <1>5
  <2>2. CASE x = c[s]
    BY <2>1, <2>2
  <2>3. CASE x # c[s]
    <3>1. s \ {x} \in P /\ s \ {c[s]} \in P /\ c[s] \in s \ {x} /\ x \in s \ {c[s]}
      BY <1>6, <2>1, <2>3
    <3>2. /\ h[s \ {x}] = F[c[s]] + h[(s \ {x}) \ {c[s]}]
          /\ h[s \ {c[s]}] = F[x] + h[(s \ {c[s]}) \ {x}]
      BY <3>1
    <3>3. (s \ {x}) \ {c[s]} = (s \ {c[s]}) \ {x} /\ (s \ {x}) \ {c[s]} \in SUBSET D
      OBVIOUS
    <3>4. PICK rest \in Int : rest = h[(s \ {x}) \ {c[s]}]
      BY <3>3
    <3>5. F[x] \in Int /\ F[c[s]] \in Int
      BY <2>1
    <3>6. h[s \ {x}] = F[c[s]] + rest /\ h[s \ {c[s]}] = F[x] + rest
      BY <3>2, <3>3, <3>4
    <3> HIDE DEF P
    <3> QED BY <2>1, <3>5, <3>6
  <2> QED BY <2>2, <2>3
<1> HIDE DEF P
<1>7. \A s \in SUBSET D : s \in P
  BY <1>6, SubsetInduction
<1>8. \A s \in SUBSET D : \A x \in s : h[s] = F[x] + h[s \ {x}]
  BY <1>7 DEF P
<1>9. Adds(h, D, F)
  BY <1>5, <1>8 DEF Adds
<1> QED BY <1>9

\* What folds the members as they are chosen is that sum.
FoldsChosen(g, S, F) ==
    \A s \in SUBSET S : g[s] = IF s = {} THEN 0 ELSE F[Chosen(s)] + g[s \ {Chosen(s)}]

\* A fold gives that sum, whatever the members are chosen in.
LEMMA SumIsOne ==
    ASSUME NEW D, IsFiniteSet(D), NEW F, NEW h, Adds(h, D, F), NEW S \in SUBSET D,
           NEW g, FoldsChosen(g, S, F)
    PROVE  g[S] = h[S]
<1> DEFINE P == {s \in SUBSET D : s \subseteq S => g[s] = h[s]}
<1>1. ASSUME NEW s \in SUBSET D, \A x \in s : s \ {x} \in P
      PROVE  s \in P
  <2> SUFFICES ASSUME s \subseteq S PROVE g[s] = h[s]
    OBVIOUS
  <2>1. CASE s = {}
    BY <2>1 DEF FoldsChosen, Adds
  <2>2. CASE s # {}
    <3>1. Chosen(s) \in s
      BY <2>2 DEF Chosen
    <3>2. g[s] = F[Chosen(s)] + g[s \ {Chosen(s)}]
      BY <2>2 DEF FoldsChosen
    <3>3. g[s \ {Chosen(s)}] = h[s \ {Chosen(s)}]
      BY <1>1, <3>1
    <3>4. h[s] = F[Chosen(s)] + h[s \ {Chosen(s)}]
      BY <3>1 DEF Adds
    <3> QED BY <3>2, <3>3, <3>4
  <2> QED BY <2>1, <2>2
<1> HIDE DEF P
<1>2. \A s \in SUBSET D : s \in P
  BY <1>1, SubsetInduction
<1> QED BY <1>2 DEF P

LEMMA SumFolds ==
    ASSUME NEW D, NEW F, NEW h, Adds(h, D, F), NEW S \in SUBSET D
    PROVE  FoldsChosen(h, S, F)
  BY DEF Adds, FoldsChosen, Chosen

\* The amounts, and the cards, of the rows.
Cents == [r \in Rows |-> Transaction[r].cents]
CardOf == [r \in Rows |-> Transaction[r].card]

\* CentsOf is the sum of the cents.
LEMMA CentsSum ==
    ASSUME NEW h, Adds(h, Rows, Cents), NEW S \in SUBSET Rows
    PROVE  CentsOf(S) = h[S]
<1> DEFINE IsSum(g) ==
        g = [s \in SUBSET S |->
                IF s = {} THEN 0
                ELSE Transaction[Chosen(s)].cents + g[s \ {Chosen(s)}]]
<1>1. CentsOf(S) = (CHOOSE g : IsSum(g))[S]
  BY Zenon DEF CentsOf, MapThenSumSet, MapThenFoldSet, Chosen
<1>2. \A s \in SUBSET S : s # {} => Cents[Chosen(s)] = Transaction[Chosen(s)].cents
  <2> TAKE s \in SUBSET S
  <2> HAVE s # {}
  <2>1. Chosen(s) \in Rows
    BY DEF Chosen
  <2> QED BY <2>1 DEF Cents
<1> DEFINE k == [s \in SUBSET S |-> h[s]]
<1>3. IsSum(k)
  <2>1. FoldsChosen(h, S, Cents)
    BY SumFolds
  <2>2. \A s \in SUBSET S : h[s] = IF s = {} THEN 0
                                   ELSE Transaction[Chosen(s)].cents + k[s \ {Chosen(s)}]
    BY <1>2, <2>1 DEF FoldsChosen
  <2> QED BY <2>2
<1>4. PICK g : IsSum(g) /\ CentsOf(S) = g[S]
  <2> HIDE DEF IsSum, k
  <2> QED BY <1>1, <1>3
<1>5. FoldsChosen(g, S, Cents)
  <2>1. \A s \in SUBSET S : g[s] = IF s = {} THEN 0
                                   ELSE Transaction[Chosen(s)].cents + g[s \ {Chosen(s)}]
    BY <1>4, Zenon
  <2> QED BY <1>2, <2>1 DEF FoldsChosen
<1> HIDE DEF IsSum, k
<1> QED BY <1>4, <1>5, SumIsOne, RowsAssumption

\* FieldTotal is the sum of a field.
LEMMA FieldSum ==
    ASSUME NEW K, IsFiniteSet(K), NEW m, DOMAIN m = K, NEW f,
           NEW h, Adds(h, K, [c \in K |-> m[c][f]])
    PROVE  FieldTotal(m, f) = h[K]
<1> DEFINE F == [c \in K |-> m[c][f]]
           IsSum(g) ==
        g = [s \in SUBSET K |->
                IF s = {} THEN 0
                ELSE m[Chosen(s)][f] + g[s \ {Chosen(s)}]]
<1>1. FieldTotal(m, f) = (CHOOSE g : IsSum(g))[K]
  BY Zenon DEF FieldTotal, MapThenSumSet, MapThenFoldSet, Chosen
<1>2. \A s \in SUBSET K : s # {} => F[Chosen(s)] = m[Chosen(s)][f]
  <2> TAKE s \in SUBSET K
  <2> HAVE s # {}
  <2>1. Chosen(s) \in K
    BY DEF Chosen
  <2> QED BY <2>1
<1> DEFINE k == [s \in SUBSET K |-> h[s]]
<1> HIDE DEF F
<1>3. IsSum(k)
  <2>1. FoldsChosen(h, K, F)
    BY SumFolds DEF F
  <2>2. \A s \in SUBSET K : h[s] = IF s = {} THEN 0
                                   ELSE m[Chosen(s)][f] + k[s \ {Chosen(s)}]
    BY <1>2, <2>1 DEF FoldsChosen
  <2> QED BY <2>2
<1>4. PICK g : IsSum(g) /\ FieldTotal(m, f) = g[K]
  <2> HIDE DEF IsSum, k
  <2> QED BY <1>1, <1>3
<1>5. FoldsChosen(g, K, F)
  <2>1. \A s \in SUBSET K : g[s] = IF s = {} THEN 0
                                   ELSE m[Chosen(s)][f] + g[s \ {Chosen(s)}]
    BY <1>4, Zenon
  <2> QED BY <1>2, <2>1 DEF FoldsChosen
<1>6. Adds(h, K, F)
  BY DEF F
<1> QED BY <1>4, <1>5, <1>6, SumIsOne

\* S is made of two sets that have nothing in common.
Splits(S, A, B) == S = A \cup B /\ A \cap B = {}

\* A sum over disjoint sets is the sum of theirs.
LEMMA SumOfParts ==
    ASSUME NEW D, IsFiniteSet(D), NEW F \in [D -> Int], NEW h, Adds(h, D, F),
           NEW S \in SUBSET D, NEW A, NEW B, Splits(S, A, B)
    PROVE  h[S] = h[A] + h[B]
<1> DEFINE P == {s \in SUBSET D : s \cap B = {} => h[s \cup B] = h[s] + h[B]}
<1>1. A \in SUBSET D /\ B \in SUBSET D /\ A \cap B = {} /\ S = A \cup B
  BY DEF Splits
<1>2. ASSUME NEW s \in SUBSET D, \A x \in s : s \ {x} \in P
      PROVE  s \in P
  <2> SUFFICES ASSUME s \cap B = {} PROVE h[s \cup B] = h[s] + h[B]
    OBVIOUS
  <2>1. CASE s = {}
    <3>1. s \cup B = B
      BY <2>1
    <3>2. h[s] = 0 /\ h[B] \in Int
      BY <1>1, <2>1 DEF Adds
    <3>3. h[s \cup B] = h[B]
      BY <3>1
    <3> HIDE DEF P
    <3> QED BY <3>2, <3>3
  <2>2. CASE s # {}
    <3>1. PICK x \in s : TRUE
      BY <2>2
    <3>2. h[(s \ {x}) \cup B] = h[s \ {x}] + h[B]
      BY <1>2, <3>1
    <3>3. (s \cup B) \ {x} = (s \ {x}) \cup B /\ s \cup B \in SUBSET D /\ x \in s \cup B
      BY <1>1
    <3>4. h[s \cup B] = F[x] + h[(s \ {x}) \cup B] /\ h[s] = F[x] + h[s \ {x}]
      BY <3>3 DEF Adds
    <3>5. F[x] \in Int /\ h[s \ {x}] \in Int /\ h[B] \in Int
      BY <1>1 DEF Adds
    <3> QED BY <3>2, <3>4, <3>5
  <2> QED BY <2>1, <2>2
<1> HIDE DEF P
<1>3. \A s \in SUBSET D : s \in P
  BY <1>2, SubsetInduction
<1> QED BY <1>1, <1>3 DEF P

\* A sum of zeros is zero.
LEMMA SumOfZeros ==
    ASSUME NEW D, IsFiniteSet(D), NEW F, NEW h, Adds(h, D, F),
           NEW A \in SUBSET D, \A x \in A : F[x] = 0
    PROVE  h[A] = 0
<1> DEFINE P == {s \in SUBSET D : s \subseteq A => h[s] = 0}
<1>1. ASSUME NEW s \in SUBSET D, \A x \in s : s \ {x} \in P
      PROVE  s \in P
  <2> SUFFICES ASSUME s \subseteq A PROVE h[s] = 0
    OBVIOUS
  <2>1. CASE s = {}
    BY <2>1 DEF Adds
  <2>2. CASE s # {}
    <3>1. PICK x \in s : TRUE
      BY <2>2
    <3>2. h[s \ {x}] = 0 /\ F[x] = 0 /\ h[s] = F[x] + h[s \ {x}]
      BY <1>1, <3>1 DEF Adds
    <3> QED BY <3>2
  <2> QED BY <2>1, <2>2
<1> HIDE DEF P
<1>2. \A s \in SUBSET D : s \in P
  BY <1>1, SubsetInduction
<1> QED BY <1>2 DEF P

\* Cardinality is the sum of ones.
LEMMA CountIsSum ==
    ASSUME NEW D, IsFiniteSet(D)
    PROVE  Adds([s \in SUBSET D |-> Cardinality(s)], D, [x \in D |-> 1])
<1> DEFINE h == [s \in SUBSET D |-> Cardinality(s)]
<1>1. ASSUME NEW s \in SUBSET D
      PROVE  /\ Cardinality(s) \in Nat
             /\ \A x \in s : Cardinality(s \ {x}) = Cardinality(s) - 1
  <2>1. IsFiniteSet(s) /\ Cardinality(s) \in Nat
    BY FS_Subset, FS_CardinalityType
  <2> QED BY <2>1, FS_RemoveElement
<1>2. h \in [SUBSET D -> Int]
  BY <1>1
<1>3. h[{}] = 0
  BY FS_EmptySet
<1>4. ASSUME NEW s \in SUBSET D, NEW x \in s PROVE h[s] = [y \in D |-> 1][x] + h[s \ {x}]
  <2>1. Cardinality(s) \in Nat /\ Cardinality(s \ {x}) = Cardinality(s) - 1
    BY <1>1
  <2>2. h[s] = Cardinality(s) /\ h[s \ {x}] = Cardinality(s \ {x}) /\ x \in D
    OBVIOUS
  <2> HIDE DEF h
  <2> QED BY <2>1, <2>2
<1> HIDE DEF h
<1>5. Adds(h, D, [x \in D |-> 1])
  BY <1>2, <1>3, <1>4 DEF Adds
<1> QED BY <1>5 DEF h

\* A sum with its sign changed is a sum.
LEMMA NegatedSum ==
    ASSUME NEW D, NEW F \in [D -> Int], NEW h, Adds(h, D, F)
    PROVE  Adds([s \in SUBSET D |-> -h[s]], D, [x \in D |-> -F[x]])
<1> DEFINE k == [s \in SUBSET D |-> -h[s]]
<1>1. h \in [SUBSET D -> Int] /\ h[{}] = 0
  BY DEF Adds
<1>2. k \in [SUBSET D -> Int] /\ k[{}] = 0
  BY <1>1
<1>3. ASSUME NEW s \in SUBSET D, NEW x \in s
      PROVE  k[s] = [y \in D |-> -F[y]][x] + k[s \ {x}]
  <2>1. h[s] = F[x] + h[s \ {x}] /\ h[s \ {x}] \in Int /\ F[x] \in Int
    BY DEF Adds
  <2> QED BY <2>1
<1> QED BY <1>2, <1>3 DEF Adds

\* The members of S that have the key c.
With(S, key, c) == {x \in S : key[x] = c}

\* A sum over S is the sum of the sums over the members of each key.
LEMMA SumByKey ==
    ASSUME NEW D, IsFiniteSet(D), NEW F \in [D -> Int], NEW h, Adds(h, D, F),
           NEW S \in SUBSET D, NEW K, IsFiniteSet(K),
           NEW key, \A x \in S : key[x] \in K,
           NEW G, \A c \in K : G[c] = h[With(S, key, c)],
           NEW t, Adds(t, K, G)
    PROVE  t[K] = h[S]
<1> DEFINE Of(L) == {x \in S : key[x] \in L}
           P == {L \in SUBSET K : t[L] = h[Of(L)]}
<1>1. ASSUME NEW L \in SUBSET K, \A c \in L : L \ {c} \in P
      PROVE  L \in P
  <2>1. CASE L = {}
    <3>1. Of(L) = {}
      BY <2>1
    <3>2. t[L] = 0 /\ h[{}] = 0
      BY <2>1 DEF Adds
    <3> QED BY <3>1, <3>2
  <2>2. CASE L # {}
    <3>1. PICK c \in L : TRUE
      BY <2>2
    <3>2. Of(L) \in SUBSET D /\ Splits(Of(L), With(S, key, c), Of(L \ {c}))
      BY DEF Splits, With
    <3>3. t[L] = G[c] + t[L \ {c}] /\ G[c] = h[With(S, key, c)]
      BY DEF Adds
    <3>4. t[L \ {c}] = h[Of(L \ {c})]
      BY <1>1, <3>1
    <3> HIDE DEF Of
    <3>5. h[Of(L)] = h[With(S, key, c)] + h[Of(L \ {c})]
      BY <3>2, SumOfParts
    <3>6. t[L] = h[Of(L)]
      BY <3>3, <3>4, <3>5
    <3> QED BY <3>6
  <2> QED BY <2>1, <2>2
<1> HIDE DEF P
<1>2. \A L \in SUBSET K : L \in P
  BY <1>1, SubsetInduction
<1>3. t[K] = h[Of(K)]
  BY <1>2 DEF P
<1>4. Of(K) = S
  OBVIOUS
<1> QED BY <1>3, <1>4

-----------------------------------------------------------------------------
(* Text *)

\* One character is added to a collapsed text.
Added(t, x) == IF x = Space /\ t # <<>> /\ Last(t) = Space THEN t ELSE Append(t, Folded[x])

\* The fold that collapses t.
IsCollapse(g, t) ==
    g = [I \in SUBSET DOMAIN t |-> IF I = {} THEN <<>>
                                   ELSE Added(g[I \ {Max(I)}], t[Max(I)])]

LEMMA CollapsedIsFold ==
    ASSUME NEW s
    PROVE  Collapsed(s) = (CHOOSE g : IsCollapse(g, Strip(s)))[DOMAIN Strip(s)]
  BY Zenon DEF Collapsed, FoldLeft, MapThenFoldSet, IsCollapse, Added

LEMMA AddedTyped ==
    ASSUME NEW t \in Seq(Chars), NEW x \in Chars
    PROVE  Added(t, x) \in Seq(Chars)
  BY TextAssumption DEF Added

\* The characters are added one at a time, from the first to the last.
LEMMA CollapseSteps ==
    ASSUME NEW t \in Seq(Chars)
    PROVE  \E f \in [0 .. Len(t) -> Seq(Chars)] :
               /\ f[0] = <<>>
               /\ \A n \in 0 .. Len(t) - 1 : f[n + 1] = Added(f[n], t[n + 1])
               /\ f[Len(t)] = (CHOOSE g : IsCollapse(g, t))[DOMAIN t]
<1> DEFINE D == DOMAIN t
           V == Seq(Chars)
           c == [I \in SUBSET D |-> Max(I)]
           H == [p \in (SUBSET D) \X V |->
                    IF p[1] = {} THEN <<>> ELSE Added(p[2], t[Max(p[1])])]
           g == CHOOSE h : IsCollapse(h, t)
<1>1. Len(t) \in Nat /\ D = 1 .. Len(t) /\ <<>> \in V
  OBVIOUS
<1>2. ASSUME NEW I \in SUBSET D, I # {}
      PROVE  Max(I) \in I /\ \A i \in I : i <= Max(I)
  <2>1. I \subseteq 0 .. Len(t)
    BY <1>1
  <2> QED BY <1>1, <1>2, <2>1, GreatestNumber
<1>3. IsFiniteSet(D)
  BY <1>1, FS_Interval
<1>4. H \in [(SUBSET D) \X V -> V]
  <2> SUFFICES ASSUME NEW p \in (SUBSET D) \X V, p[1] # {}
               PROVE  Added(p[2], t[Max(p[1])]) \in V
    BY <1>1
  <2>1. t[Max(p[1])] \in Chars
    BY <1>1, <1>2
  <2> QED BY <2>1, AddedTyped
<1>5. \E h \in [SUBSET D -> V] : FoldsSome(h, SUBSET D, c, <<>>, H)
  <2>1. \A I \in SUBSET D : I # {} => c[I] \in I
    BY <1>2
  <2> HIDE DEF D, V, H, c
  <2> QED BY <1>1, <1>3, <1>4, <2>1, FoldExists
<1>6. \E h : IsCollapse(h, t)
  <2>1. PICK h \in [SUBSET D -> V] : FoldsSome(h, SUBSET D, c, <<>>, H)
    BY <1>5
  <2>2. ASSUME NEW I \in SUBSET D
        PROVE  h[I] = IF I = {} THEN <<>> ELSE Added(h[I \ {Max(I)}], t[Max(I)])
    <3>1. h[I] = IF I = {} THEN <<>> ELSE H[<<I, h[I \ {c[I]}]>>]
      BY <2>1 DEF FoldsSome
    <3>2. h[I \ {Max(I)}] \in V /\ c[I] = Max(I)
      OBVIOUS
    <3>3. I # {} => H[<<I, h[I \ {Max(I)}]>>] = Added(h[I \ {Max(I)}], t[Max(I)])
      BY <3>2
    <3> HIDE DEF H, c, V
    <3> QED BY <3>1, <3>2, <3>3
  <2>3. h = [I \in SUBSET D |-> h[I]]
    OBVIOUS
  <2> QED BY <2>2, <2>3, Zenon DEF IsCollapse
<1>7. IsCollapse(g, t)
  BY <1>6
<1> HIDE DEF g
<1> DEFINE f == [n \in 0 .. Len(t) |-> g[1 .. n]]
<1>8. \A I \in SUBSET D :
          g[I] = IF I = {} THEN <<>> ELSE Added(g[I \ {Max(I)}], t[Max(I)])
  BY <1>7 DEF IsCollapse
<1>9. f[0] = <<>>
  <2>1. 1 .. 0 = {} /\ f[0] = g[1 .. 0]
    BY <1>1
  <2> QED BY <1>8, <2>1
<1>10. ASSUME NEW n \in 0 .. Len(t) - 1 PROVE f[n + 1] = Added(f[n], t[n + 1])
  <2> DEFINE I == 1 .. n + 1
  <2>1. n + 1 \in I /\ I \in SUBSET D /\ I # {} /\ I \ {n + 1} = 1 .. n
    <3>1. n \in Nat /\ n + 1 <= Len(t)
      BY <1>1
    <3>2. \A i \in I : i \in 1 .. Len(t)
      BY <1>1, <3>1
    <3>3. \A i : i \in I \ {n + 1} <=> i \in 1 .. n
      BY <3>1
    <3> QED BY <1>1, <3>1, <3>2, <3>3
  <2>2. \A i \in I : i <= n + 1
    OBVIOUS
  <2>3. Max(I) = n + 1
    <3>1. Max(I) \in I /\ n + 1 <= Max(I)
      <4> HIDE DEF I, D
      <4> QED BY <1>2, <2>1
    <3>2. Max(I) \in Nat
      BY <3>1
    <3> HIDE DEF I
    <3> QED BY <2>2, <3>1, <3>2
  <2>4. f[n + 1] = g[I] /\ f[n] = g[1 .. n]
    BY <1>1
  <2> HIDE DEF I, f
  <2> QED BY <1>8, <2>1, <2>3, <2>4
<1>11. f \in [0 .. Len(t) -> V]
  <2> DEFINE S == {n \in Nat : n <= Len(t) => f[n] \in V}
  <2>1. 0 \in S
    BY <1>1, <1>9
  <2>2. ASSUME NEW n \in Nat, n \in S PROVE n + 1 \in S
    <3> SUFFICES ASSUME n + 1 <= Len(t) PROVE f[n + 1] \in V
      OBVIOUS
    <3>1. n \in 0 .. Len(t) - 1 /\ t[n + 1] \in Chars /\ f[n] \in V
      BY <1>1, <2>2
    <3> HIDE DEF f
    <3> QED BY <1>10, <3>1, AddedTyped
  <2>3. \A n \in Nat : n \in S
    <3> HIDE DEF S
    <3> QED BY <2>1, <2>2, EveryNumber
  <2>4. \A n \in 0 .. Len(t) : f[n] \in V
    <3> TAKE n \in 0 .. Len(t)
    <3>1. n \in Nat /\ n <= Len(t)
      BY <1>1
    <3>2. n \in S
      <4> HIDE DEF S
      <4> QED BY <2>3, <3>1
    <3> QED BY <3>1, <3>2
  <2> QED BY <2>4
<1>12. f[Len(t)] = g[D]
  BY <1>1
<1> HIDE DEF f
<1> QED BY <1>9, <1>10, <1>11, <1>12 DEF g

\* Text as normalization leaves it: folded, with no spaces around it and one
\* between words.
Clean(s) ==
    /\ s \in Seq(Chars)
    /\ \A i \in DOMAIN s : Folded[s[i]] = s[i]
    /\ \A i \in DOMAIN s : s[i] = Space => i # 1 /\ i # Len(s) /\ s[i + 1] # Space

\* What Strip leaves is what it was from a first character to a last.
LEMMA StripShape ==
    ASSUME NEW s \in Seq(Chars)
    PROVE  \/ Strip(s) = <<>> /\ \A i \in DOMAIN s : s[i] = Space
           \/ \E a, b \in DOMAIN s :
                 /\ a <= b /\ s[a] # Space /\ s[b] # Space
                 /\ \A i \in DOMAIN s : i < a \/ i > b => s[i] = Space
                 /\ Strip(s) = SubSeq(s, a, b)
<1> DEFINE marks == {i \in DOMAIN s : s[i] # Space}
<1>1. CASE marks = {}
  BY <1>1 DEF Strip
<1>2. CASE marks # {}
  <2>1. Len(s) \in Nat /\ DOMAIN s = 1 .. Len(s)
    OBVIOUS
  <2>2. marks \subseteq Nat /\ marks \subseteq 0 .. Len(s)
    BY <2>1
  <2>3. Strip(s) = SubSeq(s, Min(marks), Max(marks))
    BY <1>2 DEF Strip
  <2> DEFINE a == Min(marks)
             b == Max(marks)
  <2>4. a \in marks /\ b \in marks /\ \A i \in marks : a <= i /\ i <= b
    <3> HIDE DEF marks
    <3> QED BY <1>2, <2>1, <2>2, LeastNumber, GreatestNumber
  <2>5. a \in DOMAIN s /\ b \in DOMAIN s /\ s[a] # Space /\ s[b] # Space
    BY <2>4
  <2>6. a <= b
    BY <2>4
  <2> HIDE DEF a, b
  <2>7. \A i \in DOMAIN s : i < a \/ i > b => s[i] = Space
    <3> SUFFICES ASSUME NEW i \in DOMAIN s, i \in marks PROVE ~(i < a \/ i > b)
      OBVIOUS
    <3>1. a <= i /\ i <= b /\ a \in Nat /\ b \in Nat /\ i \in Nat
      BY <2>1, <2>4, <2>5
    <3> QED BY <3>1
  <2> QED BY <2>3, <2>5, <2>6, <2>7 DEF a, b
<1> QED BY <1>1, <1>2

\* SubSeq(s, a, b), place by place.
LEMMA SubSeqPlaces ==
    ASSUME NEW S, NEW s \in Seq(S), NEW a \in Nat, NEW b \in Nat, 1 <= a, a <= b + 1, b <= Len(s)
    PROVE  /\ SubSeq(s, a, b) \in Seq(S)
           /\ Len(SubSeq(s, a, b)) = b - a + 1
           /\ DOMAIN SubSeq(s, a, b) = 1 .. b - a + 1
           /\ \A i \in 1 .. b - a + 1 : SubSeq(s, a, b)[i] = s[a + i - 1]
  OBVIOUS

\* What Strip leaves has no spaces around it.
LEMMA StripTyped ==
    ASSUME NEW s \in Seq(Chars)
    PROVE  /\ Strip(s) \in Seq(Chars)
           /\ Len(Strip(s)) <= Len(s)
           /\ Strip(s) # <<>> => Strip(s)[1] # Space /\ Strip(s)[Len(Strip(s))] # Space
<1>1. CASE Strip(s) = <<>>
  BY <1>1
<1>2. ASSUME NEW a \in DOMAIN s, NEW b \in DOMAIN s, a <= b, s[a] # Space, s[b] # Space,
             Strip(s) = SubSeq(s, a, b)
      PROVE  /\ Strip(s) \in Seq(Chars)
             /\ Len(Strip(s)) <= Len(s)
             /\ Strip(s)[1] # Space /\ Strip(s)[Len(Strip(s))] # Space
  <2>1. a \in Nat /\ b \in Nat /\ 1 <= a /\ b <= Len(s) /\ a <= b + 1 /\ Len(s) \in Nat
    BY <1>2
  <2>2. /\ Strip(s) \in Seq(Chars)
        /\ Len(Strip(s)) = b - a + 1
        /\ \A i \in 1 .. b - a + 1 : Strip(s)[i] = s[a + i - 1]
    BY <1>2, <2>1, SubSeqPlaces
  <2>3. 1 \in 1 .. b - a + 1 /\ b - a + 1 \in 1 .. b - a + 1
    BY <1>2, <2>1
  <2>4. a + 1 - 1 = a /\ a + (b - a + 1) - 1 = b
    BY <2>1
  <2>5. Strip(s)[1] = s[a] /\ Strip(s)[b - a + 1] = s[b]
    BY <2>2, <2>3, <2>4
  <2>6. b - a + 1 <= Len(s)
    BY <2>1
  <2> QED BY <1>2, <2>2, <2>5, <2>6
<1> QED BY <1>1, <1>2, StripShape

\* What has no spaces around it is left as it is.
LEMMA StripOfStripped ==
    ASSUME NEW s \in Seq(Chars), s # <<>> => s[1] # Space /\ s[Len(s)] # Space
    PROVE  Strip(s) = s
<1>1. CASE s = <<>>
  <2>1. DOMAIN s = {}
    BY <1>1
  <2> QED BY <1>1, <2>1 DEF Strip
<1>2. CASE s # <<>>
  <2>1. Len(s) \in Nat /\ Len(s) # 0 /\ 1 \in DOMAIN s /\ Len(s) \in DOMAIN s
    BY <1>2
  <2>2. PICK a \in DOMAIN s, b \in DOMAIN s :
            /\ \A i \in DOMAIN s : i < a \/ i > b => s[i] = Space
            /\ Strip(s) = SubSeq(s, a, b)
    BY <1>2, <2>1, StripShape
  <2>3. ~(1 < a) /\ ~(Len(s) > b)
    BY <1>2, <2>1, <2>2
  <2>4. a = 1 /\ b = Len(s)
    BY <2>1, <2>3
  <2> QED BY <2>2, <2>4
<1> QED BY <1>1, <1>2

LEMMA CleanStripped ==
    ASSUME NEW s, Clean(s)
    PROVE  Strip(s) = s
<1>1. s # <<>> => 1 \in DOMAIN s /\ Len(s) \in DOMAIN s
  BY DEF Clean
<1>2. s # <<>> => s[1] # Space /\ s[Len(s)] # Space
  BY <1>1 DEF Clean
<1> QED BY <1>2, StripOfStripped DEF Clean

LEMMA CollapsedSteps ==
    ASSUME NEW s \in Seq(Chars)
    PROVE  \E f \in [0 .. Len(Strip(s)) -> Seq(Chars)] :
               /\ f[0] = <<>>
               /\ \A n \in 0 .. Len(Strip(s)) - 1 : f[n + 1] = Added(f[n], Strip(s)[n + 1])
               /\ f[Len(Strip(s))] = Collapsed(s)
<1>1. Strip(s) \in Seq(Chars)
  BY StripTyped
<1> QED BY <1>1, CollapseSteps, CollapsedIsFold

\* A text being collapsed: clean but for the space it may end with.
Opened(t, n, last) ==
    /\ t \in Seq(Chars)
    /\ Len(t) <= n
    /\ \A i \in DOMAIN t : Folded[t[i]] = t[i]
    /\ \A i \in DOMAIN t : t[i] = Space => i # 1 /\ (i # Len(t) => t[i + 1] # Space)
    /\ t # <<>>
    /\ t[Len(t)] = Space <=> last = Space

\* The first character opens a text, and each that follows keeps it open.
LEMMA OpenedFirst ==
    ASSUME NEW x \in Chars, x # Space
    PROVE  Opened(Added(<<>>, x), 1, x)
<1>1. Added(<<>>, x) = <<Folded[x]>>
  BY DEF Added
<1>2. Folded[x] \in Chars /\ Folded[Folded[x]] = Folded[x] /\ Folded[x] # Space
  BY TextAssumption
<1> DEFINE t == <<Folded[x]>>
<1>3. t \in Seq(Chars) /\ Len(t) = 1 /\ t[1] = Folded[x] /\ t # <<>> /\ DOMAIN t = {1}
  BY <1>2
<1> HIDE DEF t
<1>4. Opened(t, 1, x)
  BY <1>2, <1>3 DEF Opened
<1> QED BY <1>1, <1>4 DEF t

LEMMA OpenedMore ==
    ASSUME NEW t, NEW n \in Nat, NEW last, Opened(t, n, last), NEW x \in Chars
    PROVE  Opened(Added(t, x), n + 1, x)
<1>1. Last(t) = t[Len(t)] /\ Len(t) \in Nat /\ Len(t) # 0
  BY DEF Opened, Last
<1>2. CASE x = Space /\ t[Len(t)] = Space
  <2>1. Added(t, x) = t
    BY <1>1, <1>2 DEF Added, Opened
  <2> QED BY <1>1, <1>2, <2>1 DEF Opened
<1>3. CASE ~(x = Space /\ t[Len(t)] = Space)
  <2> DEFINE y == Folded[x]
             u == Append(t, y)
             m == Len(t)
  <2>1. Added(t, x) = u
    BY <1>1, <1>3 DEF Added
  <2>2. y \in Chars /\ Folded[y] = y /\ (y = Space <=> x = Space)
    BY TextAssumption
  <2>3. t \in Seq(Chars) /\ m <= n
    BY DEF Opened
  <2> HIDE DEF y
  <2>4. /\ u \in Seq(Chars) /\ Len(u) = m + 1 /\ u # <<>> /\ u[m + 1] = y
        /\ DOMAIN u = 1 .. m + 1 /\ DOMAIN t = 1 .. m
        /\ \A i \in 1 .. m : u[i] = t[i]
    BY <2>2, <2>3
  <2> HIDE DEF u, m
  <2>5. m \in Nat /\ m # 0 /\ ~(x = Space /\ t[m] = Space)
    BY <1>1, <1>3 DEF m
  <2>6. \A i \in 1 .. m : Folded[t[i]] = t[i]
    BY <2>4 DEF Opened
  <2>7. \A i \in 1 .. m : t[i] = Space => i # 1 /\ (i # m => t[i + 1] # Space)
    BY <2>4 DEF Opened, m
  <2>8. \A i \in DOMAIN u : Folded[u[i]] = u[i]
    <3> TAKE i \in DOMAIN u
    <3>1. i \in 1 .. m \/ i = m + 1
      BY <2>4, <2>5
    <3> QED BY <2>2, <2>4, <2>6, <3>1
  <2>9. ASSUME NEW i \in DOMAIN u, u[i] = Space
        PROVE  i # 1 /\ (i # Len(u) => u[i + 1] # Space)
    <3>1. CASE i = m + 1
      BY <2>4, <2>5, <3>1
    <3>2. CASE i \in 1 .. m - 1
      <4>1. i \in 1 .. m /\ i + 1 \in 1 .. m /\ i # m
        BY <2>5, <3>2
      <4> QED BY <2>4, <2>7, <2>9, <4>1
    <3>3. CASE i = m
      <4>1. m \in 1 .. m /\ t[m] = Space
        BY <2>4, <2>5, <2>9, <3>3
      <4>2. u[m + 1] # Space
        BY <2>2, <2>4, <2>5, <4>1
      <4> QED BY <2>7, <3>3, <4>1, <4>2
    <3> QED BY <2>4, <2>5, <3>1, <3>2, <3>3
  <2>10. m + 1 <= n + 1
    BY <2>3, <2>5 DEF m
  <2> QED BY <2>1, <2>2, <2>4, <2>8, <2>9, <2>10 DEF Opened
<1> QED BY <1>2, <1>3

\* Collapsed text is clean.
LEMMA CollapsedClean ==
    ASSUME NEW s \in Seq(Chars)
    PROVE  Clean(Collapsed(s)) /\ Len(Collapsed(s)) <= Len(s)
<1> DEFINE t == Strip(s)
<1>1. /\ t \in Seq(Chars) /\ Len(t) \in Nat /\ Len(s) \in Nat /\ Len(t) <= Len(s)
      /\ t # <<>> => t[1] # Space /\ t[Len(t)] # Space
  BY StripTyped
<1>2. PICK f \in [0 .. Len(t) -> Seq(Chars)] :
          /\ f[0] = <<>>
          /\ \A n \in 0 .. Len(t) - 1 : f[n + 1] = Added(f[n], t[n + 1])
          /\ f[Len(t)] = Collapsed(s)
  BY CollapsedSteps
<1> HIDE DEF t
<1>3. CASE Len(t) = 0
  <2>1. Collapsed(s) = <<>>
    BY <1>2, <1>3
  <2> QED BY <1>1, <2>1 DEF Clean
<1>4. CASE Len(t) # 0
  <2> DEFINE S == {n \in Nat : n + 1 <= Len(t) => Opened(f[n + 1], n + 1, t[n + 1])}
  <2>1. t[1] \in Chars /\ t[1] # Space
    BY <1>1, <1>4
  <2>2. 0 \in S
    <3>1. f[0 + 1] = Added(<<>>, t[1]) /\ 0 + 1 = 1
      BY <1>1, <1>2, <1>4
    <3> QED BY <2>1, <3>1, OpenedFirst
  <2>3. ASSUME NEW n \in Nat, n \in S PROVE n + 1 \in S
    <3> SUFFICES ASSUME n + 1 + 1 <= Len(t)
                 PROVE  Opened(f[n + 1 + 1], n + 1 + 1, t[n + 1 + 1])
      OBVIOUS
    <3>1. n + 1 \in 0 .. Len(t) - 1 /\ t[n + 1 + 1] \in Chars
      BY <1>1
    <3>2. f[n + 1 + 1] = Added(f[n + 1], t[n + 1 + 1])
      BY <1>2, <3>1
    <3>3. Opened(f[n + 1], n + 1, t[n + 1]) /\ n + 1 \in Nat
      BY <1>1, <2>3
    <3> HIDE DEF S
    <3> QED BY <3>1, <3>2, <3>3, OpenedMore
  <2>4. \A n \in Nat : n \in S
    <3> HIDE DEF S
    <3> QED BY <2>2, <2>3, EveryNumber
  <2>5. Len(t) - 1 \in Nat /\ Len(t) - 1 + 1 = Len(t)
    BY <1>1, <1>4
  <2>6. Len(t) - 1 \in S
    <3> HIDE DEF S
    <3> QED BY <2>4, <2>5
  <2>7. Opened(f[Len(t)], Len(t), t[Len(t)])
    BY <1>1, <2>5, <2>6
  <2>8. Opened(Collapsed(s), Len(t), t[Len(t)]) /\ t[Len(t)] # Space
    BY <1>1, <1>2, <1>4, <2>7
  <2>9. Clean(Collapsed(s)) /\ Len(Collapsed(s)) <= Len(t)
    BY <2>8 DEF Opened, Clean
  <2>10. Len(Collapsed(s)) \in Nat
    BY <2>9 DEF Clean
  <2> QED BY <1>1, <2>9, <2>10
<1> QED BY <1>3, <1>4

LEMMA BelowLength ==
    ASSUME NEW m \in Nat, NEW n \in Nat, n + 1 <= m, n # 0
    PROVE  n \in 1 .. m /\ n # m
  OBVIOUS

\* Clean text is left as it is.
LEMMA CollapsedOfClean ==
    ASSUME NEW s, Clean(s)
    PROVE  Collapsed(s) = s
<1>1. s \in Seq(Chars) /\ Len(s) \in Nat /\ DOMAIN s = 1 .. Len(s) /\ Strip(s) = s
  BY CleanStripped DEF Clean
<1>2. PICK f \in [0 .. Len(s) -> Seq(Chars)] :
          /\ f[0] = <<>>
          /\ \A n \in 0 .. Len(s) - 1 : f[n + 1] = Added(f[n], s[n + 1])
          /\ f[Len(s)] = Collapsed(s)
  BY <1>1, CollapsedSteps
<1> DEFINE S == {n \in Nat : n <= Len(s) => f[n] = SubSeq(s, 1, n)}
<1>3. 0 \in S
  BY <1>1, <1>2
<1>4. ASSUME NEW n \in Nat, n \in S PROVE n + 1 \in S
  <2> SUFFICES ASSUME n + 1 <= Len(s) PROVE f[n + 1] = SubSeq(s, 1, n + 1)
    OBVIOUS
  <2> DEFINE t == SubSeq(s, 1, n)
  <2>1. f[n] = t /\ f[n + 1] = Added(f[n], s[n + 1])
    BY <1>1, <1>2, <1>4
  <2>2. Len(t) = n /\ (n # 0 => t[n] = s[n]) /\ t \in Seq(Chars)
    BY <1>1
  <2>3. n + 1 \in DOMAIN s /\ Folded[s[n + 1]] = s[n + 1]
    BY <1>1 DEF Clean
  <2>4. SubSeq(s, 1, n + 1) = Append(t, s[n + 1])
    BY <1>1, <2>3
  <2>5. ~(s[n + 1] = Space /\ t # <<>> /\ Last(t) = Space)
    <3> SUFFICES ASSUME t # <<>>, Last(t) = Space, s[n + 1] = Space PROVE FALSE
      OBVIOUS
    <3>1. n # 0
      <4> HIDE DEF t
      <4> QED BY <2>2
    <3>2. Last(t) = t[n]
      <4> HIDE DEF t
      <4> QED BY <2>2 DEF Last
    <3>3. s[n] = Space
      <4> HIDE DEF t
      <4> QED BY <2>2, <3>1, <3>2
    <3>4. n \in DOMAIN s /\ n # Len(s)
      <4>1. Len(s) \in Nat /\ DOMAIN s = 1 .. Len(s)
        BY <1>1
      <4> QED BY <3>1, <4>1, BelowLength
    <3> QED BY <3>3, <3>4 DEF Clean
  <2> HIDE DEF t
  <2> QED BY <2>1, <2>3, <2>4, <2>5 DEF Added
<1>5. \A n \in Nat : n \in S
  <2> HIDE DEF S
  <2> QED BY <1>3, <1>4, EveryNumber
<1>6. f[Len(s)] = SubSeq(s, 1, Len(s))
  BY SMTT(20), <1>1, <1>5
<1>7. SubSeq(s, 1, Len(s)) = s
  BY <1>1
<1> QED BY <1>2, <1>6, <1>7

\* What fits is not cut off.
LEMMA LimitedTyped ==
    ASSUME NEW s \in Seq(Chars)
    PROVE  /\ Limited(s) \in Seq(Chars)
           /\ Len(Limited(s)) <= QueryLength
           /\ Len(s) <= QueryLength => Limited(s) = s
<1> DEFINE I == {Len(s), QueryLength}
           m == Min(I)
<1>1. Len(s) \in Nat /\ QueryLength \in Nat
  BY TextAssumption
<1>2. m \in I /\ \A i \in I : m <= i
  <2>1. I \subseteq Nat /\ I # {}
    BY <1>1
  <2> HIDE DEF I
  <2> QED BY <2>1, LeastNumber
<1>3. m \in Nat /\ m <= Len(s) /\ m <= QueryLength /\ (Len(s) <= QueryLength => m = Len(s))
  BY <1>1, <1>2
<1>4. Limited(s) = SubSeq(s, 1, m)
  BY DEF Limited
<1> HIDE DEF m
<1> QED BY <1>1, <1>3, <1>4

\* A normalized keyword is clean and short; normalizing it again, or the keyword
\* without the spaces around it, gives the same.
LEMMA NormalizedTyped ==
    ASSUME NEW s \in Seq(Chars)
    PROVE  /\ Clean(Normalized(s))
           /\ Len(Normalized(s)) <= QueryLength
<1>1. Limited(Strip(s)) \in Seq(Chars) /\ Len(Limited(Strip(s))) <= QueryLength
  BY StripTyped, LimitedTyped
<1>2. Clean(Normalized(s)) /\ Len(Normalized(s)) <= Len(Limited(Strip(s)))
  BY <1>1, CollapsedClean DEF Normalized
<1>3. Len(Normalized(s)) \in Nat /\ Len(Limited(Strip(s))) \in Nat /\ QueryLength \in Nat
  BY <1>1, <1>2, TextAssumption DEF Clean
<1> QED BY <1>1, <1>2, <1>3

LEMMA NormalizedOfClean ==
    ASSUME NEW s, Clean(s), Len(s) <= QueryLength
    PROVE  Normalized(s) = s
  BY CleanStripped, LimitedTyped, CollapsedOfClean DEF Normalized, Clean

LEMMA NormalizedAgain ==
    ASSUME NEW s \in Seq(Chars)
    PROVE  Normalized(Normalized(s)) = Normalized(s) /\ Normalized(Strip(s)) = Normalized(s)
<1>1. Normalized(Normalized(s)) = Normalized(s)
  BY NormalizedTyped, NormalizedOfClean
<1>2. Strip(Strip(s)) = Strip(s)
  BY StripTyped, StripOfStripped
<1> QED BY <1>1, <1>2 DEF Normalized

-----------------------------------------------------------------------------
(* Matching *)

\* A part of a part is a part.
LEMMA PartOfPart ==
    ASSUME NEW s \in Seq(Chars), NEW t \in SubSeqs(s), NEW u \in SubSeqs(t)
    PROVE  u \in SubSeqs(s)
<1>1. PICK i \in 0 .. Len(s), j \in 0 .. Len(s) : t = SubSeq(s, i + 1, j)
  BY DEF SubSeqs
<1>2. PICK k \in 0 .. Len(t), m \in 0 .. Len(t) : u = SubSeq(t, k + 1, m)
  BY DEF SubSeqs
<1>3. Len(s) \in Nat
  OBVIOUS
<1>4. CASE j < i + 1
  <2>1. t = <<>> /\ Len(t) = 0
    BY <1>1, <1>3, <1>4
  <2>2. u = <<>>
    BY <1>2, <2>1
  <2>3. SubSeq(s, 0 + 1, 0) = <<>> /\ 0 \in 0 .. Len(s)
    BY <1>3
  <2> QED BY <2>2, <2>3 DEF SubSeqs
<1>5. CASE i + 1 <= j
  <2>1. /\ t \in Seq(Chars) /\ Len(t) = j - i
        /\ \A x \in 1 .. j - i : t[x] = s[i + x]
    BY <1>1, <1>3, <1>5
  <2>2. i + k \in 0 .. Len(s) /\ i + m \in 0 .. Len(s)
    BY <1>2, <1>3, <1>5, <2>1
  <2>3. u = SubSeq(s, i + k + 1, i + m)
    <3>1. CASE m < k + 1
      BY <1>1, <1>2, <1>3, <2>1, <2>2, <3>1
    <3>2. CASE k + 1 <= m
      <4> DEFINE v == SubSeq(s, i + k + 1, i + m)
      <4>1. /\ u \in Seq(Chars) /\ Len(u) = m - k
            /\ \A x \in 1 .. m - k : u[x] = t[k + x]
        BY SMTT(20), <1>2, <2>1, <3>2
      <4>2. /\ v \in Seq(Chars) /\ Len(v) = m - k
            /\ \A x \in 1 .. m - k : v[x] = s[i + k + x]
        BY <1>1, <1>2, <1>3, <2>1, <2>2, <3>2
      <4> HIDE DEF v
      <4>3. \A x \in 1 .. m - k : u[x] = v[x]
        <5> TAKE x \in 1 .. m - k
        <5>1. k + x \in 1 .. j - i /\ i + (k + x) = i + k + x
          BY <1>1, <1>2, <2>1, <3>2
        <5> QED BY <2>1, <4>1, <4>2, <5>1
      <4>4. u = v
        BY <4>1, <4>2, <4>3
      <4> QED BY <4>4 DEF v
    <3> QED BY <1>1, <1>2, <3>1, <3>2
  <2> QED BY <2>2, <2>3 DEF SubSeqs
<1> QED BY <1>1, <1>3, <1>4, <1>5

\* A part of a clean text is clean once the spaces around it are gone, and is
\* a part of it.
LEMMA CleanPart ==
    ASSUME NEW s, Clean(s), NEW n \in 0 .. Len(s)
    PROVE  LET t == Strip(SubSeq(s, 1, n))
           IN  Clean(t) /\ t \in SubSeqs(s) /\ Len(t) <= Len(s)
<1> DEFINE p == SubSeq(s, 1, n)
           t == Strip(p)
<1>1. s \in Seq(Chars) /\ Len(s) \in Nat /\ DOMAIN s = 1 .. Len(s)
  BY DEF Clean
<1>2. p \in Seq(Chars) /\ Len(p) = n /\ DOMAIN p = 1 .. n /\ \A i \in 1 .. n : p[i] = s[i]
  BY <1>1
<1> HIDE DEF p
<1>3. CASE t = <<>>
  <2>1. SubSeq(s, 0 + 1, 0) = <<>> /\ 0 \in 0 .. Len(s)
    BY <1>1
  <2>2. <<>> \in SubSeqs(s)
    BY <2>1 DEF SubSeqs
  <2>3. Clean(<<>>) /\ Len(<<>>) <= Len(s)
    BY <1>1 DEF Clean
  <2> HIDE DEF t
  <2> QED BY <1>3, <2>2, <2>3 DEF p, t
<1>4. CASE t # <<>>
  <2>1. PICK a \in DOMAIN p, b \in DOMAIN p :
            a <= b /\ p[a] # Space /\ p[b] # Space /\ t = SubSeq(p, a, b)
    BY <1>2, <1>4, StripShape
  <2>2. a \in 1 .. n /\ b \in 1 .. n /\ n <= Len(s)
    BY <1>1, <1>2, <2>1
  <2>3. /\ t \in Seq(Chars) /\ Len(t) = b - a + 1 /\ DOMAIN t = 1 .. b - a + 1
        /\ \A i \in 1 .. b - a + 1 : t[i] = p[a + i - 1]
    BY <1>2, <2>1, <2>2, SubSeqPlaces
  <2>4. ASSUME NEW i \in 1 .. b - a + 1
        PROVE  a + i - 1 \in 1 .. Len(s) /\ t[i] = s[a + i - 1]
    <3>1. a + i - 1 \in 1 .. n /\ a + i - 1 \in 1 .. Len(s)
      BY <1>1, <2>1, <2>2
    <3> QED BY <1>2, <2>3, <3>1
  <2>5. t = SubSeq(s, a, b)
    <3> DEFINE u == SubSeq(s, a, b)
    <3>1. /\ u \in Seq(Chars) /\ Len(u) = b - a + 1 /\ DOMAIN u = 1 .. b - a + 1
          /\ \A i \in 1 .. b - a + 1 : u[i] = s[a + i - 1]
      BY <1>1, <2>1, <2>2, SubSeqPlaces
    <3> HIDE DEF u, t
    <3>2. t = u
      BY SMTT(20), <2>3, <2>4, <3>1
    <3> QED BY <3>2 DEF u
  <2> HIDE DEF t
  <2>6. t \in SubSeqs(s)
    <3>1. a - 1 \in 0 .. Len(s) /\ b \in 0 .. Len(s) /\ a - 1 + 1 = a
      BY <1>1, <2>2
    <3> QED BY <2>5, <3>1 DEF SubSeqs
  <2>7. \A i \in DOMAIN t : Folded[t[i]] = t[i]
    BY <1>1, <2>3, <2>4 DEF Clean
  <2>8. ASSUME NEW i \in DOMAIN t, t[i] = Space
        PROVE  i # 1 /\ i # Len(t) /\ t[i + 1] # Space
    <3>1. i # 1
      <4>1. i = 1 => t[i] = p[a]
        BY <1>2, <2>2, <2>3, <2>4
      <4> QED BY <2>1, <2>8, <4>1
    <3>2. i # Len(t)
      <4>1. i = Len(t) => a + i - 1 = b
        BY <2>2, <2>3
      <4>2. i = Len(t) => t[i] = p[b]
        BY <2>3, <4>1
      <4> QED BY <2>1, <2>8, <4>2
    <3>3. i + 1 \in 1 .. b - a + 1 /\ a + (i + 1) - 1 = (a + i - 1) + 1
      BY <2>2, <2>3, <3>2
    <3>4. t[i + 1] = s[(a + i - 1) + 1] /\ s[a + i - 1] = Space /\ a + i - 1 \in DOMAIN s
      BY <1>1, <2>3, <2>4, <2>8, <3>3
    <3>5. t[i + 1] # Space
      BY <3>4 DEF Clean
    <3> QED BY <3>1, <3>2, <3>5
  <2>9. Len(t) <= Len(s)
    BY <1>1, <2>2, <2>3
  <2> QED BY <2>3, <2>6, <2>7, <2>8, <2>9 DEF Clean, p, t
<1> QED BY <1>3, <1>4

\* The longest common prefix is a prefix of each.
LEMMA LongestIsPrefix ==
    ASSUME NEW S, S # {}, S \subseteq Seq(Chars)
    PROVE  \A q \in S : \E n \in 0 .. Len(q) : LongestCommonPrefix(S) = SubSeq(q, 1, n)
<1> DEFINE C == CommonPrefixes(S)
<1>1. PICK e \in S : e \in Seq(Chars)
  OBVIOUS
<1>2. Len(e) \in Nat
  BY <1>1
<1>3. ASSUME NEW p \in C, NEW q \in S
      PROVE  /\ p \in Seq(Chars) /\ Len(p) \in 0 .. Len(q)
             /\ p = SubSeq(q, 1, Len(p))
  <2>1. PICK r \in S : \E m \in 0 .. Len(r) : p = SubSeq(r, 1, m)
    BY DEF CommonPrefixes, Prefixes
  <2>2. p \in Seq(Chars) /\ Len(p) \in Nat /\ q \in Seq(Chars)
    BY <2>1
  <2>3. Len(p) <= Len(q) /\ SubSeq(p, 1, Len(p)) = SubSeq(q, 1, Len(p))
    BY DEF CommonPrefixes, IsPrefix
  <2>4. SubSeq(p, 1, Len(p)) = p
    BY <2>2
  <2> QED BY <2>2, <2>3, <2>4
<1>4. <<>> \in C
  <2>1. SubSeq(e, 1, 0) = <<>> /\ 0 \in 0 .. Len(e)
    BY <1>1, <1>2
  <2>2. <<>> \in Prefixes(e)
    BY <2>1 DEF Prefixes
  <2>3. \A q \in S : IsPrefix(<<>>, q)
    <3> TAKE q \in S
    <3>1. q \in Seq(Chars) /\ Len(<<>>) = 0 /\ Len(q) \in Nat
      OBVIOUS
    <3>2. SubSeq(<<>>, 1, 0) = <<>> /\ SubSeq(q, 1, 0) = <<>>
      BY <3>1
    <3> QED BY <3>1, <3>2 DEF IsPrefix
  <2> QED BY <1>1, <2>2, <2>3 DEF CommonPrefixes
<1> DEFINE I == {Len(p) : p \in C}
<1>5. I \subseteq 0 .. Len(e) /\ I # {}
  <2> HIDE DEF C
  <2> QED BY <1>1, <1>3, <1>4
<1>6. Max(I) \in I /\ \A i \in I : i <= Max(I)
  <2> HIDE DEF I
  <2> QED BY <1>2, <1>5, GreatestNumber
<1>7. PICK p \in C : Len(p) = Max(I)
  BY <1>6
<1>8. \A o \in C : Len(o) <= Len(p)
  BY <1>6, <1>7
<1>9. LongestCommonPrefix(S) \in C
  BY <1>8, Zenon DEF LongestCommonPrefix
<1> HIDE DEF C
<1> QED BY <1>3, <1>9

\* The query that several rules share misses no text that one of them matches.
LEMMA BatchMisses ==
    ASSUME NEW queries, \A q \in queries : Clean(q) /\ Len(q) <= QueryLength,
           NEW q \in queries, NEW text \in Seq(Chars), Like(q, text)
    PROVE  Batched(queries, text)
<1> DEFINE indexed == {k \in queries : UsesIndex(k)}
           shared == Strip(LongestCommonPrefix(indexed))
           phrases == IF UsesIndex(shared) THEN {Normalized(shared)} ELSE indexed
<1>1. CASE ~UsesIndex(q)
  BY <1>1 DEF Batched
<1>2. CASE UsesIndex(q)
  <2>1. q \in indexed /\ indexed \subseteq Seq(Chars)
    BY <1>2 DEF Clean
  <2>2. indexed # {} /\ (\E k \in phrases : InIndex(k, text)) => Batched(queries, text)
    BY DEF Batched
  <2>3. CASE ~UsesIndex(shared)
    <3>1. q \in phrases /\ InIndex(q, text)
      BY <1>2, <2>1, <2>3 DEF InIndex, Like
    <3> HIDE DEF indexed, phrases
    <3> QED BY <2>1, <2>2, <3>1
  <2>4. CASE UsesIndex(shared)
    <3>1. PICK n \in 0 .. Len(q) : LongestCommonPrefix(indexed) = SubSeq(q, 1, n)
      <4> HIDE DEF indexed
      <4> QED BY <2>1, LongestIsPrefix
    <3>2. Clean(shared) /\ shared \in SubSeqs(q) /\ Len(shared) <= Len(q)
      BY <3>1, CleanPart
    <3>3. Len(shared) <= QueryLength
      <4>1. Len(shared) \in Nat /\ Len(q) \in Nat /\ QueryLength \in Nat
        <5> HIDE DEF shared
        <5> QED BY <3>2, TextAssumption DEF Clean
      <4>2. Len(q) <= QueryLength
        OBVIOUS
      <4> HIDE DEF shared
      <4> QED BY <3>2, <4>1, <4>2
    <3>4. Normalized(shared) = shared
      <4> HIDE DEF shared
      <4> QED BY <3>2, <3>3, NormalizedOfClean
    <3>5. shared \in SubSeqs(text)
      <4> HIDE DEF shared
      <4> QED BY <3>2, PartOfPart DEF Like
    <3>6. shared \in phrases /\ InIndex(shared, text)
      <4> HIDE DEF shared
      <4> QED BY <2>4, <3>4, <3>5 DEF InIndex
    <3> HIDE DEF indexed, phrases, shared
    <3> QED BY <2>1, <2>2, <3>6
  <2> QED BY <2>3, <2>4
<1> QED BY <1>1, <1>2

\* transaction_match_filter finds the texts that contain the query.
LEMMA MatchesIsLike ==
    ASSUME NEW q, NEW r, SearchText[r] \in Seq(Chars)
    PROVE  Matches(q, r) <=> Like(q, SearchText[r])
<1>1. <<>> \in SubSeqs(SearchText[r])
  <2> DEFINE s == SearchText[r]
  <2>1. SubSeq(s, 0 + 1, 0) = <<>> /\ 0 \in 0 .. Len(s)
    OBVIOUS
  <2> QED BY <2>1 DEF SubSeqs
<1> QED BY <1>1 DEF Matches, Like, InIndex

LEMMA SearchTextTyped == \A r \in Rows : SearchText[r] \in Seq(Chars)
<1> TAKE r \in Rows
<1>1. Transaction[r].text \in Seq(Chars)
  BY RowsAssumption
<1>2. SearchText[r] = Collapsed(Transaction[r].text)
  BY DEF SearchText
<1> QED BY <1>1, <1>2, CollapsedClean DEF Clean

-----------------------------------------------------------------------------
(* Selections *)

\* The fields of a limit and of an aggregate.
IsRule(d) ==
    d = [keyword |-> d.keyword, normalized |-> d.normalized, metric |-> d.metric,
         threshold |-> d.threshold, total |-> d.total, scope |-> d.scope,
         links |-> d.links, window |-> d.window, enabled |-> d.enabled]
IsAggregate(d) ==
    d = [keyword |-> d.keyword, normalized |-> d.normalized, scope |-> d.scope,
         links |-> d.links]

\* A selection of cards that there are.
Kept(d, S) == (d.scope = "all_cards" => d.links = {}) /\ d.links \subseteq S

\* The selections, with the rows they are kept in; the cards are those of the
\* active banks.
SelectionsKept ==
    /\ DOMAIN rule = RuleIds
    /\ \A r \in RuleIds :
          rule[r] # None => IsRule(rule[r]) /\ Kept(rule[r], ActiveCards)
    /\ DOMAIN aggregate = AggregateIds
    /\ \A a \in AggregateIds :
          aggregate[a] # None =>
              IsAggregate(aggregate[a]) /\ Kept(aggregate[a], ActiveCards)
    /\ cards = {c \in Cards : BankOf[c] \in active}

\* The fields of a limit that a patch leaves.
LEMMA MergedFields ==
    ASSUME NEW d, IsRule(d), NEW p
    PROVE  LET q == Merged(d, p)
           IN  /\ IsRule(q)
               /\ q.keyword = IF p.keyword = None THEN d.keyword ELSE Strip(p.keyword)
               /\ q.normalized = IF p.keyword = None THEN d.normalized
                                 ELSE Normalized(p.keyword)
               /\ q.metric = Given(p.metric, d.metric)
               /\ q.threshold = IF q.metric = "count"
                                THEN Given(p.threshold, d.threshold) ELSE 1
               /\ q.total = IF q.metric = "count" THEN None ELSE Given(p.total, d.total)
               /\ q.scope = Given(p.scope, d.scope)
               /\ q.links = Given(p.cards, d.links)
               /\ q.window = Given(p.window, d.window)
               /\ q.enabled = Given(p.enabled, d.enabled)
<1> DEFINE metric == Given(p.metric, d.metric)
           threshold == IF metric = "count" THEN Given(p.threshold, d.threshold) ELSE 1
           total == IF metric = "count" THEN None ELSE Given(p.total, d.total)
           l == Limits(d, p)
           keyword == IF p.keyword = None THEN l.keyword ELSE Strip(p.keyword)
           normalized == IF p.keyword = None THEN l.normalized ELSE Normalized(p.keyword)
           scope == Given(p.scope, l.scope)
           window == Given(p.window, l.window)
           enabled == Given(p.enabled, l.enabled)
           chosen == Given(p.cards, l.links)
           q == Merged(d, p)
<1>1. l = [d EXCEPT !.metric = metric, !.threshold = threshold, !.total = total]
  BY DEF Limits
<1>2. q = [l EXCEPT !.keyword = keyword, !.normalized = normalized,
                    !.scope = scope, !.window = window, !.enabled = enabled,
                    !.links = chosen]
  BY DEF Merged
<1> HIDE DEF metric, threshold, total, l, keyword, normalized, scope, window, enabled,
             chosen, q
<1>3. l = [keyword |-> d.keyword, normalized |-> d.normalized, metric |-> metric,
           threshold |-> threshold, total |-> total, scope |-> d.scope,
           links |-> d.links, window |-> d.window, enabled |-> d.enabled]
  BY <1>1, Zenon DEF IsRule
<1>4. /\ l.keyword = d.keyword /\ l.normalized = d.normalized /\ l.scope = d.scope
      /\ l.links = d.links /\ l.window = d.window /\ l.enabled = d.enabled
  BY <1>3
<1>5. q = [keyword |-> keyword, normalized |-> normalized, metric |-> metric,
           threshold |-> threshold, total |-> total, scope |-> scope,
           links |-> chosen, window |-> window, enabled |-> enabled]
  BY <1>2, <1>3, Zenon
<1>6. /\ IsRule(q) /\ q.keyword = keyword /\ q.normalized = normalized
      /\ q.metric = metric /\ q.threshold = threshold /\ q.total = total
      /\ q.scope = scope /\ q.links = chosen /\ q.window = window /\ q.enabled = enabled
  BY <1>5 DEF IsRule
<1> QED BY <1>4, <1>6 DEF metric, threshold, total, keyword, normalized, scope, window,
                          enabled, chosen, q

\* The selections are kept at first, and by every step.
LEMMA SelectionsInit == Init => SelectionsKept
  BY DEF Init, SelectionsKept

\* A limit that is created, patched or deleted.
LEMMA RuleStep ==
    ASSUME SelectionsKept, NEW r \in RuleIds, NEW d,
           rule' = [rule EXCEPT ![r] = d], UNCHANGED <<bank, aggregate>>,
           d # None => IsRule(d) /\ Kept(d, ActiveCards)
    PROVE  SelectionsKept'
<1>1. ActiveCards' = ActiveCards
  BY DEF bank, ActiveCards
<1> QED BY <1>1 DEF SelectionsKept, IsRule, IsAggregate, Kept, bank

LEMMA AggregateStep ==
    ASSUME SelectionsKept, NEW a \in AggregateIds, NEW d,
           aggregate' = [aggregate EXCEPT ![a] = d], UNCHANGED <<bank, rule>>,
           d # None => IsAggregate(d) /\ Kept(d, ActiveCards)
    PROVE  SelectionsKept'
<1>1. ActiveCards' = ActiveCards
  BY DEF bank, ActiveCards
<1> QED BY <1>1 DEF SelectionsKept, IsRule, IsAggregate, Kept, bank

\* A patched limit keeps a selection of cards that there are.
LEMMA PatchKept ==
    ASSUME NEW d, IsRule(d), Kept(d, ActiveCards), NEW p, PatchSelectable(d, p)
    PROVE  IsRule(Merged(d, p)) /\ Kept(Merged(d, p), ActiveCards)
<1> DEFINE q == Merged(d, p)
<1>1. /\ IsRule(q)
      /\ q.scope = Given(p.scope, d.scope)
      /\ q.links = Given(p.cards, d.links)
  BY MergedFields
<1> HIDE DEF q
<1>2. ASSUME p.scope # None \/ p.cards # None PROVE Kept(q, ActiveCards)
  <2>1. Selectable(q.scope, q.links)
    BY <1>1, <1>2 DEF PatchSelectable
  <2> QED BY <2>1 DEF Selectable, Kept
<1>3. ASSUME p.scope = None, p.cards = None PROVE Kept(q, ActiveCards)
  BY <1>1, <1>3 DEF Given, Kept
<1> QED BY <1>1, <1>2, <1>3 DEF q

\* The cascade of disconnect takes the removed cards from every selection.
LEMMA UnlinkedRow ==
    ASSUME NEW d, IsRule(d) \/ IsAggregate(d), NEW gone, NEW S, Kept(d, S)
    PROVE  LET e == [d EXCEPT !.links = @ \ gone]
           IN  /\ IsRule(d) => IsRule(e)
               /\ IsAggregate(d) => IsAggregate(e)
               /\ Kept(e, S \ gone)
<1>1. SUFFICES ASSUME NEW links, links = d.links \ gone,
                      NEW e, e = [d EXCEPT !.links = links]
               PROVE  /\ IsRule(d) => IsRule(e)
                      /\ IsAggregate(d) => IsAggregate(e)
                      /\ Kept(e, S \ gone)
  OBVIOUS
<1>2. CASE IsRule(d)
  <2>1. e = [keyword |-> d.keyword, normalized |-> d.normalized, metric |-> d.metric,
             threshold |-> d.threshold, total |-> d.total, scope |-> d.scope,
             links |-> links, window |-> d.window, enabled |-> d.enabled]
    BY <1>1, <1>2, Zenon DEF IsRule
  <2>2. IsRule(e) /\ e.scope = d.scope /\ e.links = links
    BY <2>1 DEF IsRule
  <2>3. ~IsAggregate(d)
    BY <1>2 DEF IsRule, IsAggregate
  <2> QED BY <1>1, <2>2, <2>3 DEF Kept
<1>3. CASE IsAggregate(d)
  <2>1. e = [keyword |-> d.keyword, normalized |-> d.normalized, scope |-> d.scope,
             links |-> links]
    BY <1>1, <1>3, Zenon DEF IsAggregate
  <2>2. IsAggregate(e) /\ e.scope = d.scope /\ e.links = links
    BY <2>1 DEF IsAggregate
  <2>3. ~IsRule(d)
    BY <1>3 DEF IsRule, IsAggregate
  <2> QED BY <1>1, <2>2, <2>3 DEF Kept
<1> QED BY <1>2, <1>3

LEMMA UnlinkedRows ==
    ASSUME NEW rows, NEW gone, NEW S, NEW x \in DOMAIN rows,
           rows[x] # None => (IsRule(rows[x]) \/ IsAggregate(rows[x])) /\ Kept(rows[x], S)
    PROVE  LET e == Unlinked(rows, gone)[x]
           IN  e # None => /\ rows[x] # None
                           /\ IsRule(rows[x]) => IsRule(e)
                           /\ IsAggregate(rows[x]) => IsAggregate(e)
                           /\ Kept(e, S \ gone)
<1>1. CASE rows[x] = None
  BY <1>1 DEF Unlinked
<1>2. CASE rows[x] # None
  <2>1. Unlinked(rows, gone)[x] = [rows[x] EXCEPT !.links = @ \ gone]
    BY <1>2 DEF Unlinked
  <2> QED BY SMTT(20), <1>2, <2>1, UnlinkedRow
<1> QED BY <1>1, <1>2

LEMMA SelectionsStep == SelectionsKept /\ [Next]_vars => SelectionsKept'
<1> SUFFICES ASSUME SelectionsKept, [Next]_vars PROVE SelectionsKept'
  OBVIOUS
<1>1. ASSUME NEW r \in RuleIds, NEW p \in Creations, CreateRule(r, p)
      PROVE SelectionsKept'
  <2> DEFINE d == [keyword    |-> Strip(p.keyword),
                   normalized |-> Normalized(p.keyword),
                   metric     |-> p.metric,
                   threshold  |-> Given(p.threshold, 1),
                   total      |-> p.total,
                   scope      |-> p.scope,
                   links      |-> p.cards,
                   window     |-> p.window,
                   enabled    |-> p.enabled]
  <2>1. IsRule(d) /\ d.scope = p.scope /\ d.links = p.cards
    BY DEF IsRule
  <2>2. rule' = [rule EXCEPT ![r] = d] /\ UNCHANGED <<bank, aggregate>>
    BY <1>1, Zenon DEF CreateRule
  <2>3. Selectable(p.scope, p.cards)
    BY <1>1, Zenon DEF CreateRule
  <2> HIDE DEF d
  <2>4. Kept(d, ActiveCards)
    BY <2>1, <2>3 DEF Selectable, Kept
  <2> QED BY <2>1, <2>2, <2>4, RuleStep
<1>2. ASSUME NEW r \in RuleIds, NEW p \in Patches, UpdateRule(r, p)
      PROVE SelectionsKept'
  <2>1. rule' = [rule EXCEPT ![r] = Merged(rule[r], p)] /\ UNCHANGED <<bank, aggregate>>
    BY <1>2, Zenon DEF UpdateRule
  <2>2. rule[r] # None /\ PatchSelectable(rule[r], p)
    BY <1>2, Zenon DEF UpdateRule
  <2>3. IsRule(rule[r]) /\ Kept(rule[r], ActiveCards)
    BY <2>2 DEF SelectionsKept
  <2>4. IsRule(Merged(rule[r], p)) /\ Kept(Merged(rule[r], p), ActiveCards)
    BY <2>2, <2>3, PatchKept
  <2> QED BY <2>1, <2>4, RuleStep
<1>3. ASSUME NEW r \in RuleIds, DeleteRule(r) PROVE SelectionsKept'
  BY <1>3, RuleStep DEF DeleteRule
<1>4. ASSUME NEW a \in AggregateIds, NEW p \in AggregateCreations, CreateAggregate(a, p)
      PROVE SelectionsKept'
  <2> DEFINE d == [keyword    |-> Strip(p.keyword),
                   normalized |-> Normalized(p.keyword),
                   scope      |-> p.scope,
                   links      |-> p.cards]
  <2>1. IsAggregate(d) /\ d.scope = p.scope /\ d.links = p.cards
    BY DEF IsAggregate
  <2>2. aggregate' = [aggregate EXCEPT ![a] = d] /\ UNCHANGED <<bank, rule>>
    BY <1>4, Zenon DEF CreateAggregate
  <2>3. Selectable(p.scope, p.cards)
    BY <1>4, Zenon DEF CreateAggregate
  <2> HIDE DEF d
  <2>4. Kept(d, ActiveCards)
    BY <2>1, <2>3 DEF Selectable, Kept
  <2> QED BY <2>1, <2>2, <2>4, AggregateStep
<1>5. ASSUME NEW a \in AggregateIds, NEW p \in AggregatePatches, UpdateAggregate(a, p)
      PROVE SelectionsKept'
  <2> DEFINE old == aggregate[a]
             ids == IF p.cards # None THEN p.cards
                    ELSE IF p.scope = "all_cards" THEN {} ELSE old.links
             chosen == p.scope # None \/ p.cards # None
             d == [keyword    |-> IF p.keyword = None THEN old.keyword
                                  ELSE Strip(p.keyword),
                   normalized |-> IF p.keyword = None THEN old.normalized
                                  ELSE Normalized(p.keyword),
                   scope      |-> Given(p.scope, old.scope),
                   links      |-> IF chosen THEN ids ELSE old.links]
  <2>1. /\ IsAggregate(d)
        /\ d.scope = Given(p.scope, old.scope)
        /\ d.links = IF chosen THEN ids ELSE old.links
    BY DEF IsAggregate
  <2>2. aggregate' = [aggregate EXCEPT ![a] = d] /\ UNCHANGED <<bank, rule>>
    BY <1>5, Zenon DEF UpdateAggregate
  <2>3. old # None /\ (chosen => Selectable(Given(p.scope, old.scope), ids))
    BY <1>5, Zenon DEF UpdateAggregate
  <2>4. Kept(old, ActiveCards)
    BY <2>3 DEF SelectionsKept
  <2> HIDE DEF d, old, ids
  <2>5. Kept(d, ActiveCards)
    BY <2>1, <2>3, <2>4 DEF Selectable, Kept, Given
  <2> QED BY <2>1, <2>2, <2>5, AggregateStep
<1>6. ASSUME NEW a \in AggregateIds, DeleteAggregate(a) PROVE SelectionsKept'
  BY <1>6, AggregateStep DEF DeleteAggregate
<1>7. ASSUME NEW b \in Banks, Link(b) PROVE SelectionsKept'
  <2>1. cards' = {c \in Cards : BankOf[c] \in active'}
    BY <1>7 DEF Link, SelectionsKept, OfBank
  <2>2. ActiveCards \subseteq ActiveCards'
    BY <1>7 DEF Link, ActiveCards
  <2>3. UNCHANGED <<rule, aggregate>>
    BY <1>7 DEF Link
  <2> QED BY <2>1, <2>2, <2>3 DEF SelectionsKept, IsRule, IsAggregate, Kept
<1>8. ASSUME NEW b \in Banks, Disconnect(b) PROVE SelectionsKept'
  <2>1. cards' = {c \in Cards : BankOf[c] \in active'}
    BY <1>8 DEF Disconnect, SelectionsKept, OfBank
  <2>2. ActiveCards' = ActiveCards \ OfBank(b)
    BY <1>8, <2>1 DEF Disconnect, ActiveCards, SelectionsKept, OfBank
  <2>3. /\ rule' = Unlinked(rule, OfBank(b))
        /\ aggregate' = Unlinked(aggregate, OfBank(b))
    BY <1>8 DEF Disconnect
  <2>4. DOMAIN rule' = RuleIds /\ DOMAIN aggregate' = AggregateIds
    BY <2>3 DEF Unlinked, SelectionsKept
  <2>5. \A r \in RuleIds : rule'[r] # None =>
            IsRule(rule'[r]) /\ Kept(rule'[r], ActiveCards')
    BY <2>2, <2>3, UnlinkedRows DEF SelectionsKept
  <2>6. \A a \in AggregateIds : aggregate'[a] # None =>
            IsAggregate(aggregate'[a]) /\ Kept(aggregate'[a], ActiveCards')
    BY <2>2, <2>3, UnlinkedRows DEF SelectionsKept
  <2> QED BY <2>1, <2>4, <2>5, <2>6 DEF SelectionsKept, IsRule, IsAggregate, Kept
<1>9. ASSUME UNCHANGED <<bank, rule, aggregate>> PROVE SelectionsKept'
  BY <1>9 DEF SelectionsKept, ActiveCards, bank, IsRule, IsAggregate, Kept
<1>10. ASSUME NEW x \in Rows, Sync(x) PROVE SelectionsKept'
  BY <1>9, <1>10 DEF Sync
<1>11. CASE NextDay
  BY <1>9, <1>11 DEF NextDay
<1>12. CASE UNCHANGED vars
  BY <1>9, <1>12 DEF vars, bank
<1> QED
  BY <1>1, <1>2, <1>3, <1>4, <1>5, <1>6, <1>7, <1>8, <1>10, <1>11, <1>12 DEF Next

\* For any requests of the owner and any banks that come and go, a limit or an
\* aggregate for all cards keeps no selection, and none keeps a removed card
\* (_validate_cards, update_rule, update_aggregate, disconnect).
THEOREM ScopesStayKept == Spec => []ScopeKept
<1>1. SelectionsKept => ScopeKept
  BY DEF SelectionsKept, ScopeKept, Kept
<1> QED BY <1>1, SelectionsInit, SelectionsStep, PTL DEF Spec

-----------------------------------------------------------------------------
(* Types, and what the owner asked for *)

\* A rule is what the owner asked for, without the cards that are gone: those
\* of a linked bank, which is not linked again.
Wished(w, d) ==
    /\ d.keyword = Strip(w.keyword)
    /\ d.metric = w.metric
    /\ w.limit = IF d.metric = "count" THEN d.threshold ELSE d.total
    /\ d.scope = w.scope /\ d.window = w.window /\ d.enabled = w.enabled
    /\ d.links = w.cards \cap ActiveCards
    /\ \A c \in w.cards : BankOf[c] \notin unlinked

\* Every limit is the owner's wish, and every aggregate's keyword is normalized.
WishesKept ==
    /\ active \cap unlinked = {}
    /\ \A r \in RuleIds :
          /\ rule[r] = None <=> wanted[r] = None
          /\ rule[r] # None => Wished(wanted[r], rule[r])
    /\ \A a \in AggregateIds :
          aggregate[a] # None => aggregate[a].normalized = Normalized(aggregate[a].keyword)

DefinitionsInv == TypeOK /\ SelectionsKept /\ WishesKept

\* A window that the request model accepts is one that the table accepts.
LEMMA WindowIsChecked ==
    ASSUME NEW w \in Window, WindowValid(w)
    PROVE  WindowChecked(w)
  BY NoneAssumption DEF Window, WindowValid, WindowChecked

LEMMA TextTyped ==
    ASSUME NEW s \in Seq(Chars)
    PROVE  Strip(s) \in Seq(Chars) /\ Normalized(s) \in Seq(Chars)
  BY StripTyped, NormalizedTyped DEF Clean

\* The cards that can be selected are cards of linked banks.
LEMMA ActiveCardsLinked ==
    ASSUME DefinitionsInv, NEW ids, ids \subseteq ActiveCards
    PROVE  /\ ids \subseteq Cards /\ ids = ids \cap ActiveCards
           /\ \A c \in ids : BankOf[c] \notin unlinked
  BY DEF DefinitionsInv, TypeOK, WishesKept, ActiveCards

\* A limit that is created, and one that is patched, is what the owner asked for.
LEMMA CreatedRule ==
    ASSUME DefinitionsInv, NEW p \in Creation, Valid(p), Selectable(p.scope, p.cards)
    PROVE  LET w == Wanted(NothingWanted, p)
               d == [keyword    |-> Strip(p.keyword),
                     normalized |-> Normalized(p.keyword),
                     metric     |-> p.metric,
                     threshold  |-> Given(p.threshold, 1),
                     total      |-> p.total,
                     scope      |-> p.scope,
                     links      |-> p.cards,
                     window     |-> p.window,
                     enabled    |-> p.enabled]
           IN  d \in Rule /\ Checked(d) /\ w \in Wish /\ Wished(w, d)
<1> DEFINE w == Wanted(NothingWanted, p)
           d == [keyword    |-> Strip(p.keyword),
                 normalized |-> Normalized(p.keyword),
                 metric     |-> p.metric,
                 threshold  |-> Given(p.threshold, 1),
                 total      |-> p.total,
                 scope      |-> p.scope,
                 links      |-> p.cards,
                 window     |-> p.window,
                 enabled    |-> p.enabled]
<1>1. /\ p.keyword \in Seq(Chars) /\ p.metric \in Metrics
      /\ p.threshold \in Nat \cup {None} /\ p.total \in Nat \cup {None}
      /\ p.scope \in Scopes /\ p.cards \in SUBSET Cards
      /\ p.window \in Window /\ p.enabled \in BOOLEAN
  BY DEF Creation
<1>2. /\ p.keyword # None /\ p.metric # None /\ p.scope # None /\ p.cards # None
      /\ p.window # None /\ p.enabled # None
  BY <1>1, NoneAssumption
<1>3. w = [keyword |-> p.keyword, metric |-> p.metric, limit |-> LimitOf(p),
           scope |-> p.scope, cards |-> p.cards, window |-> p.window,
           enabled |-> p.enabled]
  <2>1. LimitOf(p) # None
    BY <1>1 DEF LimitOf, Valid, Metrics
  <2> QED BY <1>2, <2>1 DEF Wanted, Given
<1>4. Strip(p.keyword) \in Seq(Chars) /\ Normalized(p.keyword) \in Seq(Chars)
  BY <1>1, TextTyped
<1>5. /\ Given(p.threshold, 1) \in 1 .. MaxThreshold
      /\ LimitOf(p) \in Nat
      /\ p.metric = "count" => p.total = None /\ LimitOf(p) = Given(p.threshold, 1)
      /\ p.metric = "net_total_usd" => p.total \in 1 .. MaxCents /\ LimitOf(p) = p.total
  BY <1>1, BoundsAssumption DEF Valid, Given, LimitOf, Metrics
<1>6. WindowChecked(p.window)
  BY <1>1, <1>2, WindowIsChecked DEF Valid
<1>7. Given(p.threshold, 1) \in Nat
  BY <1>5, BoundsAssumption
<1>8. d \in Rule
  BY <1>1, <1>4, <1>7 DEF Rule
<1>9. Checked(d)
  BY <1>1, <1>5, <1>6 DEF Checked, Metrics
<1>10. w \in Wish
  BY <1>1, <1>3, <1>5 DEF Wish
<1>11. Wished(w, d)
  <2>1. p.cards \subseteq ActiveCards
    BY DEF Selectable
  <2>2. p.cards = p.cards \cap ActiveCards /\ \A c \in p.cards : BankOf[c] \notin unlinked
    BY <2>1, ActiveCardsLinked
  <2>3. LimitOf(p) = IF p.metric = "count" THEN Given(p.threshold, 1) ELSE p.total
    BY <1>1, <1>5 DEF Metrics
  <2> QED BY <1>3, <2>2, <2>3 DEF Wished
<1> QED BY <1>8, <1>9, <1>10, <1>11

LEMMA PatchedRule ==
    ASSUME DefinitionsInv, NEW d \in Rule, Checked(d), NEW w \in Wish, Wished(w, d),
           NEW p \in Patch, Valid(p), PatchSelectable(d, p),
           p.threshold # None => Given(p.metric, d.metric) = "count",
           p.total # None => Given(p.metric, d.metric) = "net_total_usd"
    PROVE  LET q == Merged(d, p)
               v == Wanted(w, p)
           IN  q \in Rule /\ Checked(q) /\ v \in Wish /\ Wished(v, q)
<1> DEFINE q == Merged(d, p)
           v == Wanted(w, p)
           metric == Given(p.metric, d.metric)
<1>1. /\ p.keyword \in Seq(Chars) \cup {None} /\ p.metric \in Metrics \cup {None}
      /\ p.threshold \in Nat \cup {None} /\ p.total \in Nat \cup {None}
      /\ p.scope \in Scopes \cup {None} /\ p.cards \in (SUBSET Cards) \cup {None}
      /\ p.window \in Window \cup {None} /\ p.enabled \in BOOLEAN \cup {None}
  BY DEF Patch
<1>2. /\ d.keyword \in Seq(Chars) /\ d.normalized \in Seq(Chars) /\ d.metric \in Metrics
      /\ d.threshold \in Nat /\ d.total \in Nat \cup {None}
      /\ d.scope \in Scopes /\ d.links \in SUBSET Cards
      /\ d.window \in Window /\ d.enabled \in BOOLEAN
      /\ IsRule(d)
  BY DEF Rule, IsRule
<1>3. /\ w.keyword \in Seq(Chars) /\ w.metric \in Metrics /\ w.limit \in Nat
      /\ w.scope \in Scopes /\ w.cards \in SUBSET Cards
      /\ w.window \in Window /\ w.enabled \in BOOLEAN
  BY DEF Wish
<1>4. /\ IsRule(q)
      /\ q.keyword = IF p.keyword = None THEN d.keyword ELSE Strip(p.keyword)
      /\ q.normalized = IF p.keyword = None THEN d.normalized
                        ELSE Normalized(p.keyword)
      /\ q.metric = metric
      /\ q.threshold = IF q.metric = "count" THEN Given(p.threshold, d.threshold) ELSE 1
      /\ q.total = IF q.metric = "count" THEN None ELSE Given(p.total, d.total)
      /\ q.scope = Given(p.scope, d.scope)
      /\ q.links = Given(p.cards, d.links)
      /\ q.window = Given(p.window, d.window)
      /\ q.enabled = Given(p.enabled, d.enabled)
  BY <1>2, MergedFields
<1>5. /\ v.keyword = IF p.keyword = None THEN w.keyword ELSE p.keyword
      /\ v.metric = Given(p.metric, w.metric)
      /\ v.limit = Given(LimitOf(p), w.limit)
      /\ v.scope = Given(p.scope, w.scope)
      /\ v.cards = Given(p.cards, w.cards)
      /\ v.window = Given(p.window, w.window)
      /\ v.enabled = Given(p.enabled, w.enabled)
      /\ v = [keyword |-> v.keyword, metric |-> v.metric, limit |-> v.limit,
              scope |-> v.scope, cards |-> v.cards, window |-> v.window,
              enabled |-> v.enabled]
  BY DEF Wanted
<1>6. /\ d.keyword = Strip(w.keyword) /\ d.metric = w.metric
      /\ w.limit = IF d.metric = "count" THEN d.threshold ELSE d.total
      /\ d.scope = w.scope /\ d.window = w.window /\ d.enabled = w.enabled
      /\ d.links = w.cards \cap ActiveCards
      /\ \A c \in w.cards : BankOf[c] \notin unlinked
  BY DEF Wished
<1> HIDE DEF q, v
<1>7. /\ q.keyword \in Seq(Chars) /\ q.normalized \in Seq(Chars)
      /\ v.keyword \in Seq(Chars) /\ q.keyword = Strip(v.keyword)
  BY <1>1, <1>2, <1>3, <1>4, <1>5, <1>6, TextTyped
<1>8. /\ metric \in Metrics /\ q.metric = v.metric /\ v.metric \in Metrics
      /\ q.scope \in Scopes /\ q.scope = v.scope
      /\ q.window \in Window /\ q.window = v.window
      /\ q.enabled \in BOOLEAN /\ q.enabled = v.enabled
      /\ q.links \in SUBSET Cards /\ v.cards \in SUBSET Cards
  BY <1>1, <1>2, <1>3, <1>4, <1>5, <1>6 DEF Given
<1>9. ASSUME metric = "count"
      PROVE  /\ q.threshold \in 1 .. MaxThreshold /\ q.total = None
             /\ v.limit = q.threshold
  <2>1. p.total = None /\ q.total = None /\ q.threshold = Given(p.threshold, d.threshold)
    BY <1>1, <1>4, <1>9
  <2>2. CASE p.threshold = None
    <3>1. d.metric = "count" /\ d.threshold \in 1 .. MaxThreshold
      BY <1>9, <2>1, <2>2 DEF Valid, Given, Metrics, Checked
    <3>2. v.limit = d.threshold
      BY <1>5, <1>6, <2>1, <2>2, <3>1 DEF Given, LimitOf
    <3> QED BY <2>1, <2>2, <3>1, <3>2 DEF Given
  <2>3. CASE p.threshold # None
    <3>1. q.threshold = p.threshold /\ v.limit = p.threshold
      BY <1>5, <2>1, <2>3 DEF Given, LimitOf
    <3>2. p.threshold \in 1 .. MaxThreshold
      BY <2>3 DEF Valid
    <3> QED BY <2>1, <3>1, <3>2
  <2> QED BY <2>2, <2>3
<1>10. ASSUME metric = "net_total_usd"
       PROVE  /\ q.threshold = 1 /\ q.total \in 1 .. MaxCents
              /\ v.limit = q.total
  <2>1. p.threshold = None /\ q.threshold = 1 /\ q.total = Given(p.total, d.total)
    BY <1>1, <1>4, <1>10
  <2>2. CASE p.total = None
    <3>1. d.metric = "net_total_usd" /\ d.total \in 1 .. MaxCents
      BY <1>10, <2>1, <2>2 DEF Valid, Given, Metrics, Checked
    <3>2. v.limit = d.total
      BY <1>5, <1>6, <2>1, <2>2, <3>1 DEF Given, LimitOf
    <3> QED BY <2>1, <2>2, <3>1, <3>2 DEF Given
  <2>3. CASE p.total # None
    <3>1. q.total = p.total /\ v.limit = p.total
      BY <1>5, <2>1, <2>3 DEF Given, LimitOf
    <3>2. p.total \in 1 .. MaxCents
      BY <2>3 DEF Valid
    <3> QED BY <2>1, <3>1, <3>2
  <2> QED BY <2>2, <2>3
<1>11. /\ q.threshold \in 1 .. MaxThreshold /\ q.threshold \in Nat
       /\ q.total \in Nat \cup {None} /\ v.limit \in Nat
       /\ \/ q.metric = "count" /\ q.total = None
          \/ q.metric = "net_total_usd" /\ q.total \in 1 .. MaxCents
       /\ v.limit = IF q.metric = "count" THEN q.threshold ELSE q.total
  BY <1>4, <1>8, <1>9, <1>10, BoundsAssumption DEF Metrics
<1>12. WindowChecked(q.window)
  <2>1. CASE p.window = None
    BY <1>4, <2>1 DEF Given, Checked
  <2>2. CASE p.window # None
    <3>1. q.window = p.window /\ p.window \in Window /\ WindowValid(p.window)
      BY <1>1, <1>4, <2>2 DEF Given, Valid
    <3> QED BY <3>1, WindowIsChecked
  <2> QED BY <2>1, <2>2
<1>13. q \in Rule
  BY <1>4, <1>7, <1>8, <1>11 DEF Rule, IsRule
<1>14. Checked(q)
  BY <1>8, <1>11, <1>12 DEF Checked
<1>15. v \in Wish
  BY <1>5, <1>7, <1>8, <1>11 DEF Wish
<1>16. q.links = v.cards \cap ActiveCards /\ \A c \in v.cards : BankOf[c] \notin unlinked
  <2>1. CASE p.cards = None
    BY <1>4, <1>5, <1>6, <2>1 DEF Given
  <2>2. CASE p.cards # None
    <3>1. Selectable(Given(p.scope, d.scope), p.cards)
      BY <2>2 DEF PatchSelectable, Given
    <3>2. p.cards \subseteq ActiveCards
      BY <3>1 DEF Selectable
    <3>3. q.links = p.cards /\ v.cards = p.cards
      BY <1>4, <1>5, <2>2 DEF Given
    <3> QED BY <3>2, <3>3, ActiveCardsLinked
  <2> QED BY <2>1, <2>2
<1>17. Wished(v, q)
  BY <1>7, <1>8, <1>11, <1>16 DEF Wished
<1> QED BY <1>13, <1>14, <1>15, <1>17 DEF q, v

\* The limits are what the owner asked for at first.
LEMMA InvInit == Init => DefinitionsInv
<1> SUFFICES ASSUME Init PROVE DefinitionsInv
  OBVIOUS
<1>1. TypeOK
  <2>1. active \subseteq Banks /\ unlinked \subseteq Banks /\ cards \subseteq Cards
        /\ cached \subseteq Rows
    BY RowsAssumption DEF Init
  <2>2. /\ rule \in [RuleIds -> Rule \cup {None}]
        /\ \A r \in RuleIds : rule[r] = None
        /\ aggregate \in [AggregateIds -> Aggregate \cup {None}]
        /\ wanted \in [RuleIds -> Wish \cup {None}]
    BY DEF Init
  <2>3. today \in 1 .. LastDay /\ edits \in 0 .. MaxEdits /\ syncs \in 0 .. MaxSyncs
    BY BoundsAssumption DEF Init
  <2> QED BY <2>1, <2>2, <2>3 DEF TypeOK
<1>2. WishesKept
  BY DEF Init, WishesKept
<1> QED BY <1>1, <1>2, SelectionsInit DEF DefinitionsInv

\* A rule that is created, patched or deleted.
LEMMA RuleKept ==
    ASSUME DefinitionsInv, NEW r \in RuleIds, NEW d, NEW w,
           rule' = [rule EXCEPT ![r] = d], wanted' = [wanted EXCEPT ![r] = w], Edit,
           UNCHANGED <<bank, cached, aggregate, today, syncs>>,
           \/ d = None /\ w = None
           \/ d \in Rule /\ Checked(d) /\ w \in Wish /\ Wished(w, d)
    PROVE  TypeOK' /\ WishesKept'
<1>1. edits' \in 0 .. MaxEdits
  BY BoundsAssumption DEF Edit, DefinitionsInv, TypeOK
<1>2. /\ rule' \in [RuleIds -> Rule \cup {None}]
      /\ wanted' \in [RuleIds -> Wish \cup {None}]
      /\ \A s \in RuleIds : rule'[s] = IF s = r THEN d ELSE rule[s]
      /\ \A s \in RuleIds : wanted'[s] = IF s = r THEN w ELSE wanted[s]
  BY DEF DefinitionsInv, TypeOK
<1>3. \A s \in RuleIds : rule'[s] # None => Checked(rule'[s])
  BY <1>2 DEF DefinitionsInv, TypeOK
<1>4. TypeOK'
  BY <1>1, <1>2, <1>3 DEF DefinitionsInv, TypeOK, bank
<1>5. \A s \in RuleIds :
         /\ rule'[s] = None <=> wanted'[s] = None
         /\ rule'[s] # None => Wished(wanted'[s], rule'[s])
  BY <1>2, NoneAssumption DEF DefinitionsInv, WishesKept
<1>6. ActiveCards' = ActiveCards
  BY DEF ActiveCards, bank
<1>7. \A s \in RuleIds : rule'[s] # None => Wished(wanted[s], rule[s])'
  BY <1>5, <1>6 DEF Wished, bank
<1> QED BY <1>4, <1>5, <1>7 DEF WishesKept, DefinitionsInv, bank

\* An aggregate that is created, patched or deleted.
LEMMA AggregateKept ==
    ASSUME DefinitionsInv, NEW a \in AggregateIds, NEW d,
           aggregate' = [aggregate EXCEPT ![a] = d], Edit,
           UNCHANGED <<bank, cached, rule, wanted, today, syncs>>,
           d # None => d \in Aggregate /\ d.normalized = Normalized(d.keyword)
    PROVE  TypeOK' /\ WishesKept'
<1>1. edits' \in 0 .. MaxEdits
  BY BoundsAssumption DEF Edit, DefinitionsInv, TypeOK
<1>2. /\ aggregate' \in [AggregateIds -> Aggregate \cup {None}]
      /\ \A s \in AggregateIds : aggregate'[s] = IF s = a THEN d ELSE aggregate[s]
  BY DEF DefinitionsInv, TypeOK
<1>3. TypeOK'
  BY <1>1, <1>2 DEF DefinitionsInv, TypeOK, bank
<1>4. ActiveCards' = ActiveCards
  BY DEF ActiveCards, bank
<1>5. \A s \in RuleIds : rule'[s] # None => Wished(wanted[s], rule[s])'
  BY <1>4 DEF Wished, bank, DefinitionsInv, WishesKept
<1> QED BY <1>2, <1>3, <1>5 DEF WishesKept, DefinitionsInv, bank

\* A keyword is stored as it is given and as it is searched for.
LEMMA NewAggregate ==
    ASSUME NEW k \in Seq(Chars), NEW scope \in Scopes, NEW ids \in SUBSET Cards
    PROVE  LET d == [keyword    |-> Strip(k),
                     normalized |-> Normalized(k),
                     scope      |-> scope,
                     links      |-> ids]
           IN  d \in Aggregate /\ d.normalized = Normalized(d.keyword)
  BY TextTyped, NormalizedAgain DEF Aggregate

\* The selections lose the cards of a bank that is disconnected.
LEMMA UnlinkedRule ==
    ASSUME NEW d \in Rule, NEW gone
    PROVE  LET e == [d EXCEPT !.links = @ \ gone]
           IN  /\ e \in Rule
               /\ Checked(d) => Checked(e)
               /\ e.keyword = d.keyword /\ e.metric = d.metric
               /\ e.threshold = d.threshold /\ e.total = d.total
               /\ e.scope = d.scope /\ e.window = d.window /\ e.enabled = d.enabled
               /\ e.links = d.links \ gone
<1>1. PICK links \in SUBSET Cards : links = d.links \ gone
  BY DEF Rule
<1>2. SUFFICES ASSUME NEW e, e = [d EXCEPT !.links = links]
               PROVE  /\ e \in Rule
                      /\ Checked(d) => Checked(e)
                      /\ e.keyword = d.keyword /\ e.metric = d.metric
                      /\ e.threshold = d.threshold /\ e.total = d.total
                      /\ e.scope = d.scope /\ e.window = d.window /\ e.enabled = d.enabled
                      /\ e.links = links
  BY <1>1
<1> HIDE <1>1
<1>3. /\ e \in Rule
      /\ e.keyword = d.keyword /\ e.metric = d.metric
      /\ e.threshold = d.threshold /\ e.total = d.total
      /\ e.scope = d.scope /\ e.window = d.window /\ e.enabled = d.enabled
      /\ e.links = links
  BY <1>2 DEF Rule
<1> QED BY <1>3 DEF Checked

LEMMA UnlinkedAggregate ==
    ASSUME NEW d \in Aggregate, NEW gone
    PROVE  LET e == [d EXCEPT !.links = @ \ gone]
           IN  /\ e \in Aggregate
               /\ e.keyword = d.keyword /\ e.normalized = d.normalized
  BY DEF Aggregate

\* The cards of a bank that is linked were selected by nobody.
LEMMA LinkKept ==
    ASSUME DefinitionsInv, NEW b \in Banks, Link(b)
    PROVE  TypeOK' /\ WishesKept'
<1>1. TypeOK'
  BY DEF DefinitionsInv, TypeOK, Link, OfBank
<1>2. /\ b \in unlinked /\ unlinked' = unlinked \ {b} /\ active' = active \cup {b}
      /\ UNCHANGED <<rule, aggregate, wanted>>
  BY DEF Link
<1>3. ActiveCards' = ActiveCards \cup OfBank(b)
  <2>1. cards = {c \in Cards : BankOf[c] \in active}
    BY DEF DefinitionsInv, SelectionsKept
  <2> QED BY <1>2, <2>1 DEF Link, OfBank, ActiveCards
<1>4. ASSUME NEW r \in RuleIds, rule[r] # None PROVE Wished(wanted[r], rule[r])'
  <2>1. Wished(wanted[r], rule[r])
    BY <1>4 DEF DefinitionsInv, WishesKept
  <2>2. wanted[r].cards \cap OfBank(b) = {}
    BY <1>2, <2>1 DEF Wished, OfBank
  <2>3. wanted[r].cards \cap ActiveCards' = wanted[r].cards \cap ActiveCards
    BY <1>3, <2>2
  <2> QED BY <1>2, <2>1, <2>3 DEF Wished
<1>5. active' \cap unlinked' = {}
  BY <1>2 DEF DefinitionsInv, WishesKept
<1> QED BY <1>1, <1>2, <1>4, <1>5 DEF DefinitionsInv, WishesKept

\* A bank that is disconnected takes its cards from the limits and from the
\* cards they are evaluated for alike.
LEMMA DisconnectKept ==
    ASSUME DefinitionsInv, NEW b \in Banks, Disconnect(b)
    PROVE  TypeOK' /\ WishesKept'
<1> DEFINE gone == OfBank(b)
<1>1. /\ b \in active /\ active' = active \ {b} /\ cards' = cards \ gone
      /\ cached' \subseteq cached
      /\ rule' = Unlinked(rule, gone)
      /\ aggregate' = Unlinked(aggregate, gone)
      /\ UNCHANGED <<unlinked, wanted, today, edits, syncs>>
  BY DEF Disconnect
<1>2. ActiveCards' = ActiveCards \ gone
  BY <1>1 DEF ActiveCards, DefinitionsInv, SelectionsKept, OfBank
<1> HIDE DEF gone
<1>3. /\ DOMAIN rule' = RuleIds
      /\ \A r \in RuleIds :
            /\ rule[r] = None => rule'[r] = None
            /\ rule[r] # None => rule'[r] = [rule[r] EXCEPT !.links = @ \ gone]
      /\ rule' = [r \in RuleIds |-> rule'[r]]
  BY <1>1, Zenon DEF Unlinked, DefinitionsInv, SelectionsKept
<1>4. /\ DOMAIN aggregate' = AggregateIds
      /\ \A a \in AggregateIds :
            /\ aggregate[a] = None => aggregate'[a] = None
            /\ aggregate[a] # None => aggregate'[a] = [aggregate[a] EXCEPT !.links = @ \ gone]
      /\ aggregate' = [a \in AggregateIds |-> aggregate'[a]]
  BY <1>1, Zenon DEF Unlinked, DefinitionsInv, SelectionsKept
<1>5. ASSUME NEW r \in RuleIds, rule[r] # None
      PROVE  /\ rule'[r] \in Rule /\ rule'[r] # None /\ Checked(rule'[r])
             /\ Wished(wanted[r], rule[r])'
  <2>1. rule[r] \in Rule /\ Checked(rule[r]) /\ Wished(wanted[r], rule[r])
    BY <1>5 DEF DefinitionsInv, TypeOK, WishesKept
  <2>2. rule'[r] = [rule[r] EXCEPT !.links = @ \ gone]
    BY <1>3, <1>5
  <2> DEFINE d == rule[r]
             e == rule'[r]
  <2>3. /\ e \in Rule /\ Checked(e)
        /\ e.keyword = d.keyword /\ e.metric = d.metric
        /\ e.threshold = d.threshold /\ e.total = d.total
        /\ e.scope = d.scope /\ e.window = d.window /\ e.enabled = d.enabled
        /\ e.links = d.links \ gone
    BY <2>1, <2>2, UnlinkedRule
  <2>4. e.links = wanted[r].cards \cap ActiveCards'
    BY <1>2, <2>1, <2>3 DEF Wished
  <2>5. Wished(wanted[r], rule[r])'
    BY <1>1, <2>1, <2>3, <2>4 DEF Wished
  <2> QED BY <2>3, <2>5, NoneAssumption
<1>6. ASSUME NEW a \in AggregateIds, aggregate[a] # None
      PROVE  /\ aggregate'[a] \in Aggregate
             /\ aggregate'[a].normalized = Normalized(aggregate'[a].keyword)
  <2>1. aggregate[a] \in Aggregate /\ aggregate[a].normalized = Normalized(aggregate[a].keyword)
    BY <1>6 DEF DefinitionsInv, TypeOK, WishesKept
  <2>2. aggregate'[a] = [aggregate[a] EXCEPT !.links = @ \ gone]
    BY <1>4, <1>6
  <2>3. /\ aggregate'[a] \in Aggregate
        /\ aggregate'[a].keyword = aggregate[a].keyword
        /\ aggregate'[a].normalized = aggregate[a].normalized
    BY <2>1, <2>2, UnlinkedAggregate
  <2> QED BY <2>1, <2>3
<1>7. rule' \in [RuleIds -> Rule \cup {None}]
  BY <1>3, <1>5
<1>8. aggregate' \in [AggregateIds -> Aggregate \cup {None}]
  BY <1>4, <1>6
<1>9. \A r \in RuleIds : rule'[r] # None => Checked(rule'[r])
  BY <1>3, <1>5
<1>10. TypeOK'
  BY <1>1, <1>7, <1>8, <1>9 DEF DefinitionsInv, TypeOK
<1>11. \A r \in RuleIds :
          /\ rule'[r] = None <=> wanted'[r] = None
          /\ rule'[r] # None => Wished(wanted[r], rule[r])'
  <2> TAKE r \in RuleIds
  <2>1. rule[r] = None <=> wanted[r] = None
    BY DEF DefinitionsInv, WishesKept
  <2>2. rule[r] = None <=> rule'[r] = None
    BY <1>3, <1>5
  <2> QED BY <1>1, <1>5, <2>1, <2>2
<1>12. \A a \in AggregateIds :
          aggregate'[a] # None => aggregate'[a].normalized = Normalized(aggregate'[a].keyword)
  BY <1>4, <1>6
<1>13. active' \cap unlinked' = {}
  BY <1>1 DEF DefinitionsInv, WishesKept
<1> QED BY <1>10, <1>11, <1>12, <1>13 DEF WishesKept

\* Passes and days leave what the owner asked for.
LEMMA UnchangedKept ==
    ASSUME DefinitionsInv, UNCHANGED <<bank, rule, aggregate, wanted, edits>>,
           cached' \subseteq Rows, today' \in 1 .. LastDay, syncs' \in 0 .. MaxSyncs
    PROVE  TypeOK' /\ WishesKept'
<1>1. TypeOK'
  BY DEF DefinitionsInv, TypeOK, bank
<1>2. ActiveCards' = ActiveCards
  BY DEF ActiveCards, bank
<1>3. \A s \in RuleIds : rule'[s] # None => Wished(wanted[s], rule[s])'
  BY <1>2 DEF Wished, bank, DefinitionsInv, WishesKept
<1> QED BY <1>1, <1>3 DEF WishesKept, DefinitionsInv, bank

\* The limits stay what the owner asked for.
LEMMA InvStep == DefinitionsInv /\ [Next]_vars => DefinitionsInv'
<1> SUFFICES ASSUME DefinitionsInv, [Next]_vars PROVE TypeOK' /\ WishesKept'
  BY SelectionsStep DEF DefinitionsInv
<1>1. ASSUME NEW r \in RuleIds, NEW p \in Creations, CreateRule(r, p)
      PROVE TypeOK' /\ WishesKept'
  <2> DEFINE d == [keyword    |-> Strip(p.keyword),
                   normalized |-> Normalized(p.keyword),
                   metric     |-> p.metric,
                   threshold  |-> Given(p.threshold, 1),
                   total      |-> p.total,
                   scope      |-> p.scope,
                   links      |-> p.cards,
                   window     |-> p.window,
                   enabled    |-> p.enabled]
             w == Wanted(NothingWanted, p)
  <2>1. /\ rule' = [rule EXCEPT ![r] = d] /\ wanted' = [wanted EXCEPT ![r] = w]
        /\ Edit /\ UNCHANGED <<bank, cached, aggregate, today, syncs>>
        /\ Valid(p) /\ Selectable(p.scope, p.cards)
    BY <1>1, Zenon DEF CreateRule
  <2>2. p \in Creation
    BY RequestsAssumption
  <2>3. d \in Rule /\ Checked(d) /\ w \in Wish /\ Wished(w, d)
    BY <2>1, <2>2, CreatedRule, Zenon
  <2> HIDE DEF d, w
  <2> QED BY <2>1, <2>3, RuleKept
<1>2. ASSUME NEW r \in RuleIds, NEW p \in Patches, UpdateRule(r, p)
      PROVE TypeOK' /\ WishesKept'
  <2> DEFINE d == Merged(rule[r], p)
             w == Wanted(wanted[r], p)
  <2>1. /\ rule' = [rule EXCEPT ![r] = d] /\ wanted' = [wanted EXCEPT ![r] = w]
        /\ Edit /\ UNCHANGED <<bank, cached, aggregate, today, syncs>>
        /\ Valid(p) /\ PatchSelectable(rule[r], p)
        /\ p.threshold # None => Given(p.metric, rule[r].metric) = "count"
        /\ p.total # None => Given(p.metric, rule[r].metric) = "net_total_usd"
        /\ rule[r] # None
    BY <1>2, Zenon DEF UpdateRule
  <2>2. p \in Patch
    BY RequestsAssumption
  <2>3. rule[r] \in Rule /\ Checked(rule[r]) /\ wanted[r] \in Wish /\ Wished(wanted[r], rule[r])
    BY <2>1 DEF DefinitionsInv, TypeOK, WishesKept
  <2>4. d \in Rule /\ Checked(d) /\ w \in Wish /\ Wished(w, d)
    BY <2>1, <2>2, <2>3, PatchedRule, Zenon
  <2> HIDE DEF d, w
  <2> QED BY <2>1, <2>4, RuleKept
<1>3. ASSUME NEW r \in RuleIds, DeleteRule(r) PROVE TypeOK' /\ WishesKept'
  BY <1>3, RuleKept DEF DeleteRule
<1>4. ASSUME NEW a \in AggregateIds, NEW p \in AggregateCreations, CreateAggregate(a, p)
      PROVE TypeOK' /\ WishesKept'
  <2> DEFINE d == [keyword    |-> Strip(p.keyword),
                   normalized |-> Normalized(p.keyword),
                   scope      |-> p.scope,
                   links      |-> p.cards]
  <2>1. /\ aggregate' = [aggregate EXCEPT ![a] = d] /\ Edit
        /\ UNCHANGED <<bank, cached, rule, wanted, today, syncs>>
    BY <1>4, Zenon DEF CreateAggregate
  <2>2. p.keyword \in Seq(Chars) /\ p.scope \in Scopes /\ p.cards \in SUBSET Cards
    BY RequestsAssumption
  <2>3. d \in Aggregate /\ d.normalized = Normalized(d.keyword)
    BY <2>2, NewAggregate, Zenon
  <2> HIDE DEF d
  <2> QED BY <2>1, <2>3, AggregateKept
<1>5. ASSUME NEW a \in AggregateIds, NEW p \in AggregatePatches, UpdateAggregate(a, p)
      PROVE TypeOK' /\ WishesKept'
  <2> DEFINE old == aggregate[a]
             ids == IF p.cards # None THEN p.cards
                    ELSE IF p.scope = "all_cards" THEN {} ELSE old.links
             chosen == p.scope # None \/ p.cards # None
             scope == Given(p.scope, old.scope)
             links == IF chosen THEN ids ELSE old.links
             d == [keyword    |-> IF p.keyword = None THEN old.keyword
                                  ELSE Strip(p.keyword),
                   normalized |-> IF p.keyword = None THEN old.normalized
                                  ELSE Normalized(p.keyword),
                   scope      |-> scope,
                   links      |-> links]
  <2>1. /\ aggregate' = [aggregate EXCEPT ![a] = d] /\ Edit
        /\ UNCHANGED <<bank, cached, rule, wanted, today, syncs>>
        /\ old # None
    BY <1>5, Zenon DEF UpdateAggregate
  <2>2. /\ p.keyword \in Seq(Chars) \cup {None} /\ p.scope \in Scopes \cup {None}
        /\ p.cards \in (SUBSET Cards) \cup {None}
    BY RequestsAssumption
  <2>3. /\ old.keyword \in Seq(Chars) /\ old.normalized \in Seq(Chars)
        /\ old.scope \in Scopes /\ old.links \in SUBSET Cards
        /\ old.normalized = Normalized(old.keyword)
    BY <2>1 DEF DefinitionsInv, TypeOK, WishesKept, Aggregate
  <2>4. scope \in Scopes /\ links \in SUBSET Cards
    BY <2>2, <2>3 DEF Given
  <2> HIDE DEF old, scope, links
  <2>5. d \in Aggregate /\ d.normalized = Normalized(d.keyword)
    <3>1. CASE p.keyword = None
      <4>1. d = [keyword |-> old.keyword, normalized |-> old.normalized,
                 scope |-> scope, links |-> links]
        BY <3>1
      <4> QED BY <2>3, <2>4, <4>1 DEF Aggregate
    <3>2. CASE p.keyword # None
      <4>1. d = [keyword |-> Strip(p.keyword), normalized |-> Normalized(p.keyword),
                 scope |-> scope, links |-> links]
        BY <3>2
      <4> QED BY <2>2, <2>4, <3>2, <4>1, NewAggregate
    <3> QED BY <3>1, <3>2
  <2> HIDE DEF d
  <2> QED BY <2>1, <2>5, AggregateKept
<1>6. ASSUME NEW a \in AggregateIds, DeleteAggregate(a) PROVE TypeOK' /\ WishesKept'
  BY <1>6, AggregateKept DEF DeleteAggregate
<1>7. ASSUME NEW b \in Banks, Link(b) PROVE TypeOK' /\ WishesKept'
  BY <1>7, LinkKept
<1>8. ASSUME NEW b \in Banks, Disconnect(b) PROVE TypeOK' /\ WishesKept'
  BY <1>8, DisconnectKept
<1>9. ASSUME NEW x \in Rows, Sync(x) PROVE TypeOK' /\ WishesKept'
  <2>1. cached' \subseteq Rows /\ today' \in 1 .. LastDay /\ syncs' \in 0 .. MaxSyncs
    BY <1>9, BoundsAssumption DEF Sync, DefinitionsInv, TypeOK
  <2> QED BY <1>9, <2>1, UnchangedKept DEF Sync
<1>10. CASE NextDay
  <2>1. cached' \subseteq Rows /\ today' \in 1 .. LastDay /\ syncs' \in 0 .. MaxSyncs
    BY <1>10, BoundsAssumption DEF NextDay, DefinitionsInv, TypeOK
  <2> QED BY <1>10, <2>1, UnchangedKept DEF NextDay
<1>11. CASE UNCHANGED vars
  <2>1. cached' \subseteq Rows /\ today' \in 1 .. LastDay /\ syncs' \in 0 .. MaxSyncs
    BY <1>11 DEF vars, DefinitionsInv, TypeOK
  <2>2. UNCHANGED <<bank, rule, aggregate, wanted, edits>>
    BY <1>11 DEF vars, bank
  <2> QED BY <2>1, <2>2, UnchangedKept
<1> QED
  BY <1>1, <1>2, <1>3, <1>4, <1>5, <1>6, <1>7, <1>8, <1>9, <1>10, <1>11 DEF Next

\* The limits, the aggregates and what the owner asked for keep their types; a
\* limit satisfies the CHECK constraints of its table after any patches
\* (create_rule, update_rule, disconnect).
THEOREM DefinitionsHaveTheirTypes == Spec => []TypeOK
<1>1. DefinitionsInv => TypeOK
  BY DEF DefinitionsInv
<1> QED BY <1>1, InvInit, InvStep, PTL DEF Spec

-----------------------------------------------------------------------------
(* Alerts *)

\* The query of a rule is the keyword that the owner gave, normalized once.
LEMMA QueriesWanted ==
    ASSUME DefinitionsInv
    PROVE  /\ DOMAIN Queries = Prepared
           /\ \A r \in Prepared :
                 /\ r \in RuleIds /\ rule[r] # None /\ rule[r] \in Rule /\ Checked(rule[r])
                 /\ wanted[r] # None /\ wanted[r] \in Wish /\ Wished(wanted[r], rule[r])
                 /\ Queries[r] = Normalized(wanted[r].keyword)
                 /\ Clean(Queries[r]) /\ Len(Queries[r]) <= QueryLength
<1>1. DOMAIN Queries = Prepared
  BY DEF Queries
<1>2. ASSUME NEW r \in Prepared
      PROVE  /\ r \in RuleIds /\ rule[r] # None /\ rule[r] \in Rule /\ Checked(rule[r])
             /\ wanted[r] # None /\ wanted[r] \in Wish /\ Wished(wanted[r], rule[r])
  BY DEF Prepared, DefinitionsInv, TypeOK, WishesKept
<1>3. ASSUME NEW r \in Prepared
      PROVE  /\ Queries[r] = Normalized(wanted[r].keyword)
             /\ Clean(Queries[r]) /\ Len(Queries[r]) <= QueryLength
  <2>1. wanted[r].keyword \in Seq(Chars) /\ rule[r].keyword = Strip(wanted[r].keyword)
    BY <1>2 DEF Wish, Wished
  <2>2. Queries[r] = Normalized(rule[r].keyword)
    BY DEF Queries
  <2> QED BY <2>1, <2>2, NormalizedAgain, NormalizedTyped
<1> QED BY <1>1, <1>2, <1>3

\* The one query for all rules fetches every row that counts for one of them.
LEMMA FetchedEnough ==
    ASSUME DefinitionsInv, NEW x \in cached, NEW r \in MatchingRules(x, Queries)
    PROVE  x \in Fetched(Queries)
<1>1. /\ r \in Prepared /\ Transaction[x].card \in TargetCards(rule[r])
      /\ Like(Queries[r], SearchText[x])
  BY DEF MatchingRules
<1>2. x \in Rows /\ SearchText[x] \in Seq(Chars) /\ SearchText[x] \in Range(SearchText)
  <2>1. x \in Rows /\ DOMAIN SearchText = Rows
    BY DEF DefinitionsInv, TypeOK, SearchText
  <2> QED BY <2>1, SearchTextTyped DEF Range
<1>3. Queries[r] \in Range(Queries)
  BY <1>1, QueriesWanted DEF Range
<1>4. \A q \in Range(Queries) : Clean(q) /\ Len(q) <= QueryLength
  BY QueriesWanted DEF Range
<1>5. Batched(Range(Queries), SearchText[x])
  BY <1>1, <1>2, <1>3, <1>4, BatchMisses
<1>6. Transaction[x].card \in UNION {TargetCards(rule[s]) : s \in Prepared}
  BY <1>1
<1> QED BY <1>2, <1>5, <1>6 DEF Fetched

\* The rows that have the same key count for the same rules.
LEMMA KeyDecides ==
    ASSUME NEW x, NEW y, MemoKey(x) = MemoKey(y), NEW queries
    PROVE  MatchingRules(x, queries) = MatchingRules(y, queries)
<1>1. /\ Transaction[x].card = Transaction[y].card /\ SearchText[x] = SearchText[y]
      /\ Transaction[x].date = Transaction[y].date /\ Transaction[x].usd = Transaction[y].usd
  BY DEF MemoKey
<1> QED BY <1>1 DEF MatchingRules

\* What is counted of a rule on a card are the rows that match it.
LEMMA CountedByRule ==
    ASSUME DefinitionsInv, NEW r \in Prepared, NEW c \in Cards
    PROVE  Counted[r][c] = {x \in OnCard(c) : r \in MatchingRules(x, Queries)}
<1> DEFINE queries == Queries
           fetched == Fetched(queries)
           memo == [k \in {MemoKey(x) : x \in fetched} |->
                       MatchingRules(CHOOSE x \in fetched : MemoKey(x) = k, queries)]
           counts == [s \in Prepared |-> [k \in Cards |->
                        {x \in fetched : Transaction[x].card = k /\ s \in memo[MemoKey(x)]}]]
<1>1. Counted = counts
  BY Zenon DEF Counted
<1>2. counts[r][c] = {x \in fetched : Transaction[x].card = c /\ r \in memo[MemoKey(x)]}
  <2> HIDE DEF memo, fetched
  <2> QED BY DEF counts
<1>3. ASSUME NEW x \in fetched PROVE memo[MemoKey(x)] = MatchingRules(x, queries)
  <2> DEFINE y == CHOOSE z \in fetched : MemoKey(z) = MemoKey(x)
  <2>1. MemoKey(y) = MemoKey(x)
    <3> HIDE DEF fetched
    <3> QED BY <1>3
  <2>2. memo[MemoKey(x)] = MatchingRules(y, queries)
    <3> HIDE DEF queries, fetched
    <3> QED BY <1>3
  <2> HIDE DEF y, queries, fetched, memo
  <2> QED BY <2>1, <2>2, KeyDecides
<1>4. fetched \subseteq cached
  BY DEF Fetched
<1>5. \A x \in cached : r \in MatchingRules(x, queries) => x \in fetched
  BY FetchedEnough
<1> HIDE DEF queries, fetched, memo, counts
<1>6. Counted[r][c] = {x \in cached : Transaction[x].card = c /\ r \in MatchingRules(x, queries)}
  BY <1>1, <1>2, <1>3, <1>4, <1>5
<1> QED BY <1>6 DEF OnCard, queries

\* The window of a rule, by its type.
LEMMA DateInWindow ==
    ASSUME NEW w \in Window, NEW date \in Int \cup {None}, today \in Int
    PROVE  InWindow(w, date) <=>
             CASE w.type = "all_time" -> TRUE
               [] w.type = "rolling" -> date \in today - w.days + 1 .. today
               [] w.type = "fixed" -> date \in w.start .. w.end
<1>1. None \notin Int
  BY NoneAssumption
<1>2. CASE w.type = "all_time"
  BY <1>2 DEF InWindow
<1>3. CASE w.type = "rolling"
  <2>1. w.days \in Nat
    BY <1>3 DEF Window
  <2>2. InWindow(w, date) <=> date # None /\ today - w.days + 1 <= date /\ date <= today
    BY <1>3 DEF InWindow, Start, End
  <2> QED BY <1>1, <1>3, <2>1, <2>2
<1>4. CASE w.type = "fixed"
  <2>1. w.start \in Int /\ w.end \in Int
    BY <1>4 DEF Window
  <2>2. InWindow(w, date) <=> date # None /\ w.start <= date /\ date <= w.end
    BY <1>4 DEF InWindow, Start, End
  <2> QED BY <1>1, <1>4, <2>1, <2>2
<1> QED BY <1>2, <1>3, <1>4 DEF Window

\* What is counted of a rule on a card is what the rule by itself calls for.
LEMMA CountedIsDue ==
    ASSUME DefinitionsInv, NEW r \in Prepared, NEW c \in TargetCards(rule[r])
    PROVE  Counted[r][c] = DueRows(wanted[r], c)
<1> DEFINE d == rule[r]
           w == wanted[r]
<1>1. /\ d \in Rule /\ w \in Wish /\ Wished(w, d) /\ Queries[r] = Normalized(w.keyword)
  BY QueriesWanted
<1>2. c \in Cards /\ today \in Int
  BY DEF TargetCards, ActiveCards, DefinitionsInv, TypeOK
<1>3. d.metric = w.metric /\ d.window = w.window /\ w.window \in Window
  BY <1>1 DEF Wished, Wish
<1>4. Counted[r][c] = {x \in OnCard(c) : r \in MatchingRules(x, Queries)}
  BY <1>2, CountedByRule
<1>5. ASSUME NEW x \in OnCard(c)
      PROVE  r \in MatchingRules(x, Queries) <=>
                /\ Like(Normalized(w.keyword), SearchText[x])
                /\ w.metric = "net_total_usd" => Transaction[x].usd
                /\ CASE w.window.type = "all_time" -> TRUE
                     [] w.window.type = "rolling" ->
                            Transaction[x].date \in today - w.window.days + 1 .. today
                     [] w.window.type = "fixed" ->
                            Transaction[x].date \in w.window.start .. w.window.end
  <2>1. x \in Rows /\ Transaction[x].card = c
    BY DEF OnCard, DefinitionsInv, TypeOK
  <2>2. Transaction[x].date \in Int \cup {None}
    BY <2>1, RowsAssumption
  <2>3. r \in MatchingRules(x, Queries) <=>
           /\ Like(Queries[r], SearchText[x])
           /\ d.metric = "net_total_usd" => Transaction[x].usd
           /\ InWindow(d.window, Transaction[x].date)
    BY <2>1 DEF MatchingRules
  <2>4. InWindow(w.window, Transaction[x].date) <=>
           CASE w.window.type = "all_time" -> TRUE
             [] w.window.type = "rolling" ->
                    Transaction[x].date \in today - w.window.days + 1 .. today
             [] w.window.type = "fixed" ->
                    Transaction[x].date \in w.window.start .. w.window.end
    BY <1>2, <1>3, <2>2, DateInWindow
  <2> HIDE DEF d, w
  <2> QED BY <1>1, <1>3, <2>3, <2>4
<1> HIDE DEF d, w
<1>6. DueRows(w, c) =
        {x \in OnCard(c) :
            /\ Like(Normalized(w.keyword), SearchText[x])
            /\ w.metric = "net_total_usd" => Transaction[x].usd
            /\ CASE w.window.type = "all_time" -> TRUE
                 [] w.window.type = "rolling" ->
                        Transaction[x].date \in today - w.window.days + 1 .. today
                 [] w.window.type = "fixed" ->
                        Transaction[x].date \in w.window.start .. w.window.end}
  BY DEF DueRows
<1> QED BY <1>4, <1>5, <1>6 DEF w

\* A rule is evaluated, and alerts, when the owner's wish is due.
LEMMA DueIsEvaluated ==
    ASSUME DefinitionsInv, NEW r \in RuleIds, NEW c \in Cards
    PROVE  Due(wanted[r], c) <=>
             /\ r \in Prepared /\ c \in TargetCards(rule[r])
             /\ Exceeds(rule[r], DueRows(wanted[r], c))
<1> DEFINE d == rule[r]
           w == wanted[r]
           rows == DueRows(w, c)
<1>1. rule[r] = None <=> wanted[r] = None
  BY DEF DefinitionsInv, WishesKept
<1>2. CASE rule[r] = None
  BY <1>1, <1>2 DEF Due, Prepared
<1>3. CASE rule[r] # None
  <2>1. /\ d \in Rule /\ Checked(d) /\ w \in Wish /\ Wished(w, d) /\ w # None
    BY <1>1, <1>3 DEF DefinitionsInv, TypeOK, WishesKept
  <2>2. d.metric = "net_total_usd" => d.total # None
    BY <2>1, BoundsAssumption, NoneAssumption DEF Checked, Metrics
  <2>3. /\ d.enabled = w.enabled /\ d.scope = w.scope /\ d.metric = w.metric
        /\ w.limit = IF d.metric = "count" THEN d.threshold ELSE d.total
        /\ d.links = w.cards \cap ActiveCards
        /\ d.metric \in Metrics /\ d.enabled \in BOOLEAN
    BY <2>1 DEF Wished, Rule
  <2>4. c \in TargetCards(d) <=> c \in ActiveCards /\ (w.scope = "all_cards" \/ c \in w.cards)
    <3> HIDE DEF d, w
    <3> QED BY <2>3 DEF TargetCards
  <2>5. Exceeds(d, rows) <=>
           IF w.metric = "count" THEN Cardinality(rows) >= w.limit
           ELSE CentsOf(rows) >= w.limit
    <3> HIDE DEF d, w, rows
    <3> QED BY <2>3 DEF Exceeds, Metrics
  <2>6. r \in Prepared <=> d.enabled /\ TargetCards(d) # {}
    BY <1>3, <2>2 DEF Prepared
  <2>7. Due(w, c) <=>
           /\ w.enabled /\ c \in ActiveCards
           /\ w.scope = "all_cards" \/ c \in w.cards
           /\ IF w.metric = "count" THEN Cardinality(rows) >= w.limit
              ELSE CentsOf(rows) >= w.limit
    <3> HIDE DEF w
    <3> QED BY <2>1 DEF Due, rows
  <2> HIDE DEF d, w, rows
  <2>8. Due(w, c) <=> r \in Prepared /\ c \in TargetCards(d) /\ Exceeds(d, rows)
    BY <2>3, <2>4, <2>5, <2>6, <2>7
  <2> QED BY <2>8 DEF d, w, rows
<1> QED BY <1>2, <1>3

\* An alert is of a rule and a card it is about, whose rows exceed the limit.
LEMMA AlertsOfRules ==
    ASSUME DefinitionsInv
    PROVE  \A a : a \in Alerts <=>
              \E r \in Prepared :
                 \E c \in TargetCards(rule[r]) :
                    /\ Exceeds(rule[r], DueRows(wanted[r], c))
                    /\ a = Alert(r, c, DueRows(wanted[r], c))
<1> TAKE a
<1>1. a \in Alerts <=>
         \E r \in Prepared :
            \E c \in TargetCards(rule[r]) :
               Exceeds(rule[r], Counted[r][c]) /\ a = Alert(r, c, Counted[r][c])
  <2> DEFINE of(r) == {Alert(r, c, Counted[r][c]) :
                          c \in {k \in TargetCards(rule[r]) : Exceeds(rule[r], Counted[r][k])}}
  <2>1. Alerts = UNION {of(r) : r \in Prepared}
    BY Zenon DEF Alerts
  <2>2. \A r : a \in of(r) <=>
           \E c \in TargetCards(rule[r]) :
              Exceeds(rule[r], Counted[r][c]) /\ a = Alert(r, c, Counted[r][c])
    OBVIOUS
  <2> HIDE DEF of
  <2> QED BY <2>1, <2>2
<1> QED BY <1>1, CountedIsDue

\* The alerts are those that are due.
LEMMA AlertsAreExact == DefinitionsInv => AlertsExact
<1> SUFFICES ASSUME DefinitionsInv PROVE AlertsExact
  OBVIOUS
<1> DEFINE due == {y \in RuleIds \X Cards : Due(wanted[y[1]], y[2])}
           called == {Alert(x[1], x[2], DueRows(wanted[x[1]], x[2])) : x \in due}
<1>1. \A r \in Prepared : r \in RuleIds /\ TargetCards(rule[r]) \subseteq Cards
  BY DEF Prepared, TargetCards, ActiveCards, DefinitionsInv, TypeOK
<1>2. ASSUME NEW a \in Alerts PROVE a \in called
  <2>1. PICK r \in Prepared :
           \E c \in TargetCards(rule[r]) :
              /\ Exceeds(rule[r], DueRows(wanted[r], c))
              /\ a = Alert(r, c, DueRows(wanted[r], c))
    BY <1>2, AlertsOfRules
  <2>2. PICK c \in TargetCards(rule[r]) :
           /\ Exceeds(rule[r], DueRows(wanted[r], c))
           /\ a = Alert(r, c, DueRows(wanted[r], c))
    BY <2>1
  <2>3. r \in RuleIds /\ c \in Cards
    BY <1>1
  <2>4. Due(wanted[r], c)
    BY <2>2, <2>3, DueIsEvaluated
  <2>5. <<r, c>> \in due
    BY <2>3, <2>4
  <2> HIDE DEF due
  <2> QED BY <2>2, <2>5
<1>3. ASSUME NEW a \in called PROVE a \in Alerts
  <2>1. PICK x \in due : a = Alert(x[1], x[2], DueRows(wanted[x[1]], x[2]))
    <3> HIDE DEF due
    <3> QED BY <1>3
  <2>2. PICK r \in RuleIds, c \in Cards : x = <<r, c>> /\ Due(wanted[r], c)
    OBVIOUS
  <2>3. a = Alert(r, c, DueRows(wanted[r], c))
    BY <2>1, <2>2
  <2>4. r \in Prepared /\ c \in TargetCards(rule[r])
        /\ Exceeds(rule[r], DueRows(wanted[r], c))
    BY <2>2, DueIsEvaluated
  <2> QED BY <2>3, <2>4, AlertsOfRules
<1> HIDE DEF called
<1>4. Alerts = called
  BY <1>2, <1>3
<1> QED BY <1>4, Zenon DEF AlertsExact, called, due

\* For any limits, patches, cards and transactions, the alerts are those that the
\* limits, as the owner last asked for them and each taken by itself, call for
\* (evaluate_active_alerts, _batched_match_filter, update_rule, disconnect).
THEOREM AlertsStayExact == Spec => []AlertsExact
  BY AlertsAreExact, InvInit, InvStep, PTL DEF Spec

-----------------------------------------------------------------------------
(* Summaries *)

\* The purchases and the refunds of a summary.
Bought(S) == {r \in Usd(S) : Transaction[r].cents > 0}
Refunded(S) == {r \in Usd(S) : Transaction[r].cents < 0}

LEMMA CentsTyped == Cents \in [Rows -> Int]
  BY RowsAssumption DEF Cents

LEMMA PartsOfRows ==
    ASSUME NEW S \in SUBSET Rows
    PROVE  /\ Usd(S) \in SUBSET Rows /\ Pending(Usd(S)) \in SUBSET Rows
           /\ Bought(S) \in SUBSET Rows /\ Refunded(S) \in SUBSET Rows
  BY DEF Usd, Pending, Bought, Refunded

\* The fields of a summary, as sums over its rows.
LEMMA SummaryFields ==
    ASSUME NEW S \in SUBSET Rows, NEW h, Adds(h, Rows, Cents)
    PROVE  Summary(S) = [count     |-> Cardinality(Usd(S)),
                         pending   |-> Cardinality(Pending(Usd(S))),
                         purchases |-> h[Bought(S)],
                         refunds   |-> -h[Refunded(S)],
                         net       |-> h[Usd(S)]]
<1>1. Summary(S) = [count     |-> Cardinality(Usd(S)),
                    pending   |-> Cardinality(Pending(Usd(S))),
                    purchases |-> CentsOf(Bought(S)),
                    refunds   |-> -CentsOf(Refunded(S)),
                    net       |-> CentsOf(Usd(S))]
  BY DEF Summary, Bought, Refunded
<1>2. /\ CentsOf(Bought(S)) = h[Bought(S)]
      /\ CentsOf(Refunded(S)) = h[Refunded(S)]
      /\ CentsOf(Usd(S)) = h[Usd(S)]
  BY PartsOfRows, CentsSum
<1> QED BY <1>1, <1>2

\* What is spent is what is bought without what is refunded.
LEMMA NetIsDifference ==
    ASSUME NEW S \in SUBSET Rows
    PROVE  Summary(S).net = Summary(S).purchases - Summary(S).refunds
<1>1. PICK h : Adds(h, Rows, Cents)
  BY CentsTyped, SumExists, RowsAssumption
<1> DEFINE rest == {r \in Usd(S) : Transaction[r].cents = 0}
           moved == Bought(S) \cup Refunded(S)
<1>2. /\ Splits(Usd(S), moved, rest) /\ Splits(moved, Bought(S), Refunded(S))
      /\ moved \in SUBSET Rows /\ rest \in SUBSET Rows /\ Usd(S) \in SUBSET Rows
  <2>1. Usd(S) \subseteq Rows /\ \A r \in Rows : Transaction[r].cents \in Int
    BY PartsOfRows, RowsAssumption
  <2> QED BY <2>1 DEF Bought, Refunded, Splits
<1>3. \A r \in rest : Cents[r] = 0
  BY PartsOfRows DEF Cents
<1> HIDE DEF rest, moved
<1>4. IsFiniteSet(Rows)
  BY RowsAssumption
<1>5. h[moved] = h[Bought(S)] + h[Refunded(S)]
  BY <1>1, <1>2, <1>4, CentsTyped, SumOfParts
<1>6. h[Usd(S)] = h[moved] + h[rest] /\ h[rest] = 0
  <2>1. h[rest] = 0
    BY <1>1, <1>2, <1>3, <1>4, SumOfZeros
  <2>2. h[Usd(S)] = h[moved] + h[rest]
    BY <1>1, <1>2, <1>4, CentsTyped, SumOfParts
  <2> QED BY <2>1, <2>2
<1>7. h[Bought(S)] \in Int /\ h[Refunded(S)] \in Int
  BY <1>1, PartsOfRows DEF Adds
<1>8. /\ Summary(S).net = h[Usd(S)] /\ Summary(S).purchases = h[Bought(S)]
      /\ Summary(S).refunds = -h[Refunded(S)]
  BY <1>1, SummaryFields
<1>9. h[Usd(S)] = h[Bought(S)] + h[Refunded(S)]
  BY <1>5, <1>6, <1>7
<1> QED BY <1>7, <1>8, <1>9

\* A field of the cards' summaries adds up to the sum over all their rows.
LEMMA TotalOfField ==
    ASSUME NEW K \in SUBSET Cards, NEW m, DOMAIN m = K, NEW f,
           NEW F \in [Rows -> Int], NEW h, Adds(h, Rows, F),
           NEW T \in SUBSET Rows, \A r \in T : CardOf[r] \in K,
           \A c \in K : m[c][f] = h[With(T, CardOf, c)]
    PROVE  FieldTotal(m, f) = h[T]
<1> DEFINE G == [c \in K |-> m[c][f]]
<1>1. IsFiniteSet(K) /\ IsFiniteSet(Rows)
  BY RowsAssumption, FS_Subset
<1>2. G \in [K -> Int]
  <2>1. \A c \in K : With(T, CardOf, c) \in SUBSET Rows
    BY DEF With
  <2> QED BY <2>1 DEF Adds
<1>3. \A c \in K : G[c] = h[With(T, CardOf, c)]
  OBVIOUS
<1>4. PICK t : Adds(t, K, G)
  <2> HIDE DEF G
  <2> QED BY <1>1, <1>2, SumExists
<1>5. FieldTotal(m, f) = t[K]
  <2>1. Adds(t, K, [c \in K |-> m[c][f]])
    BY <1>4
  <2> HIDE DEF G
  <2> QED BY <1>1, <2>1, FieldSum
<1>6. t[K] = h[T]
  <2> HIDE DEF G
  <2> QED BY <1>1, <1>3, <1>4, SumByKey
<1> QED BY <1>5, <1>6

\* The summaries of the cards add up to the summary of all.
LEMMA TotalOfSummaries ==
    ASSUME NEW S \in SUBSET Rows, NEW K \in SUBSET Cards, NEW m, DOMAIN m = K,
           \A r \in S : CardOf[r] \in K,
           \A c \in K : m[c] = Summary(With(S, CardOf, c))
    PROVE  Totalled(m) = Summary(S)
<1>1. PICK h : Adds(h, Rows, Cents)
  BY CentsTyped, SumExists, RowsAssumption
<1> DEFINE n == [s \in SUBSET Rows |-> Cardinality(s)]
           neg == [s \in SUBSET Rows |-> -h[s]]
           one == [r \in Rows |-> 1]
           back == [r \in Rows |-> -Cents[r]]
<1>2. Adds(n, Rows, one) /\ Adds(neg, Rows, back)
  BY <1>1, CountIsSum, NegatedSum, CentsTyped, RowsAssumption, Zenon
<1>3. one \in [Rows -> Int] /\ back \in [Rows -> Int]
  <2>1. \A r \in Rows : -Cents[r] \in Int
    BY CentsTyped
  <2> QED BY <2>1
<1>4. /\ Usd(S) \in SUBSET Rows /\ Pending(Usd(S)) \in SUBSET Rows
      /\ Bought(S) \in SUBSET Rows /\ Refunded(S) \in SUBSET Rows
  BY PartsOfRows
<1>5. /\ \A r \in Usd(S) : CardOf[r] \in K
      /\ \A r \in Pending(Usd(S)) : CardOf[r] \in K
      /\ \A r \in Bought(S) : CardOf[r] \in K
      /\ \A r \in Refunded(S) : CardOf[r] \in K
  BY DEF Usd, Pending, Bought, Refunded
<1>6. ASSUME NEW c \in K
      PROVE  /\ m[c]["count"] = n[With(Usd(S), CardOf, c)]
             /\ m[c]["pending"] = n[With(Pending(Usd(S)), CardOf, c)]
             /\ m[c]["purchases"] = h[With(Bought(S), CardOf, c)]
             /\ m[c]["refunds"] = neg[With(Refunded(S), CardOf, c)]
             /\ m[c]["net"] = h[With(Usd(S), CardOf, c)]
  <2> DEFINE of == With(S, CardOf, c)
  <2>1. of \in SUBSET Rows
    BY DEF With
  <2>2. /\ Usd(of) = With(Usd(S), CardOf, c)
        /\ Pending(Usd(of)) = With(Pending(Usd(S)), CardOf, c)
        /\ Bought(of) = With(Bought(S), CardOf, c)
        /\ Refunded(of) = With(Refunded(S), CardOf, c)
    BY DEF Usd, Pending, Bought, Refunded, With
  <2>3. m[c] = Summary(of)
    OBVIOUS
  <2>4. /\ With(Usd(S), CardOf, c) \in SUBSET Rows
        /\ With(Pending(Usd(S)), CardOf, c) \in SUBSET Rows
        /\ With(Refunded(S), CardOf, c) \in SUBSET Rows
    BY <1>4 DEF With
  <2> HIDE DEF of
  <2>5. m[c] = [count     |-> Cardinality(Usd(of)),
                pending   |-> Cardinality(Pending(Usd(of))),
                purchases |-> h[Bought(of)],
                refunds   |-> -h[Refunded(of)],
                net       |-> h[Usd(of)]]
    BY <1>1, <2>1, <2>3, SummaryFields
  <2>6. /\ m[c]["count"] = Cardinality(With(Usd(S), CardOf, c))
        /\ m[c]["pending"] = Cardinality(With(Pending(Usd(S)), CardOf, c))
        /\ m[c]["purchases"] = h[With(Bought(S), CardOf, c)]
        /\ m[c]["refunds"] = -h[With(Refunded(S), CardOf, c)]
        /\ m[c]["net"] = h[With(Usd(S), CardOf, c)]
    BY <2>2, <2>5
  <2> QED BY <2>4, <2>6
<1>7. /\ n[Usd(S)] = Cardinality(Usd(S))
      /\ n[Pending(Usd(S))] = Cardinality(Pending(Usd(S)))
      /\ neg[Refunded(S)] = -h[Refunded(S)]
  BY <1>4
<1> HIDE DEF n, neg, one, back
<1>8. FieldTotal(m, "count") = n[Usd(S)]
  BY <1>2, <1>3, <1>4, <1>5, <1>6, TotalOfField
<1>9. FieldTotal(m, "pending") = n[Pending(Usd(S))]
  BY <1>2, <1>3, <1>4, <1>5, <1>6, TotalOfField
<1>10. FieldTotal(m, "purchases") = h[Bought(S)]
  BY <1>1, CentsTyped, <1>4, <1>5, <1>6, TotalOfField
<1>11. FieldTotal(m, "refunds") = neg[Refunded(S)]
  BY <1>2, <1>3, <1>4, <1>5, <1>6, TotalOfField
<1>12. FieldTotal(m, "net") = h[Usd(S)]
  BY <1>1, CentsTyped, <1>4, <1>5, <1>6, TotalOfField
<1>13. Summary(S) = [count     |-> Cardinality(Usd(S)),
                     pending   |-> Cardinality(Pending(Usd(S))),
                     purchases |-> h[Bought(S)],
                     refunds   |-> -h[Refunded(S)],
                     net       |-> h[Usd(S)]]
  BY <1>1, SummaryFields
<1> QED BY <1>7, <1>8, <1>9, <1>10, <1>11, <1>12, <1>13 DEF Totalled

\* The table's summary is the total of the cards' summaries.
LEMMA AllIsTotal ==
    ASSUME DefinitionsInv, NEW query
    PROVE  AllSummary(query) = Totalled([c \in ActiveCards |-> CardSummary(c, query)])
<1> DEFINE q == Normalized(query)
           S == {r \in cached : Transaction[r].card \in ActiveCards /\ Matches(q, r)}
           m == [c \in ActiveCards |-> CardSummary(c, query)]
<1> HIDE DEF q
<1>1. AllSummary(query) = Summary(S)
  BY DEF AllSummary, q
<1>2. S \in SUBSET Rows /\ ActiveCards \in SUBSET Cards /\ DOMAIN m = ActiveCards
      /\ \A r \in S : CardOf[r] \in ActiveCards
  BY DEF DefinitionsInv, TypeOK, ActiveCards, CardOf
<1>3. ASSUME NEW c \in ActiveCards
      PROVE  m[c] = Summary(With(S, CardOf, c))
  <2>1. m[c] = Summary({r \in OnCard(c) : Matches(q, r)})
    BY DEF CardSummary, q
  <2>2. {r \in OnCard(c) : Matches(q, r)} = With(S, CardOf, c)
    BY <1>2 DEF OnCard, With, CardOf
  <2> QED BY <2>1, <2>2
<1> HIDE DEF S, m
<1>4. Totalled(m) = Summary(S)
  BY <1>2, <1>3, TotalOfSummaries
<1> QED BY <1>1, <1>4 DEF m

\* A saved aggregate shows what a search shows.
LEMMA SavedIsSearched ==
    ASSUME DefinitionsInv, NEW s \in SavedTotals
    PROVE  /\ s.summary = CardSummary(s.card, s.keyword)
           /\ s.summary.net = s.summary.purchases - s.summary.refunds
<1>1. PICK a \in AggregateIds, c \in Cards :
         /\ aggregate[a] # None
         /\ s = [id      |-> a,
                 keyword |-> aggregate[a].keyword,
                 card    |-> c,
                 summary |-> Summary({r \in OnCard(c) :
                                Matches(Normalized(aggregate[a].normalized), r)})]
  BY DEF SavedTotals, TargetCards, ActiveCards, DefinitionsInv, TypeOK
<1> DEFINE d == aggregate[a]
           T == {r \in OnCard(c) : Matches(Normalized(d.normalized), r)}
<1>2. d.keyword \in Seq(Chars) /\ d.normalized = Normalized(d.keyword)
  BY <1>1 DEF DefinitionsInv, TypeOK, WishesKept, Aggregate
<1>3. Normalized(d.normalized) = Normalized(d.keyword)
  BY <1>2, NormalizedAgain
<1>4. s.summary = Summary(T) /\ s.card = c /\ s.keyword = d.keyword
  BY <1>1
<1>5. CardSummary(c, d.keyword) = Summary(T)
  BY <1>3 DEF CardSummary
<1>6. T \in SUBSET Rows
  BY DEF OnCard, DefinitionsInv, TypeOK
<1> HIDE DEF d, T
<1> QED BY <1>4, <1>5, <1>6, NetIsDifference

\* An alert on a total of all time shows what a search shows.
LEMMA AlertIsSearched ==
    ASSUME DefinitionsInv, NEW a \in Alerts,
           rule[a.rule].metric = "net_total_usd", rule[a.rule].window.type = "all_time"
    PROVE  LET s == CardSummary(a.card, rule[a.rule].keyword)
           IN  a.count = s.count /\ a.pending = s.pending /\ a.total = s.net
<1>1. PICK r \in Prepared :
         \E c \in TargetCards(rule[r]) :
            /\ Exceeds(rule[r], DueRows(wanted[r], c))
            /\ a = Alert(r, c, DueRows(wanted[r], c))
  BY AlertsOfRules
<1>2. PICK c \in TargetCards(rule[r]) : a = Alert(r, c, DueRows(wanted[r], c))
  BY <1>1
<1> DEFINE d == rule[r]
           w == wanted[r]
           q == Normalized(w.keyword)
           T == {x \in OnCard(c) : Matches(q, x)}
<1>3. /\ a.rule = r /\ a.card = c
      /\ a.count = Cardinality(DueRows(w, c))
      /\ a.pending = Cardinality(Pending(DueRows(w, c)))
      /\ a.total = CentsOf(DueRows(w, c))
  BY <1>2 DEF Alert
<1>4. /\ d \in Rule /\ w \in Wish /\ Wished(w, d)
  BY QueriesWanted
<1>5. w.metric = "net_total_usd" /\ w.window.type = "all_time"
  BY <1>3, <1>4 DEF Wished
<1>6. Normalized(d.keyword) = q
  <2>1. w.keyword \in Seq(Chars) /\ d.keyword = Strip(w.keyword)
    BY <1>4 DEF Wish, Wished
  <2> QED BY <2>1, NormalizedAgain
<1>7. OnCard(c) \subseteq Rows
  BY DEF OnCard, DefinitionsInv, TypeOK
<1>8. DueRows(w, c) = {x \in OnCard(c) : Like(q, SearchText[x]) /\ Transaction[x].usd}
  <2> HIDE DEF w
  <2> QED BY <1>5 DEF DueRows, q
<1>9. \A x \in OnCard(c) : Matches(q, x) <=> Like(q, SearchText[x])
  <2> HIDE DEF q
  <2> QED BY <1>7, SearchTextTyped, MatchesIsLike
<1> HIDE DEF q
<1>10. DueRows(w, c) = Usd(T)
  BY <1>8, <1>9 DEF Usd
<1>11. CardSummary(a.card, d.keyword) = Summary(T)
  BY <1>3, <1>6 DEF CardSummary
<1> HIDE DEF w, d, T
<1>12. /\ Summary(T).count = Cardinality(Usd(T))
       /\ Summary(T).pending = Cardinality(Pending(Usd(T)))
       /\ Summary(T).net = CentsOf(Usd(T))
  BY DEF Summary
<1> QED BY <1>3, <1>10, <1>11, <1>12 DEF d

\* What is said of one keyword agrees.
LEMMA TotalsDoAgree == DefinitionsInv => TotalsAgree
  BY AllIsTotal, SavedIsSearched, AlertIsSearched DEF TotalsAgree

\* For any keywords and transactions, the cards' summaries add up to the table's,
\* a saved aggregate shows what a search for its keyword shows, and so does an
\* alert on a total of all time (transaction_summary_columns,
\* evaluate_saved_aggregates, evaluate_active_alerts, aggregateUsdSummaries).
THEOREM TotalsStayAgreed == Spec => []TotalsAgree
  BY TotalsDoAgree, InvInit, InvStep, PTL DEF Spec
=============================================================================
