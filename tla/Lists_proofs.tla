----------------------------- MODULE Lists_proofs -----------------------------
(***************************************************************************)
(* What the operators of Lists return, for lists of any length.            *)
(***************************************************************************)
EXTENDS Lists, FiniteSetTheorems, SequenceTheorems, TLAPS

LEMMA UpTo ==
  ASSUME NEW n \in Nat
  PROVE  IsFiniteSet(1..n) /\ Cardinality(1..n) = n
BY FS_Interval

(* Different members of a finite ordered set stand at different places.    *)
LEMMA StandingIsStrict ==
  ASSUME NEW S, IsFiniteSet(S), NEW before, Linear(S, before),
         NEW x \in S, NEW y \in S, x # y, <<x, y>> \in before
  PROVE  /\ Standing(S, before, x) \in Nat /\ Standing(S, before, y) \in Nat
         /\ Standing(S, before, x) < Standing(S, before, y)
  <1> DEFINE upto(z) == {w \in S : <<w, z>> \in before}
  <1>1. /\ IsFiniteSet(upto(x)) /\ Cardinality(upto(x)) \in Nat
        /\ IsFiniteSet(upto(y)) /\ Cardinality(upto(y)) \in Nat
    BY FS_Subset, FS_CardinalityType
  <1>2. upto(x) \in SUBSET upto(y)
    BY DEF Linear
  <1>3. y \in upto(y) /\ y \notin upto(x)
    BY DEF Linear
  <1>4. Cardinality(upto(x)) <= Cardinality(upto(y)) /\ Cardinality(upto(x)) # Cardinality(upto(y))
    BY <1>1, <1>2, <1>3, FS_Subset
  <1> QED
    BY <1>1, <1>4 DEF Standing

(* Arranged is a list of the members of S, each once, in the order.        *)
LEMMA ArrangedFacts ==
  ASSUME NEW S, IsFiniteSet(S), NEW before, Linear(S, before)
  PROVE  /\ Cardinality(S) \in Nat
         /\ Arranged(S, before) \in Bijection(1..Cardinality(S), S)
         /\ \A i, j \in 1..Cardinality(S) :
              i < j => <<Arranged(S, before)[i], Arranged(S, before)[j]>> \in before
         /\ \A k \in 1..Cardinality(S) : Standing(S, before, Arranged(S, before)[k]) = k
  <1> DEFINE n == Cardinality(S)
             A == Arranged(S, before)
             rank == [x \in S |-> Standing(S, before, x)]
  <1>1. n \in Nat
    BY FS_CardinalityType
  <1>2. ASSUME NEW x \in S PROVE Standing(S, before, x) \in 1..n
    <2> DEFINE upto == {w \in S : <<w, x>> \in before}
    <2>1. IsFiniteSet(upto) /\ Cardinality(upto) \in Nat /\ Cardinality(upto) <= n
      BY FS_Subset, FS_CardinalityType
    <2>2. x \in upto
      BY DEF Linear
    <2>3. Cardinality(upto) # 0
      BY <2>1, <2>2, FS_EmptySet
    <2> QED
      BY <1>1, <2>1, <2>3 DEF Standing
  <1>3. \A x, y \in S : x # y => rank[x] # rank[y]
    <2> TAKE x \in S, y \in S
    <2> HAVE x # y
    <2>1. <<x, y>> \in before \/ <<y, x>> \in before
      BY DEF Linear
    <2>2. rank[x] < rank[y] \/ rank[y] < rank[x]
      BY <2>1, StandingIsStrict
    <2>3. rank[x] \in Nat /\ rank[y] \in Nat
      BY <1>1, <1>2
    <2> QED
      BY <2>2, <2>3
  <1>4. rank \in Injection(S, 1..n)
    BY <1>2, <1>3 DEF Injection, IsInjective
  <1>5. IsFiniteSet(1..n) /\ Cardinality(1..n) = n
    BY <1>1, UpTo
  <1>6. rank \in Surjection(S, 1..n)
    BY <1>4, <1>5, FS_Injection
  <1>7. ASSUME NEW k \in 1..n
        PROVE  A[k] \in S /\ Standing(S, before, A[k]) = k
    <2>1. \E x \in S : Standing(S, before, x) = k
      BY <1>6 DEF Surjection
    <2> QED
      BY <2>1 DEF Arranged
  <1>8. A \in [1..n -> S]
    BY <1>7 DEF Arranged
  <1>9. \A i, j \in 1..n : A[i] = A[j] => i = j
    BY <1>7
  <1>10. \A x \in S : \E k \in 1..n : A[k] = x
    <2> TAKE x \in S
    <2>1. rank[x] \in 1..n /\ A[rank[x]] \in S /\ rank[A[rank[x]]] = rank[x]
      BY <1>2, <1>7
    <2> QED
      BY <2>1, <1>3
  <1>11. \A i, j \in 1..n : i < j => <<A[i], A[j]>> \in before
    <2> TAKE i \in 1..n, j \in 1..n
    <2> HAVE i < j
    <2>1. SUFFICES ASSUME <<A[i], A[j]>> \notin before PROVE FALSE
      OBVIOUS
    <2>2. A[i] # A[j] /\ <<A[j], A[i]>> \in before
      BY <1>7, <1>9, <2>1 DEF Linear
    <2>3. Standing(S, before, A[j]) < Standing(S, before, A[i])
      BY <1>7, <2>2, StandingIsStrict
    <2> QED
      BY <1>1, <1>7, <2>3
  <1> QED
    <2>1. A \in Injection(1..n, S)
      BY <1>8, <1>9 DEF Injection, IsInjective
    <2>2. A \in Surjection(1..n, S)
      BY <1>8, <1>10 DEF Surjection
    <2> QED
      BY <1>1, <1>7, <1>11, <2>1, <2>2 DEF Bijection

(* Rising is the increasing list of a set of numbers.                      *)
LEMMA RisingFacts ==
  ASSUME NEW S \in SUBSET Nat, IsFiniteSet(S)
  PROVE  /\ Cardinality(S) \in Nat
         /\ Rising(S) \in Bijection(1..Cardinality(S), S)
         /\ \A i, j \in 1..Cardinality(S) : i < j => Rising(S)[i] < Rising(S)[j]
  <1> DEFINE before == {p \in S \X S : p[1] <= p[2]}
  <1>1. \A x, y \in S : <<x, y>> \in before <=> x <= y
    OBVIOUS
  <1>2. Linear(S, before)
    BY <1>1 DEF Linear
  <1>3. Arranged(S, before) = Rising(S)
    BY DEF Rising
  <1>4. /\ Cardinality(S) \in Nat
        /\ Rising(S) \in Bijection(1..Cardinality(S), S)
        /\ \A i, j \in 1..Cardinality(S) : i < j => <<Rising(S)[i], Rising(S)[j]>> \in before
    BY <1>2, <1>3, ArrangedFacts
  <1>5. ASSUME NEW i \in 1..Cardinality(S), NEW j \in 1..Cardinality(S), i < j
        PROVE  Rising(S)[i] < Rising(S)[j]
    <2>1. Rising(S)[i] \in S /\ Rising(S)[j] \in S /\ Rising(S)[i] # Rising(S)[j]
      BY <1>4, <1>5 DEF Bijection, Injection, IsInjective
    <2>2. Rising(S)[i] <= Rising(S)[j]
      BY <1>1, <1>4, <1>5, <2>1
    <2>3. Rising(S)[i] \in Nat /\ Rising(S)[j] \in Nat
      BY <2>1
    <2> QED
      BY <2>1, <2>2, <2>3
  <1> QED
    BY <1>4, <1>5

(* A sublist has one item per position, in the order of the positions.     *)
LEMMA SublistFacts ==
  ASSUME NEW list, NEW S \in SUBSET Nat, IsFiniteSet(S)
  PROVE  /\ Len(Sublist(list, S)) = Cardinality(S)
         /\ DOMAIN Sublist(list, S) = 1..Cardinality(S)
         /\ \A k \in 1..Cardinality(S) : Sublist(list, S)[k] = list[Rising(S)[k]]
         /\ ToSet(Sublist(list, S)) = {list[i] : i \in S}
  <1>1. /\ Cardinality(S) \in Nat
        /\ Rising(S) \in [1..Cardinality(S) -> S]
        /\ \A x \in S : \E k \in 1..Cardinality(S) : Rising(S)[k] = x
    BY RisingFacts DEF Bijection, Injection, Surjection
  <1>2. /\ DOMAIN Sublist(list, S) = 1..Cardinality(S)
        /\ \A k \in 1..Cardinality(S) : Sublist(list, S)[k] = list[Rising(S)[k]]
    BY <1>1 DEF Sublist
  <1>3. Len(Sublist(list, S)) = Cardinality(S)
    BY <1>1, <1>2
  <1>4. ToSet(Sublist(list, S)) = {list[i] : i \in S}
    <2>1. \A k \in 1..Cardinality(S) : Rising(S)[k] \in S
      BY <1>1
    <2>2. ToSet(Sublist(list, S)) = {Sublist(list, S)[k] : k \in 1..Cardinality(S)}
      BY <1>2 DEF ToSet
    <2>3. ASSUME NEW i \in S PROVE list[i] \in ToSet(Sublist(list, S))
      BY <1>1, <1>2, <2>2
    <2>4. ASSUME NEW k \in 1..Cardinality(S)
          PROVE  Sublist(list, S)[k] \in {list[i] : i \in S}
      BY <1>2, <2>1
    <2> QED
      BY <2>2, <2>3, <2>4
  <1> QED
    BY <1>2, <1>3, <1>4

(* A set of positions in a list is a finite set of numbers.                *)
LEMMA PositionsFinite ==
  ASSUME NEW T, NEW list \in Seq(T), NEW S \in SUBSET DOMAIN list
  PROVE  S \in SUBSET Nat /\ IsFiniteSet(S) /\ Cardinality(S) \in Nat
  <1>1. DOMAIN list = 1..Len(list) /\ Len(list) \in Nat
    OBVIOUS
  <1>2. IsFiniteSet(1..Len(list))
    BY <1>1, UpTo
  <1> QED
    BY <1>1, <1>2, FS_Subset, FS_CardinalityType

(* A non-empty finite set of numbers has a least one.                      *)
LEMMA FirstOf ==
  ASSUME NEW S \in SUBSET Nat, IsFiniteSet(S), S # {}
  PROVE  \E i \in S : \A j \in S : i <= j
  <1> DEFINE n == Cardinality(S)
  <1>1. /\ n \in Nat
        /\ Rising(S) \in [1..n -> S]
        /\ \A x \in S : \E k \in 1..n : Rising(S)[k] = x
        /\ \A i, j \in 1..n : i < j => Rising(S)[i] < Rising(S)[j]
    BY RisingFacts DEF Bijection, Injection, Surjection
  <1>2. n # 0
    BY FS_EmptySet
  <1>3. 1 \in 1..n /\ Rising(S)[1] \in S
    BY <1>1, <1>2
  <1>4. ASSUME NEW j \in S PROVE Rising(S)[1] <= j
    <2>1. PICK k \in 1..n : Rising(S)[k] = j
      BY <1>1
    <2>2. k = 1 \/ 1 < k
      BY <1>1
    <2>3. Rising(S)[1] \in Nat /\ j \in Nat
      BY <1>3
    <2>4. 1 < k => Rising(S)[1] < Rising(S)[k]
      BY <1>1, <1>3
    <2> QED
      BY <2>1, <2>2, <2>3, <2>4
  <1> QED
    BY <1>3, <1>4

LEMMA SublistTyped ==
  ASSUME NEW T, NEW list \in Seq(T), NEW S \in SUBSET DOMAIN list,
         NEW U, \A i \in S : list[i] \in U
  PROVE  /\ Sublist(list, S) \in Seq(U)
         /\ Sublist(list, S) = <<>> <=> S = {}
  <1>1. S \in SUBSET Nat /\ IsFiniteSet(S) /\ Cardinality(S) \in Nat
    BY PositionsFinite
  <1>2. Rising(S) \in [1..Cardinality(S) -> S]
    BY <1>1, RisingFacts DEF Bijection, Injection
  <1>3. /\ DOMAIN Sublist(list, S) = 1..Cardinality(S)
        /\ \A k \in 1..Cardinality(S) : Sublist(list, S)[k] = list[Rising(S)[k]]
    BY <1>1, SublistFacts
  <1>4. Sublist(list, S) = [k \in 1..Cardinality(S) |-> Sublist(list, S)[k]]
    BY <1>3 DEF Sublist
  <1>5. Sublist(list, S) \in [1..Cardinality(S) -> U]
    BY <1>2, <1>3, <1>4
  <1>6. Sublist(list, S) \in Seq(U)
    BY <1>1, <1>5, SeqDef
  <1>7. Sublist(list, S) = <<>> <=> Cardinality(S) = 0
    BY <1>1, <1>3, <1>6
  <1> QED
    BY <1>1, <1>6, <1>7, FS_EmptySet

(* Without repetition there are as many values as positions.               *)
LEMMA ValuesCounted ==
  ASSUME NEW T, NEW list \in Seq(T), NEW S \in SUBSET DOMAIN list, NEW V,
         \A i, j \in S : list[i] = list[j] => i = j,
         \A i \in S : list[i] \in V,
         \A v \in V : \E i \in S : list[i] = v
  PROVE  IsFiniteSet(V) /\ Cardinality(V) = Cardinality(S)
  <1> DEFINE f == [i \in S |-> list[i]]
  <1>1. f \in Injection(S, V)
    BY DEF Injection, IsInjective
  <1>2. f \in Surjection(S, V)
    BY DEF Surjection
  <1>3. ExistsBijection(S, V)
    BY <1>1, <1>2 DEF Bijection, ExistsBijection
  <1> QED
    BY <1>3, PositionsFinite, FS_Bijection

(* Distinct keeps every value once.                                        *)
LEMMA DistinctFacts ==
  ASSUME NEW T, NEW list \in Seq(T)
  PROVE  /\ Distinct(list) \in Seq(T)
         /\ ToSet(Distinct(list)) = ToSet(list)
         /\ \A i, j \in DOMAIN Distinct(list) :
              Distinct(list)[i] = Distinct(list)[j] => i = j
         /\ Len(Distinct(list)) = Cardinality(ToSet(list))
         /\ IsFiniteSet(ToSet(list))
  <1> DEFINE S == {i \in DOMAIN list : \A j \in DOMAIN list : list[j] = list[i] => i <= j}
  <1>1. Distinct(list) = Sublist(list, S)
    BY DEF Distinct
  <1>2. S \in SUBSET Nat /\ IsFiniteSet(S) /\ Cardinality(S) \in Nat /\ S \in SUBSET DOMAIN list
    BY PositionsFinite
  <1>3. Distinct(list) \in Seq(T)
    <2>1. \A i \in S : list[i] \in T
      BY ElementOfSeq
    <2> QED
      BY <1>1, <2>1, SublistTyped
  <1>4. \A i, j \in S : list[i] = list[j] => i = j
    <2> TAKE i \in S, j \in S
    <2> HAVE list[i] = list[j]
    <2>1. i <= j /\ j <= i /\ i \in Nat /\ j \in Nat
      BY <1>2
    <2> QED
      BY <2>1
  <1>5. {list[i] : i \in S} = ToSet(list)
    <2>1. ASSUME NEW i \in DOMAIN list PROVE \E k \in S : list[k] = list[i]
      <3> DEFINE same == {j \in DOMAIN list : list[j] = list[i]}
      <3>1. same \in SUBSET Nat /\ IsFiniteSet(same) /\ i \in same
        BY PositionsFinite
      <3>2. PICK k \in same : \A j \in same : k <= j
        BY <3>1, FirstOf
      <3> QED
        BY <3>2
    <2> QED
      BY <2>1 DEF ToSet
  <1>6. /\ Len(Distinct(list)) = Cardinality(S)
        /\ DOMAIN Distinct(list) = 1..Cardinality(S)
        /\ \A k \in 1..Cardinality(S) : Distinct(list)[k] = list[Rising(S)[k]]
        /\ ToSet(Distinct(list)) = ToSet(list)
    <2> HIDE DEF S
    <2>1. /\ Len(Sublist(list, S)) = Cardinality(S)
          /\ DOMAIN Sublist(list, S) = 1..Cardinality(S)
          /\ \A k \in 1..Cardinality(S) : Sublist(list, S)[k] = list[Rising(S)[k]]
          /\ ToSet(Sublist(list, S)) = {list[i] : i \in S}
      BY <1>2, SublistFacts
    <2> QED
      BY <1>1, <1>5, <2>1
  <1>7. /\ Rising(S) \in [1..Cardinality(S) -> S]
        /\ \A i, j \in 1..Cardinality(S) : Rising(S)[i] = Rising(S)[j] => i = j
    BY <1>2, RisingFacts DEF Bijection, Injection, IsInjective
  <1>8. \A i, j \in DOMAIN Distinct(list) : Distinct(list)[i] = Distinct(list)[j] => i = j
    <2> HIDE DEF S
    <2> TAKE i \in DOMAIN Distinct(list), j \in DOMAIN Distinct(list)
    <2>1. i \in 1..Cardinality(S) /\ j \in 1..Cardinality(S)
      BY <1>6
    <2>2. Rising(S)[i] \in S /\ Rising(S)[j] \in S
      BY <1>7, <2>1
    <2> QED
      BY <1>4, <1>6, <1>7, <2>1, <2>2
  <1>9. Cardinality(ToSet(list)) = Cardinality(S) /\ IsFiniteSet(ToSet(list))
    <2>1. /\ \A i \in S : list[i] \in ToSet(list)
          /\ \A v \in ToSet(list) : \E i \in S : list[i] = v
      BY <1>5
    <2> HIDE DEF S
    <2> QED
      BY <1>2, <1>4, <2>1, ValuesCounted
  <1> QED
    BY <1>3, <1>6, <1>8, <1>9
===============================================================================
