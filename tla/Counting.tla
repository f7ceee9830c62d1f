------------------------------ MODULE Counting ------------------------------
(***************************************************************************)
(* Lemmas on how many elements a set has when one comes or goes, for the   *)
(* proofs about budgets, limits and numbers of open rows, and on sums of   *)
(* sizes of sets, for the proofs about minutes.                            *)
(***************************************************************************)
EXTENDS Integers, FiniteSets, FiniteSetTheorems, WellFoundedInduction, TLAPS

\* Some of the elements are no more than all.
LEMMA CountPart ==
    ASSUME NEW S, IsFiniteSet(S), NEW T, T \subseteq S
    PROVE  /\ IsFiniteSet(T)
           /\ Cardinality(T) \in Nat /\ Cardinality(S) \in Nat
           /\ Cardinality(T) <= Cardinality(S)
BY FS_Subset, FS_CardinalityType

\* One element may have come.
LEMMA CountGain ==
    ASSUME NEW S, IsFiniteSet(S), NEW x, NEW T, T \subseteq S \cup {x}
    PROVE  /\ IsFiniteSet(T)
           /\ Cardinality(T) \in Nat /\ Cardinality(S) \in Nat
           /\ Cardinality(T) <= Cardinality(S) + 1
<1>1. /\ IsFiniteSet(S \cup {x}) /\ Cardinality(S) \in Nat
      /\ Cardinality(S \cup {x}) \in Nat
      /\ Cardinality(S \cup {x}) <= Cardinality(S) + 1
  BY FS_AddElement, FS_CardinalityType
<1>2. /\ IsFiniteSet(T) /\ Cardinality(T) \in Nat
      /\ Cardinality(T) <= Cardinality(S \cup {x})
  BY <1>1, CountPart
<1> QED
  BY <1>1, <1>2

\* One element has gone.
LEMMA CountLoss ==
    ASSUME NEW S, IsFiniteSet(S), NEW x \in S, NEW T, T \subseteq S \ {x}
    PROVE  /\ IsFiniteSet(T)
           /\ Cardinality(T) \in Nat /\ Cardinality(S) \in Nat
           /\ Cardinality(T) + 1 <= Cardinality(S)
<1>1. /\ IsFiniteSet(S \ {x}) /\ Cardinality(S) \in Nat
      /\ Cardinality(S \ {x}) \in Nat
      /\ Cardinality(S \ {x}) = Cardinality(S) - 1
  BY FS_RemoveElement, FS_CardinalityType
<1>2. /\ IsFiniteSet(T) /\ Cardinality(T) \in Nat
      /\ Cardinality(T) <= Cardinality(S \ {x})
  BY <1>1, CountPart
<1> QED
  BY <1>1, <1>2

\* A new element has come.
LEMMA CountNew ==
    ASSUME NEW S, IsFiniteSet(S), NEW x, x \notin S
    PROVE  /\ IsFiniteSet(S \cup {x})
           /\ Cardinality(S) \in Nat
           /\ Cardinality(S \cup {x}) = Cardinality(S) + 1
BY FS_AddElement, FS_CardinalityType

\* What two sets cover between them.
LEMMA CountBoth ==
    ASSUME NEW S, IsFiniteSet(S), NEW T, IsFiniteSet(T), NEW U, U \subseteq S \cup T
    PROVE  /\ IsFiniteSet(U)
           /\ Cardinality(U) \in Nat /\ Cardinality(S) \in Nat /\ Cardinality(T) \in Nat
           /\ Cardinality(U) <= Cardinality(S) + Cardinality(T)
<1>1. IsFiniteSet(S \cap T) /\ Cardinality(S \cap T) \in Nat
  BY FS_Intersection, FS_CardinalityType
<1>2. /\ IsFiniteSet(S \cup T) /\ Cardinality(S) \in Nat /\ Cardinality(T) \in Nat
      /\ Cardinality(S \cup T) = Cardinality(S) + Cardinality(T) - Cardinality(S \cap T)
  BY FS_Union, FS_CardinalityType
<1>3. /\ IsFiniteSet(U) /\ Cardinality(U) \in Nat
      /\ Cardinality(U) <= Cardinality(S \cup T)
  BY <1>2, CountPart
<1> QED
  BY <1>1, <1>2, <1>3

\* No more values than arguments.
LEMMA CountImage ==
    ASSUME NEW S, IsFiniteSet(S), NEW V, NEW f \in [S -> V],
           NEW T, \A t \in T : \E x \in S : f[x] = t
    PROVE  /\ IsFiniteSet(T)
           /\ Cardinality(T) \in Nat /\ Cardinality(S) \in Nat
           /\ Cardinality(T) <= Cardinality(S)
<1> DEFINE R == {f[x] : x \in S}
<1>1. f \in Surjection(S, R)
  BY DEF Surjection
<1>2. IsFiniteSet(R) /\ Cardinality(R) <= Cardinality(S) /\ Cardinality(R) \in Nat
  <2> HIDE DEF R
  <2> QED
    BY <1>1, FS_Surjection, FS_CardinalityType
<1>3. Cardinality(S) \in Nat
  BY FS_CardinalityType
<1>t. T \subseteq R
  OBVIOUS
<1> HIDE DEF R
<1>4. IsFiniteSet(T) /\ Cardinality(T) \in Nat /\ Cardinality(T) <= Cardinality(R)
  BY <1>2, <1>t, CountPart
<1> QED
  BY <1>2, <1>3, <1>4

\* A set and one of its parts.
LEMMA CountRest ==
    ASSUME NEW S, IsFiniteSet(S), NEW T, T \subseteq S
    PROVE  /\ IsFiniteSet(T) /\ IsFiniteSet(S \ T)
           /\ Cardinality(T) \in Nat /\ Cardinality(S \ T) \in Nat
           /\ Cardinality(S) = Cardinality(T) + Cardinality(S \ T)
<1>1. IsFiniteSet(T) /\ Cardinality(T) \in Nat /\ Cardinality(S) \in Nat
  BY CountPart
<1>2. IsFiniteSet(S \ T) /\ Cardinality(S \ T) = Cardinality(S) - Cardinality(S \cap T)
  BY FS_Difference
<1>3. S \cap T = T /\ Cardinality(S \ T) \in Nat
  BY <1>2, FS_CardinalityType
<1> QED
  BY <1>1, <1>2, <1>3

\* Of a finite set of numbers, as many as one likes are the greatest ones.
LEMMA CountLatest ==
    ASSUME NEW W, IsFiniteSet(W), W \subseteq Int, NEW n \in Nat, n <= Cardinality(W)
    PROVE  Cardinality({i \in W : Cardinality({j \in W : j > i}) < n}) = n
<1> DEFINE After(i) == {j \in W : j > i}
           T == {i \in W : Cardinality(After(i)) < n}
           rank == [i \in W |-> Cardinality(After(i)) + 1]
<1>0. PICK size \in Nat : size = Cardinality(W)
  BY FS_CardinalityType
<1>1. ASSUME NEW i \in W
      PROVE  /\ IsFiniteSet(After(i)) /\ Cardinality(After(i)) \in Nat
             /\ Cardinality(After(i)) + 1 <= size
  <2>1. After(i) \subseteq W \ {i} /\ i \in Int
    OBVIOUS
  <2> QED
    BY <1>0, <2>1, CountLoss
<1>2. ASSUME NEW i \in W, NEW j \in W, i < j PROVE rank[j] < rank[i]
  <2>1. After(j) \subseteq After(i) \ {j}
    <3>1. i \in Int /\ j \in Int /\ \A k \in W : k \in Int
      OBVIOUS
    <3>2. ASSUME NEW k \in W, k > j PROVE k > i /\ k # j
      BY <1>2, <3>1, <3>2
    <3> QED
      BY <3>2
  <2>2. j \in After(i)
    BY <1>2
  <2>3. Cardinality(After(j)) + 1 <= Cardinality(After(i))
    BY <1>1, <2>1, <2>2, CountLoss
  <2> QED
    BY <1>1, <2>3
<1>4. IsFiniteSet(1..size) /\ Cardinality(1..size) = size /\ IsFiniteSet(1..n) /\ Cardinality(1..n) = n
  <2>1. ASSUME NEW m \in Nat PROVE IsFiniteSet(1..m) /\ Cardinality(1..m) = m
    <3>1. /\ IsFiniteSet(1..m)
          /\ Cardinality(1..m) = IF 1 > m THEN 0 ELSE m - 1 + 1
      BY FS_Interval
    <3> QED
      BY <3>1
  <2> QED
    BY <2>1
<1>5. rank \in Injection(W, 1..size)
  <2>1. rank \in [W -> 1..size]
    BY <1>0, <1>1
  <2> HIDE DEF rank
  <2>2. ASSUME NEW i \in W, NEW j \in W, rank[i] = rank[j] PROVE i = j
    <3>1. PICK a \in Int : a = rank[i] /\ a = rank[j]
      BY <2>1, <2>2
    <3>2. i \in Int /\ j \in Int
      OBVIOUS
    <3>3. ASSUME i < j PROVE FALSE
      <4>1. rank[j] < rank[i]
        BY <1>2, <3>3
      <4> QED
        BY <3>1, <4>1
    <3>4. ASSUME j < i PROVE FALSE
      <4>1. rank[i] < rank[j]
        BY <1>2, <3>4
      <4> QED
        BY <3>1, <4>1
    <3> QED
      BY <3>2, <3>3, <3>4
  <2> QED
    BY <2>1, <2>2 DEF Injection, IsInjective
<1>6. rank \in Surjection(W, 1..size)
  BY <1>0, <1>4, <1>5, FS_Injection
<1>7. T \subseteq W /\ IsFiniteSet(T)
  BY FS_Subset
<1> DEFINE top == [i \in T |-> Cardinality(After(i)) + 1]
<1>8. top \in Injection(T, 1..n)
  <2>1. \A i \in T : top[i] = rank[i] /\ top[i] \in 1..n
    BY <1>1
  <2>2. top \in [T -> 1..n]
    BY <2>1
  <2>3. \A i, j \in T : top[i] = top[j] => i = j
    BY <1>5, <1>7, <2>1 DEF Injection, IsInjective
  <2> QED
    BY <2>2, <2>3 DEF Injection, IsInjective
<1>9. top \in Surjection(T, 1..n)
  <2>1. ASSUME NEW k \in 1..n PROVE \E i \in T : top[i] = k
    <3>1. k \in 1..size
      BY <1>0
    <3>2. PICK i \in W : rank[i] = k
      BY <1>6, <3>1 DEF Surjection
    <3>3. i \in T
      BY <1>1, <3>2
    <3> QED
      BY <3>2, <3>3
  <2> QED
    BY <1>8, <2>1 DEF Surjection, Injection
<1>10. Cardinality(T) = Cardinality(1..n)
  BY <1>4, <1>8, <1>9, FS_Injection
<1> QED
  BY <1>4, <1>10

\* Induction over the parts of a finite set, for a set of parts instead of a predicate:
\* of the parts that are not in it, take one with the fewest elements.
LEMMA PartsOneByOne ==
    ASSUME NEW S, IsFiniteSet(S), NEW Good, {} \in Good,
           \A s \in SUBSET S : s # {} => \E k \in s : s \ {k} \in Good => s \in Good
    PROVE  S \in Good
<1> SUFFICES ASSUME S \notin Good PROVE FALSE
  OBVIOUS
<1> DEFINE Sizes == {n \in Nat : \E s \in SUBSET S : s \notin Good /\ Cardinality(s) = n}
<1>1. Cardinality(S) \in Sizes
  BY FS_CardinalityType
<1>2. PICK n \in Sizes : \A m \in Sizes : ~ (<<m, n>> \in OpToRel(<, Nat))
  <2>1. Sizes \subseteq Nat /\ Sizes # {}
    BY <1>1
  <2> HIDE DEF Sizes
  <2> QED
    BY <2>1, WFMin, NatLessThanWellFounded
<1>3. PICK s \in SUBSET S : s \notin Good /\ Cardinality(s) = n
  BY <1>2
<1>4. PICK k \in s : s \ {k} \in Good => s \in Good
  BY <1>3
<1>5. IsFiniteSet(s) /\ n \in Nat
  BY <1>2, FS_Subset
<1>6. Cardinality(s \ {k}) = n - 1 /\ Cardinality(s \ {k}) \in Nat /\ s \ {k} \in SUBSET S
  <2>1. IsFiniteSet(s \ {k}) /\ Cardinality(s \ {k}) = n - 1
    BY <1>3, <1>5, FS_RemoveElement
  <2> QED
    BY <2>1, FS_CardinalityType
<1>7. s \ {k} \notin Good
  BY <1>3, <1>4
<1>8. n - 1 \in Sizes /\ n - 1 \in Nat
  BY <1>6, <1>7
<1>9. ~ (<<n - 1, n>> \in OpToRel(<, Nat))
  BY <1>2, <1>8
<1> QED
  BY <1>5, <1>8, <1>9 DEF OpToRel

\* Sets that two or three others are divided into.
LEMMA CountTwo ==
    ASSUME NEW S, IsFiniteSet(S), NEW T, T \subseteq S, NEW U, U = S \ T
    PROVE  /\ Cardinality(T) \in Nat /\ Cardinality(U) \in Nat
           /\ Cardinality(S) = Cardinality(T) + Cardinality(U)
BY CountRest

Divided(S, T, U, V) == T \subseteq S /\ U \subseteq S /\ T \cap U = {} /\ V = (S \ T) \ U

\* The sizes of the three add up.
LEMMA CountThree ==
    ASSUME NEW S, IsFiniteSet(S), NEW T, NEW U, NEW V, Divided(S, T, U, V)
    PROVE  /\ Cardinality(T) \in Nat /\ Cardinality(U) \in Nat /\ Cardinality(V) \in Nat
           /\ Cardinality(S) = Cardinality(T) + Cardinality(U) + Cardinality(V)
<1>1. PICK R : R = S \ T
  OBVIOUS
<1>2. IsFiniteSet(R) /\ U \subseteq R /\ V = R \ U
  BY <1>1, CountRest DEF Divided
<1>3. /\ Cardinality(T) \in Nat /\ Cardinality(R) \in Nat
      /\ Cardinality(S) = Cardinality(T) + Cardinality(R)
  BY <1>1, CountTwo DEF Divided
<1>4. /\ Cardinality(U) \in Nat /\ Cardinality(V) \in Nat
      /\ Cardinality(R) = Cardinality(U) + Cardinality(V)
  <2>1. /\ Cardinality(U) \in Nat /\ Cardinality(R \ U) \in Nat
        /\ Cardinality(R) = Cardinality(U) + Cardinality(R \ U)
    BY <1>2, CountRest
  <2> QED
    BY <1>2, <2>1
<1> QED
  BY <1>3, <1>4

\* Induction over the numbers, likewise.
LEMMA NumbersOneByOne ==
    ASSUME NEW Good, 0 \in Good, \A n \in Nat : n \in Good => n + 1 \in Good
    PROVE  \A n \in Nat : n \in Good
<1> DEFINE Bad == {n \in Nat : n \notin Good}
<1> SUFFICES ASSUME Bad # {} PROVE FALSE
  OBVIOUS
<1>1. PICK n \in Bad : \A m \in Bad : ~ (<<m, n>> \in OpToRel(<, Nat))
  <2>1. Bad \subseteq Nat
    OBVIOUS
  <2> HIDE DEF Bad
  <2> QED
    BY <2>1, WFMin, NatLessThanWellFounded
<1>2. n \in Nat /\ n # 0 /\ n \notin Good
  BY <1>1
<1>3. n - 1 \in Nat /\ (n - 1) + 1 = n /\ n - 1 < n
  BY <1>2
<1>4. n - 1 \in Bad
  BY <1>2, <1>3
<1> QED
  BY <1>1, <1>3, <1>4 DEF OpToRel

\* A fold over S: from base, by h at the element that is picked.
FoldOver(S, V, base, pick, h) ==
    /\ base \in V
    /\ \A s \in SUBSET S : s # {} => pick[s] \in s
    /\ h \in [SUBSET S -> [V -> V]]

Folds(f, S, V, base, pick, h) ==
    /\ f \in [SUBSET S -> V]
    /\ \A s \in SUBSET S : f[s] = IF s = {} THEN base ELSE h[s][f[s \ {pick[s]}]]

\* What a fold over a finite set is defined by has a solution: it can be built for the
\* parts of any number of elements.
LEMMA FoldSolved ==
    ASSUME NEW S, IsFiniteSet(S), NEW V, NEW base, NEW pick, NEW h,
           FoldOver(S, V, base, pick, h)
    PROVE  \E f : Folds(f, S, V, base, pick, h)
<1> DEFINE Small(n) == {s \in SUBSET S : Cardinality(s) <= n}
           Value(f, s) == IF s = {} THEN base ELSE h[s][f[s \ {pick[s]}]]
           Solves(f, n) == f \in [Small(n) -> V] /\ \A s \in Small(n) : f[s] = Value(f, s)
           Good == {n \in Nat : \E f : Solves(f, n)}
<1>0. /\ base \in V
      /\ \A s \in SUBSET S : s # {} => pick[s] \in s
      /\ h \in [SUBSET S -> [V -> V]]
  BY DEF FoldOver
<1>1. ASSUME NEW s \in SUBSET S
      PROVE  IsFiniteSet(s) /\ Cardinality(s) \in Nat /\ Cardinality(s) <= Cardinality(S)
             /\ Cardinality(S) \in Nat /\ (s = {} <=> Cardinality(s) = 0)
  BY CountPart, FS_EmptySet
<1>2. ASSUME NEW n \in Nat, NEW s \in Small(n + 1), s # {}
      PROVE  s \ {pick[s]} \in Small(n) /\ s \in SUBSET S
  <2>1. s \in SUBSET S /\ pick[s] \in s /\ Cardinality(s) <= n + 1
    BY <1>0, <1>2
  <2>2. IsFiniteSet(s) /\ Cardinality(s) \in Nat
    BY <1>1, <2>1
  <2>3. Cardinality(s \ {pick[s]}) = Cardinality(s) - 1
    <3>1. PICK k : k = pick[s] /\ k \in s
      BY <2>1
    <3>2. Cardinality(s \ {k}) = Cardinality(s) - 1
      BY <2>2, <3>1, FS_RemoveElement
    <3> QED
      BY <3>1, <3>2
  <2> QED
    BY <2>1, <2>2, <2>3
<1>3. 0 \in Good
  <2>1. \A s \in Small(0) : s = {}
    BY <1>1
  <2>2. Solves([s \in Small(0) |-> base], 0)
    BY <1>0, <2>1
  <2> QED
    BY <2>2
<1>4. ASSUME NEW n \in Nat, n \in Good PROVE n + 1 \in Good
  <2>1. PICK f : Solves(f, n)
    BY <1>4
  <2>2. PICK g : g = [s \in Small(n + 1) |-> Value(f, s)]
    OBVIOUS
  <2>3. ASSUME NEW s \in Small(n + 1) PROVE g[s] \in V
    <3>1. CASE s = {}
      BY <1>0, <2>2, <3>1
    <3>2. CASE s # {}
      <4>1. s \ {pick[s]} \in Small(n) /\ s \in SUBSET S
        BY <1>2, <3>2
      <4>2. f[s \ {pick[s]}] \in V
        BY <2>1, <4>1
      <4>3. h[s] \in [V -> V]
        BY <1>0, <4>1
      <4>4. g[s] = h[s][f[s \ {pick[s]}]]
        BY <2>2, <3>2
      <4> QED
        BY <4>2, <4>3, <4>4
    <3> QED
      BY <3>1, <3>2
  <2>4. ASSUME NEW s \in Small(n) PROVE s \in Small(n + 1) /\ g[s] = f[s]
    <3>1. s \in Small(n + 1)
      BY <1>1
    <3>2. f[s] = Value(f, s)
      BY <2>1
    <3> QED
      BY <2>2, <3>1, <3>2
  <2>5. ASSUME NEW s \in Small(n + 1) PROVE g[s] = Value(g, s)
    <3>1. CASE s = {}
      BY <2>2, <3>1
    <3>2. CASE s # {}
      <4>1. g[s \ {pick[s]}] = f[s \ {pick[s]}]
        BY <1>2, <2>4, <3>2
      <4> QED
        BY <2>2, <3>2, <4>1
    <3> QED
      BY <3>1, <3>2
  <2>6. g \in [Small(n + 1) -> V]
    BY <2>2, <2>3
  <2>7. Solves(g, n + 1)
    BY <2>5, <2>6
  <2>8. n + 1 \in Nat /\ \E x : Solves(x, n + 1)
    <3> HIDE DEF Solves
    <3> QED
      BY <2>7
  <2> HIDE DEF Solves
  <2> QED
    BY <2>8
<1>5. \A n \in Nat : n \in Good
  <2> HIDE DEF Good
  <2> QED
    BY <1>3, <1>4, NumbersOneByOne
<1>6. PICK f : Solves(f, Cardinality(S))
  <2>1. Cardinality(S) \in Nat
    BY <1>1
  <2> QED
    BY <1>5, <2>1
<1>7. Small(Cardinality(S)) = SUBSET S
  BY <1>1
<1> QED
  BY <1>6, <1>7 DEF Folds

\* What a sum adds up: the sizes of sets that are apart from one another.
Portions(S, P, w) ==
    /\ \A k \in S : IsFiniteSet(P[k]) /\ w[k] = Cardinality(P[k])
    /\ \A k, j \in S : k # j => P[k] \cap P[j] = {}

Picks(S, pick) == \A s \in SUBSET S : s # {} => pick[s] \in s

Together(s, P) == UNION {P[k] : k \in s}

\* f is the sum of w over the parts of S, as a fold defines it.
Sums(f, S, pick, w) ==
    f = CHOOSE g : g = [s \in SUBSET S |-> IF s = {} THEN 0 ELSE g[s \ {pick[s]}] + w[pick[s]]]

\* Without one of them, the sets together are smaller by its size.
LEMMA TogetherLess ==
    ASSUME NEW S, IsFiniteSet(S), NEW P, NEW w, Portions(S, P, w)
    PROVE  /\ \A s \in SUBSET S : IsFiniteSet(Together(s, P)) /\ Cardinality(Together(s, P)) \in Nat
           /\ \A s \in SUBSET S : \A k \in s :
                Cardinality(Together(s, P)) = Cardinality(Together(s \ {k}, P)) + w[k]
           /\ Cardinality(Together({}, P)) = 0
<1>1. \A s \in SUBSET S : \A k \in s : Together(s, P) = Together(s \ {k}, P) \cup P[k]
  BY DEF Together
<1>2. Together({}, P) = {}
  BY DEF Together
<1>3. ASSUME NEW s \in SUBSET S PROVE IsFiniteSet(Together(s, P))
  <2>1. PICK Good : Good = {r \in SUBSET s : IsFiniteSet(Together(r, P))}
    OBVIOUS
  <2>2. {} \in Good
    BY <1>2, <2>1, FS_EmptySet
  <2>3. ASSUME NEW r \in SUBSET s, r # {} PROVE \E k \in r : r \ {k} \in Good => r \in Good
    <3>1. PICK k \in r : TRUE
      BY <2>3
    <3>2. ASSUME r \ {k} \in Good PROVE r \in Good
      <4>1. PICK A, B : A = Together(r \ {k}, P) /\ B = P[k] /\ IsFiniteSet(A) /\ IsFiniteSet(B)
        BY <2>1, <3>2 DEF Portions
      <4>2. IsFiniteSet(A \cup B)
        BY <4>1, FS_Union
      <4>3. Together(r, P) = A \cup B
        BY <1>1, <4>1
      <4> QED
        BY <2>1, <4>2, <4>3
    <3> QED
      BY <3>1, <3>2
  <2>4. s \in Good
    <3>1. IsFiniteSet(s)
      BY FS_Subset
    <3> QED
      BY <2>2, <2>3, <3>1, PartsOneByOne
  <2> QED
    BY <2>1, <2>4
<1>4. ASSUME NEW s \in SUBSET S, NEW k \in s
      PROVE  Cardinality(Together(s, P)) = Cardinality(Together(s \ {k}, P)) + w[k]
  <2>1. PICK A, B : A = Together(s \ {k}, P) /\ B = P[k]
    OBVIOUS
  <2>2. IsFiniteSet(A) /\ IsFiniteSet(B) /\ w[k] = Cardinality(B)
    BY <1>3, <2>1 DEF Portions
  <2>3. A \cap B = {}
    BY <2>1 DEF Together, Portions
  <2>4. /\ Cardinality(A) \in Nat /\ Cardinality(B) \in Nat
        /\ Cardinality(A \cup B) = Cardinality(A) + Cardinality(B) - Cardinality(A \cap B)
    BY <2>2, FS_Union, FS_CardinalityType
  <2>5. Cardinality(A \cap B) = 0
    BY <2>3, FS_EmptySet
  <2>6. Together(s, P) = A \cup B
    BY <1>1, <2>1
  <2> QED
    BY <2>1, <2>2, <2>4, <2>5, <2>6
<1>5. Cardinality(Together({}, P)) = 0
  BY <1>2, FS_EmptySet
<1> QED
  BY <1>3, <1>4, <1>5, FS_CardinalityType

\* Such a sum is the size of the sets together, in whatever order it is taken.
LEMMA SumIs ==
    ASSUME NEW S, IsFiniteSet(S), NEW P, NEW w, Portions(S, P, w),
           NEW pick, Picks(S, pick),
           NEW f, Sums(f, S, pick, w)
    PROVE  /\ IsFiniteSet(Together(S, P)) /\ Cardinality(Together(S, P)) \in Nat
           /\ f[S] = Cardinality(Together(S, P))
<1> DEFINE Step(g) == [s \in SUBSET S |->
                         IF s = {} THEN 0 ELSE g[s \ {pick[s]}] + w[pick[s]]]
<1>1. PICK goal : goal = [s \in SUBSET S |-> Cardinality(Together(s, P))]
  OBVIOUS
<1>2. goal[{}] = 0 /\ \A s \in SUBSET S : \A k \in s : goal[s] = goal[s \ {k}] + w[k]
  <2>1. {} \in SUBSET S /\ \A s \in SUBSET S : \A k \in s : s \ {k} \in SUBSET S
    OBVIOUS
  <2>2. /\ \A s \in SUBSET S : \A k \in s :
             Cardinality(Together(s, P)) = Cardinality(Together(s \ {k}, P)) + w[k]
        /\ Cardinality(Together({}, P)) = 0
    BY TogetherLess
  <2> QED
    BY <1>1, <2>1, <2>2
<1>3. \A s \in SUBSET S : s # {} => pick[s] \in s
  BY DEF Picks
<1>4. goal = Step(goal)
  <2>1. ASSUME NEW s \in SUBSET S
        PROVE  goal[s] = IF s = {} THEN 0 ELSE goal[s \ {pick[s]}] + w[pick[s]]
    BY <1>2, <1>3
  <2> QED
    BY <1>1, <2>1
<1>5. f = Step(f)
  <2>1. \E g : g = Step(g)
    BY <1>4
  <2>2. f = CHOOSE g : g = Step(g)
    BY DEF Sums
  <2> HIDE DEF Step
  <2> QED
    BY <2>1, <2>2
<1>6. \A s \in SUBSET S : f[s] = IF s = {} THEN 0 ELSE f[s \ {pick[s]}] + w[pick[s]]
  BY <1>5
<1> HIDE DEF Step
<1>7. PICK Good : Good = {s \in SUBSET S : f[s] = goal[s]}
  OBVIOUS
<1>8. {} \in Good
  BY <1>2, <1>6, <1>7
<1>9. ASSUME NEW s \in SUBSET S, s # {} PROVE \E k \in s : s \ {k} \in Good => s \in Good
  <2>1. PICK k \in s : k = pick[s]
    BY <1>3, <1>9
  <2>2. f[s] = f[s \ {k}] + w[k] /\ goal[s] = goal[s \ {k}] + w[k]
    BY <1>2, <1>6, <1>9, <2>1
  <2>3. s \ {k} \in Good => s \in Good
    BY <1>7, <2>2
  <2> QED
    BY <2>3
<1>10. S \in Good
  BY <1>8, <1>9, PartsOneByOne
<1> QED
  BY <1>1, <1>7, <1>10, TogetherLess

\* total is the sum of w over S, as a fold in no particular order defines it.
Some(s) == CHOOSE x \in s : TRUE

SetSum(total, S, w) ==
    total = (CHOOSE g : g = [s \in SUBSET S |->
               IF s = {} THEN 0 ELSE w[Some(s)] + g[s \ {Some(s)}]])[S]

\* So is the sum that the community modules' folds over a set take.
LEMMA SetSumIs ==
    ASSUME NEW S, IsFiniteSet(S), NEW P, NEW w, Portions(S, P, w),
           NEW total, SetSum(total, S, w)
    PROVE  /\ IsFiniteSet(Together(S, P)) /\ Cardinality(Together(S, P)) \in Nat
           /\ total = Cardinality(Together(S, P))
<1> DEFINE Step(g) == [s \in SUBSET S |->
                         IF s = {} THEN 0 ELSE w[Some(s)] + g[s \ {Some(s)}]]
<1>1. PICK goal : goal = [s \in SUBSET S |-> Cardinality(Together(s, P))]
  OBVIOUS
<1>2. /\ goal[{}] = 0
      /\ \A s \in SUBSET S : \A k \in s : goal[s] = w[k] + goal[s \ {k}]
  <2>1. {} \in SUBSET S /\ \A s \in SUBSET S : \A k \in s : s \ {k} \in SUBSET S
    OBVIOUS
  <2>2. /\ \A s \in SUBSET S : Cardinality(Together(s, P)) \in Nat
        /\ \A s \in SUBSET S : \A k \in s :
             Cardinality(Together(s, P)) = Cardinality(Together(s \ {k}, P)) + w[k]
        /\ Cardinality(Together({}, P)) = 0
    BY TogetherLess
  <2>3. \A k \in S : w[k] \in Nat
    BY FS_CardinalityType DEF Portions
  <2>4. ASSUME NEW s \in SUBSET S, NEW k \in s PROVE goal[s] = w[k] + goal[s \ {k}]
    <3>1. PICK a, b, c : /\ a = Cardinality(Together(s, P)) /\ b = Cardinality(Together(s \ {k}, P))
                         /\ c = w[k] /\ b \in Nat /\ c \in Nat /\ a = b + c
      BY <2>1, <2>2, <2>3
    <3>2. goal[s] = a /\ goal[s \ {k}] = b
      BY <1>1, <2>1, <3>1
    <3> QED
      BY <3>1, <3>2
  <2> QED
    BY <1>1, <2>1, <2>2, <2>4
<1>3. \A s \in SUBSET S : s # {} => Some(s) \in s
  BY DEF Some
<1>4. goal = Step(goal)
  <2>1. ASSUME NEW s \in SUBSET S
        PROVE  goal[s] = IF s = {} THEN 0 ELSE w[Some(s)] + goal[s \ {Some(s)}]
    BY <1>2, <1>3
  <2> QED
    BY <1>1, <2>1
<1>5. PICK f : f = Step(f) /\ total = f[S]
  <2>1. \E g : g = Step(g)
    BY <1>4
  <2>2. total = (CHOOSE g : g = Step(g))[S]
    BY DEF SetSum
  <2> HIDE DEF Step
  <2>3. (CHOOSE g : g = Step(g)) = Step(CHOOSE g : g = Step(g))
    BY <2>1
  <2> QED
    BY <2>2, <2>3
<1>6. \A s \in SUBSET S : f[s] = IF s = {} THEN 0 ELSE w[Some(s)] + f[s \ {Some(s)}]
  BY <1>5
<1> HIDE DEF Step
<1>7. PICK Good : Good = {s \in SUBSET S : f[s] = goal[s]}
  OBVIOUS
<1>8. {} \in Good
  BY <1>2, <1>6, <1>7
<1>9. ASSUME NEW s \in SUBSET S, s # {} PROVE \E k \in s : s \ {k} \in Good => s \in Good
  <2>1. PICK k \in s : k = Some(s)
    BY <1>3, <1>9
  <2>2. f[s] = w[k] + f[s \ {k}] /\ goal[s] = w[k] + goal[s \ {k}]
    BY <1>2, <1>6, <1>9, <2>1
  <2>3. s \ {k} \in Good => s \in Good
    BY <1>7, <2>2
  <2> QED
    BY <2>3
<1>10. S \in Good
  BY <1>8, <1>9, PartsOneByOne
<1> QED
  BY <1>1, <1>5, <1>7, <1>10, TogetherLess

\* A finite set of numbers has a greatest one.
LEMMA HasGreatest ==
    ASSUME NEW S, IsFiniteSet(S), S \subseteq Int, S # {}
    PROVE  \E x \in S : \A y \in S : x >= y
<1> DEFINE Greatest(s) == s = {} \/ \E x \in s : \A y \in s : x >= y
<1>1. PICK Good : Good = {s \in SUBSET S : Greatest(s)}
  OBVIOUS
<1>2. ASSUME NEW s \in SUBSET S, s # {}
      PROVE  \E k \in s : s \ {k} \in Good => s \in Good
  <2>1. PICK k : k \in s
    BY <1>2
  <2>2. ASSUME s \ {k} \in Good PROVE Greatest(s)
    <3>1. \A y \in s : y \in Int
      OBVIOUS
    <3>2. CASE s \ {k} = {}
      <4>1. \A y \in s : k >= y
        BY <2>1, <3>1, <3>2
      <4> QED
        BY <2>1, <4>1
    <3>3. CASE s \ {k} # {}
      <4>1. PICK x \in s \ {k} : \A y \in s \ {k} : x >= y
        BY <1>1, <2>2, <3>3
      <4>2. CASE x >= k
        <5>1. \A y \in s : x >= y
          BY <4>1, <4>2
        <5> QED
          BY <4>1, <5>1
      <4>3. CASE ~(x >= k)
        <5>1. \A y \in s : k >= y
          BY <2>1, <3>1, <4>1, <4>3
        <5> QED
          BY <2>1, <5>1
      <4> QED
        BY <4>2, <4>3
    <3> QED
      BY <3>2, <3>3
  <2>3. s \ {k} \in Good => s \in Good
    BY <1>1, <2>2
  <2> QED
    BY <2>1, <2>3
<1>3. {} \in Good
  BY <1>1
<1>4. S \in Good
  BY <1>2, <1>3, PartsOneByOne
<1> QED
  BY <1>1, <1>4

\* The times from a up to b.
LEMMA SpanCount ==
    ASSUME NEW a \in Int, NEW b \in Int, NEW T, T = {t \in Int : a <= t /\ t < b}
    PROVE  /\ IsFiniteSet(T)
           /\ Cardinality(T) = IF a < b THEN b - a ELSE 0
<1>1. PICK c \in Int : c = b - 1
  OBVIOUS
<1>2. T = a..c
  BY <1>1
<1>3. /\ IsFiniteSet(a..c)
      /\ Cardinality(a..c) = IF a > c THEN 0 ELSE c - a + 1
  BY FS_Interval
<1>4. PICK n : n = Cardinality(T) /\ n = IF a > c THEN 0 ELSE c - a + 1
  BY <1>2, <1>3
<1>5. n = IF a < b THEN b - a ELSE 0
  BY <1>1, <1>4
<1> QED
  BY <1>2, <1>3, <1>4, <1>5
=============================================================================
