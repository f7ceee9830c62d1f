----------------------------- MODULE TimeProofs -----------------------------
(***************************************************************************)
(* The net minutes, the heat report and the dashboard count time right:    *)
(* for any number of works, pauses, breaks and records, any length of the  *)
(* hour and any month.                                                     *)
(*                                                                         *)
(* Merging gives intervals in order and apart that cover the same times;   *)
(* so do the pauses of a work, and what is left when they are cut out; the *)
(* breaks of a span are those of each of its days. A sum of lengths of     *)
(* intervals that are apart is the number of times in one of them, and so  *)
(* every number the code adds up is the size of the set of half minutes    *)
(* that the property names.                                                *)
(***************************************************************************)
EXTENDS NetMinutes, Dashboard, Counting, SequenceTheorems

-----------------------------------------------------------------------------
(* The merge of intervals in the order of their beginnings *)

Pairs == Int \X Int

\* Time t is in interval i.
In(t, i) == i[1] <= t /\ t < i[2]

\* What the merge of the intervals of s gives: a list in the order of time, with a gap
\* before each but the first, that covers the same times.
InOrderApart(m) ==
    /\ m \in Seq(Pairs)
    /\ \A k \in 1..Len(m) : m[k][1] < m[k][2]
    /\ \A j, k \in 1..Len(m) : j < k => m[j][2] < m[k][1]

SameTimes(m, s) == \A t \in Int : (\E k \in 1..Len(m) : In(t, m[k])) <=> \E i \in s : In(t, i)

Merged(m, s) ==
    /\ InOrderApart(m)
    /\ SameTimes(m, s)
    /\ \A k \in 1..Len(m) : \E i \in s : i[1] = m[k][1]

\* One more interval, that does not begin before the last, keeps the list as it should be.
LEMMA JoinKeeps ==
    ASSUME NEW s, s \subseteq Pairs, NEW x \in s, x[1] < x[2], \A i \in s : i[1] <= x[1],
           NEW m, Merged(m, s \ {x})
    PROVE  Merged(Join(m, x), s)
<1>1. PICK n \in Nat : n = Len(m)
  BY DEF Merged, InOrderApart
<1>2. PICK a \in Int, b \in Int : a = x[1] /\ b = x[2] /\ a < b
  BY DEF Pairs
<1>3. /\ m \in Seq(Pairs) /\ DOMAIN m = 1..n
      /\ \A k \in 1..n : m[k] \in Pairs /\ m[k][1] \in Int /\ m[k][2] \in Int
  BY <1>1 DEF Merged, InOrderApart, Pairs
<1>4. /\ \A k \in 1..n : m[k][1] < m[k][2]
      /\ \A j, k \in 1..n : j < k => m[j][2] < m[k][1]
  BY <1>1 DEF Merged, InOrderApart
<1>5. \A k \in 1..n : m[k][1] <= a /\ \E i \in s : i[1] = m[k][1]
  BY <1>1, <1>2 DEF Merged
<1>6. ASSUME NEW t \in Int
      PROVE  (\E i \in s : In(t, i)) <=> (\E k \in 1..n : In(t, m[k])) \/ (a <= t /\ t < b)
  <2>1. (\E i \in s : In(t, i)) <=> (\E i \in s \ {x} : In(t, i)) \/ In(t, x)
    OBVIOUS
  <2>2. (\E i \in s \ {x} : In(t, i)) <=> \E k \in 1..n : In(t, m[k])
    BY <1>1 DEF Merged, SameTimes
  <2> QED
    BY <1>2, <2>1, <2>2 DEF In
<1>7. CASE m # <<>> /\ a <= m[n][2]
  <2>1. n > 0 /\ n \in 1..n
    BY <1>1, <1>3, <1>7
  <2>2. PICK c \in Int, d \in Int : c = m[n][1] /\ d = m[n][2] /\ c <= a /\ a <= d /\ c < d
    BY <1>3, <1>4, <1>5, <1>7, <2>1
  <2>3. PICK e \in Int : e = Latest(d, b) /\ e >= d /\ e >= b /\ (e = d \/ e = b)
    BY DEF Latest
  <2>4. PICK u : u = [m EXCEPT ![n] = <<c, e>>]
    OBVIOUS
  <2>5. Join(m, x) = u
    BY <1>1, <1>2, <1>7, <2>2, <2>3, <2>4 DEF Join, Last
  <2>6. /\ u \in Seq(Pairs) /\ Len(u) = n
        /\ \A k \in 1..n : u[k] = IF k = n THEN <<c, e>> ELSE m[k]
    <3>1. <<c, e>> \in Pairs
      BY DEF Pairs
    <3> QED
      BY <1>1, <1>3, <2>1, <2>4, <3>1
  <2>7. \A k \in 1..n : u[k][1] = m[k][1] /\ u[k][2] = IF k = n THEN e ELSE m[k][2]
    BY <2>2, <2>6
  <2>8. \A k \in 1..n : u[k][1] < u[k][2]
    BY <1>3, <1>4, <2>2, <2>3, <2>7
  <2>9. ASSUME NEW j \in 1..n, NEW k \in 1..n, j < k PROVE u[j][2] < u[k][1]
    <3>1. j # n
      BY <2>9
    <3>2. u[j][2] = m[j][2] /\ u[k][1] = m[k][1]
      BY <2>7, <3>1
    <3> QED
      BY <1>4, <2>9, <3>2
  <2>10. ASSUME NEW t \in Int
         PROVE  (\E k \in 1..n : In(t, u[k])) <=> \E i \in s : In(t, i)
    <3>1. In(t, u[n]) <=> In(t, m[n]) \/ (a <= t /\ t < b)
      BY <2>1, <2>2, <2>3, <2>7 DEF In
    <3>2. \A k \in 1..n : k # n => (In(t, u[k]) <=> In(t, m[k]))
      BY <2>6 DEF In
    <3> QED
      BY <1>6, <2>1, <3>1, <3>2
  <2> QED
    BY <1>5, <2>5, <2>6, <2>7, <2>8, <2>9, <2>10 DEF Merged, InOrderApart, SameTimes
<1>8. CASE ~(m # <<>> /\ a <= m[n][2])
  <2>1. PICK u : u = Append(m, x)
    OBVIOUS
  <2>2. Join(m, x) = u
    BY <1>1, <1>2, <1>8, <2>1 DEF Join, Last
  <2>3. /\ u \in Seq(Pairs) /\ Len(u) = n + 1
        /\ \A k \in 1..n : u[k] = m[k]
        /\ u[n + 1] = x
    BY <1>1, <1>3, <2>1
  <2>4. \A k \in 1..n : m[k][2] < a
    <3>1. n > 0 => m[n][2] < a
      BY <1>1, <1>3, <1>8
    <3>2. ASSUME NEW k \in 1..n, k # n PROVE m[k][2] < a
      <4>1. n \in 1..n /\ k < n
        BY <3>2
      <4>2. m[k][2] < m[n][1] /\ m[n][1] < m[n][2] /\ m[n][2] < a
        BY <1>4, <3>1, <4>1
      <4> QED
        BY <1>3, <4>1, <4>2
    <3> QED
      BY <3>1, <3>2
  <2>5. \A k \in 1..(n + 1) : k \in 1..n \/ k = n + 1
    OBVIOUS
  <2>6. \A k \in 1..(n + 1) : u[k][1] < u[k][2]
    BY <1>2, <1>4, <2>3, <2>5
  <2>7. ASSUME NEW j \in 1..(n + 1), NEW k \in 1..(n + 1), j < k PROVE u[j][2] < u[k][1]
    <3>1. j \in 1..n
      BY <2>7
    <3>2. CASE k \in 1..n
      BY <1>4, <2>3, <2>7, <3>1, <3>2
    <3>3. CASE k = n + 1
      BY <1>2, <2>3, <2>4, <3>1, <3>3
    <3> QED
      BY <2>5, <3>2, <3>3
  <2>8. ASSUME NEW t \in Int
        PROVE  (\E k \in 1..(n + 1) : In(t, u[k])) <=> \E i \in s : In(t, i)
    <3>1. In(t, u[n + 1]) <=> (a <= t /\ t < b)
      BY <1>2, <2>3 DEF In
    <3>2. n + 1 \in 1..(n + 1) /\ \A k \in 1..n : k \in 1..(n + 1)
      OBVIOUS
    <3> QED
      BY <1>6, <2>3, <2>5, <3>1, <3>2
  <2>9. \A k \in 1..(n + 1) : \E i \in s : i[1] = u[k][1]
    BY <1>5, <2>3, <2>5
  <2> QED
    BY <2>2, <2>3, <2>6, <2>7, <2>8, <2>9 DEF Merged, InOrderApart, SameTimes
<1> QED
  BY <1>7, <1>8

\* The last of a list in order ends after all others.
LEMMA LastIs ==
    ASSUME NEW s, IsFiniteSet(s), s \subseteq Pairs, s # {}
    PROVE  LastOf(s) \in s /\ \A i \in s : i[1] <= LastOf(s)[1]
<1>1. PICK starts : starts = {i[1] : i \in s}
  OBVIOUS
<1>2. starts \subseteq Int /\ starts # {} /\ IsFiniteSet(starts)
  <2>4. PICK f : f = [i \in s |-> i[1]]
    OBVIOUS
  <2>5. \A i \in s : i[1] \in Int
    BY DEF Pairs
  <2>1. f = [i \in s |-> i[1]] /\ f \in [s -> Int]
    BY <2>4, <2>5
  <2>2. \A t \in starts : \E i \in s : f[i] = t
    BY <1>1, <2>1
  <2>3. IsFiniteSet(starts)
    BY <2>1, <2>2, CountImage
  <2> QED
    BY <1>1, <2>3 DEF Pairs
<1>3. PICK a \in starts : \A y \in starts : a >= y
  BY <1>2, HasGreatest
<1>4. PICK ends : ends = {i[2] : i \in {j \in s : j[1] = a}}
  OBVIOUS
<1>5. ends \subseteq Int /\ ends # {} /\ IsFiniteSet(ends)
  <2>1. PICK T : T = {j \in s : j[1] = a}
    OBVIOUS
  <2>2. IsFiniteSet(T)
    BY <2>1, FS_Subset
  <2>3. ends = {i[2] : i \in T}
    BY <1>4, <2>1
  <2>7. PICK f : f = [i \in T |-> i[2]]
    OBVIOUS
  <2>8. \A i \in T : i[2] \in Int
    BY <2>1 DEF Pairs
  <2>4. f = [i \in T |-> i[2]] /\ f \in [T -> Int]
    BY <2>7, <2>8
  <2>5. \A t \in ends : \E i \in T : f[i] = t
    BY <2>3, <2>4
  <2>6. IsFiniteSet(ends)
    BY <2>2, <2>4, <2>5, CountImage
  <2> QED
    BY <1>1, <1>3, <1>4, <2>6 DEF Pairs
<1>6. PICK b \in ends : \A y \in ends : b >= y
  BY <1>5, HasGreatest
<1>7. PICK x \in s : x[1] = a /\ x[2] = b
  BY <1>4, <1>6
<1>8. ASSUME NEW j \in s PROVE j[1] < x[1] \/ (j[1] = x[1] /\ j[2] <= x[2])
  <2>1. j[1] \in Int /\ j[2] \in Int /\ a \in Int /\ b \in Int
    BY <1>2, <1>3, <1>5, <1>6 DEF Pairs
  <2>2. a >= j[1]
    BY <1>1, <1>3
  <2>3. j[1] = a => b >= j[2]
    BY <1>4, <1>6
  <2> QED
    BY <1>7, <2>1, <2>2, <2>3
<1>9. /\ LastOf(s) \in s
      /\ \A j \in s : j[1] < LastOf(s)[1] \/ (j[1] = LastOf(s)[1] /\ j[2] <= LastOf(s)[2])
  BY <1>7, <1>8 DEF LastOf
<1>10. \A i \in s : i[1] \in Int
  BY DEF Pairs
<1> QED
  BY <1>9, <1>10

\* The merge of any intervals, whatever their order, is such a list of those that last.
LEMMA MergeIs ==
    ASSUME NEW list, IsFiniteSet(list), list \subseteq Pairs
    PROVE  Merged(mergeIntervals(list), {i \in list : i[2] > i[1]})
<1>1. PICK S : S = {i \in list : i[2] > i[1]}
  OBVIOUS
<1>2. IsFiniteSet(S) /\ S \subseteq Pairs /\ \A i \in S : i[1] < i[2]
  <2>1. IsFiniteSet(S) /\ S \subseteq Pairs
    BY <1>1, FS_Subset
  <2>2. \A i \in S : i[1] < i[2]
    BY <1>1 DEF Pairs
  <2> QED
    BY <2>1, <2>2
<1> DEFINE Step(f) == [s \in SUBSET S |->
                         IF s = {} THEN <<>> ELSE Join(f[s \ {LastOf(s)}], LastOf(s))]
           Lists == Seq(Pairs)
<1>3. mergeIntervals(list) = (CHOOSE f : f = Step(f))[S]
  <2>1. mergeIntervals(list) = (CHOOSE f : f = [s \in SUBSET {i \in list : i[2] > i[1]} |->
            IF s = {} THEN <<>> ELSE Join(f[s \ {LastOf(s)}], LastOf(s))])
          [{i \in list : i[2] > i[1]}]
    BY Zenon DEF mergeIntervals, MapThenFoldSet
  <2> QED
    BY <1>1, <2>1
<1>4. PICK pick : pick = [s \in SUBSET S |-> LastOf(s)]
  OBVIOUS
<1>5. ASSUME NEW s \in SUBSET S, s # {}
      PROVE  /\ pick[s] = LastOf(s) /\ LastOf(s) \in s /\ LastOf(s) \in Pairs
             /\ \A i \in s : i[1] <= LastOf(s)[1]
  <2>1. IsFiniteSet(s) /\ s \subseteq Pairs
    BY <1>2, FS_Subset
  <2>2. LastOf(s) \in s /\ \A i \in s : i[1] <= LastOf(s)[1]
    BY <1>5, <2>1, LastIs
  <2> QED
    BY <1>4, <2>1, <2>2
<1>6. ASSUME NEW x \in Pairs, NEW v \in Lists PROVE Join(v, x) \in Lists
  <2>1. PICK n \in Nat : n = Len(v)
    OBVIOUS
  <2>2. CASE v # <<>> /\ x[1] <= v[n][2]
    <3>1. n \in 1..n /\ v[n] \in Pairs
      BY <2>1, <2>2
    <3>2. PICK c \in Int, d \in Int : c = v[n][1] /\ d = Latest(v[n][2], x[2])
      BY <3>1 DEF Pairs, Latest
    <3>3. <<c, d>> \in Pairs
      BY DEF Pairs
    <3>4. [v EXCEPT ![n] = <<c, d>>] \in Seq(Pairs)
      BY <2>1, <3>1, <3>3
    <3>5. Join(v, x) = [v EXCEPT ![n] = <<c, d>>]
      BY <2>1, <2>2, <3>2 DEF Join, Last
    <3> QED
      BY <3>4, <3>5
  <2>3. CASE ~(v # <<>> /\ x[1] <= v[n][2])
    <3>1. Join(v, x) = Append(v, x)
      BY <2>1, <2>3 DEF Join, Last
    <3>2. Append(v, x) \in Seq(Pairs)
      OBVIOUS
    <3> QED
      BY <3>1, <3>2
  <2> QED
    BY <2>2, <2>3
<1>7. PICK h : h = [s \in SUBSET S |-> [v \in Lists |-> IF s = {} THEN v ELSE Join(v, LastOf(s))]]
  OBVIOUS
<1>8. h \in [SUBSET S -> [Lists -> Lists]]
  <2>1. ASSUME NEW s \in SUBSET S, NEW v \in Lists
        PROVE  (IF s = {} THEN v ELSE Join(v, LastOf(s))) \in Lists
    <3>1. CASE s = {}
      BY <3>1
    <3>2. CASE s # {}
      <4>1. Join(v, LastOf(s)) \in Lists
        BY <1>5, <1>6, <3>2
      <4> QED
        BY <3>2, <4>1
    <3> QED
      BY <3>1, <3>2
  <2> HIDE DEF Lists
  <2> QED
    BY <1>7, <2>1
<1>9. <<>> \in Lists
  OBVIOUS
<1> HIDE DEF Lists
<1>10. PICK goal \in [SUBSET S -> Lists] : \A s \in SUBSET S :
          goal[s] = IF s = {} THEN <<>> ELSE h[s][goal[s \ {pick[s]}]]
  <2>1. PICK base : base = <<>>
    OBVIOUS
  <2>2. FoldOver(S, Lists, base, pick, h)
    BY <1>5, <1>8, <1>9, <2>1 DEF FoldOver
  <2>3. PICK g : Folds(g, S, Lists, base, pick, h)
    BY <1>2, <2>2, FoldSolved
  <2> QED
    BY <2>1, <2>3 DEF Folds
<1>11. goal = Step(goal)
  <2>1. ASSUME NEW s \in SUBSET S
        PROVE  goal[s] = IF s = {} THEN <<>> ELSE Join(goal[s \ {LastOf(s)}], LastOf(s))
    <3>1. CASE s = {}
      BY <1>10, <3>1
    <3>2. CASE s # {}
      <4>1. goal[s] = h[s][goal[s \ {LastOf(s)}]] /\ goal[s \ {LastOf(s)}] \in Lists
        BY <1>5, <1>10, <3>2
      <4> QED
        BY <1>7, <3>2, <4>1
    <3> QED
      BY <3>1, <3>2
  <2> QED
    BY <1>10, <2>1
<1>12. PICK f : f = (CHOOSE g : g = Step(g)) /\ f = Step(f)
  <2>1. \E g : g = Step(g)
    BY <1>11
  <2> HIDE DEF Step
  <2>2. (CHOOSE g : g = Step(g)) = Step(CHOOSE g : g = Step(g))
    BY <2>1
  <2> QED
    BY <2>2
<1>13. /\ f[{}] = <<>>
       /\ \A s \in SUBSET S : s # {} => f[s] = Join(f[s \ {LastOf(s)}], LastOf(s))
  <2>1. \A s \in SUBSET S : f[s] = IF s = {} THEN <<>> ELSE Join(f[s \ {LastOf(s)}], LastOf(s))
    BY <1>12
  <2> HIDE DEF Step
  <2> QED
    BY <2>1
<1> HIDE DEF Step
<1>14. PICK Good : Good = {s \in SUBSET S : Merged(f[s], s)}
  OBVIOUS
<1>15. {} \in Good
  <2>1. <<>> \in Seq(Pairs) /\ Len(<<>>) = 0
    OBVIOUS
  <2>2. Merged(<<>>, {})
    BY <2>1 DEF Merged, InOrderApart, SameTimes
  <2> QED
    BY <1>13, <1>14, <2>2
<1>16. ASSUME NEW s \in SUBSET S, s # {} PROVE \E k \in s : s \ {k} \in Good => s \in Good
  <2>1. PICK x \in s : x = LastOf(s) /\ \A i \in s : i[1] <= x[1]
    BY <1>5, <1>16
  <2>2. ASSUME s \ {x} \in Good PROVE s \in Good
    <3>1. s \subseteq Pairs /\ x[1] < x[2]
      BY <1>2, <2>1
    <3>2. PICK m : m = f[s \ {x}] /\ Merged(m, s \ {x})
      BY <1>14, <2>2
    <3>3. Merged(Join(m, x), s)
      BY <2>1, <3>1, <3>2, JoinKeeps
    <3>4. f[s] = Join(m, x)
      BY <1>13, <1>16, <2>1, <3>2
    <3> QED
      BY <1>14, <3>3, <3>4
  <2> QED
    BY <2>2
<1>17. S \in Good
  BY <1>2, <1>15, <1>16, PartsOneByOne
<1> QED
  BY <1>1, <1>3, <1>12, <1>14, <1>17

-----------------------------------------------------------------------------
(* The breaks of a day, and of a span of days *)

\* A number has one quotient and one remainder.
LEMMA DivIs ==
    ASSUME NEW h \in Nat, h > 0, NEW q \in Nat, NEW r \in Nat, r < h, NEW x, x = h * q + r
    PROVE  (x % h) = r /\ (x \div h) = q
<1>1. x \in Nat
  OBVIOUS
<1>2. PICK p \in Nat, u \in Nat : p = x \div h /\ u = (x % h) /\ x = h * p + u /\ u < h
  <2>1. (x % h) \in Nat /\ (x % h) < h
    BY <1>1
  <2>2. x = h * (x \div h) + (x % h)
    BY <1>1
  <2>3. (x \div h) \in Nat
    BY <1>1
  <2> QED
    BY <2>1, <2>2, <2>3
<1>3. ASSUME p < q PROVE FALSE
  <2>1. h * (p + 1) <= h * q
    BY <1>3
  <2>2. h * (p + 1) = h * p + h
    OBVIOUS
  <2> QED
    BY <1>2, <2>1, <2>2
<1>4. ASSUME q < p PROVE FALSE
  <2>1. h * (q + 1) <= h * p
    BY <1>4
  <2>2. h * (q + 1) = h * q + h
    OBVIOUS
  <2> QED
    BY <1>2, <2>1, <2>2
<1>5. p = q
  BY <1>3, <1>4
<1> QED
  BY <1>2, <1>5

\* Local midnight is before the time, less than a day, and is one of whole days.
LEMMA DayNumber ==
    ASSUME NEW t \in Nat
    PROVE  \E q \in Nat, r \in Nat :
              /\ r = (t + KstOffset) % DayLength /\ r < DayLength
              /\ t + KstOffset = DayLength * q + r
              /\ kstDayStart(t) = DayLength * q - KstOffset
              /\ kstDayStart(t) = t - r
<1>0. DayLength \in Nat /\ DayLength > 0 /\ KstOffset \in Nat
  BY WorkTimeAssumption
<1>1. PICK x \in Nat : x = t + KstOffset
  BY <1>0
<1>2. PICK q \in Nat, r \in Nat : /\ q = x \div DayLength /\ r = (x % DayLength)
                                  /\ r < DayLength /\ x = DayLength * q + r
  <2>1. (x % DayLength) \in Nat /\ (x % DayLength) < DayLength
    BY <1>0, <1>1
  <2>2. x = DayLength * (x \div DayLength) + (x % DayLength)
    BY <1>0, <1>1
  <2>3. (x \div DayLength) \in Nat
    BY <1>0, <1>1
  <2> QED
    BY <2>1, <2>2, <2>3
<1>3. kstDayStart(t) = q * DayLength - KstOffset
  BY <1>1, <1>2 DEF kstDayStart
<1>4. q * DayLength = DayLength * q
  BY <1>0
<1> QED
  BY <1>0, <1>1, <1>2, <1>3, <1>4

\* The days of a span: those at a distance of whole days from its first one.
DaysOf(from, to) == {d \in kstDayStart(from)..to :
                       d < to /\ ((d - kstDayStart(from)) % DayLength) = 0}

\* Every time of the span is in exactly one of them, its own.
LEMMA DayIsOne ==
    ASSUME NEW from \in Nat, NEW to \in Int, NEW t \in Nat, from <= t, t < to
    PROVE  /\ kstDayStart(t) \in DaysOf(from, to)
           /\ \A d \in DaysOf(from, to) :
                d <= t /\ t < d + DayLength => d = kstDayStart(t)
<1>0. DayLength \in Nat /\ DayLength > 0 /\ KstOffset \in Nat
  BY WorkTimeAssumption
<1>1. PICK q \in Nat, r \in Nat : /\ r < DayLength
                                  /\ t + KstOffset = DayLength * q + r
                                  /\ kstDayStart(t) = DayLength * q - KstOffset
                                  /\ kstDayStart(t) = t - r
  BY DayNumber
<1>2. PICK p \in Nat, u \in Nat : /\ u < DayLength
                                  /\ from + KstOffset = DayLength * p + u
                                  /\ kstDayStart(from) = DayLength * p - KstOffset
                                  /\ kstDayStart(from) = from - u
  BY DayNumber
<1>3. p <= q
  <2>1. ASSUME q < p PROVE FALSE
    <3>1. DayLength * (q + 1) <= DayLength * p
      BY <1>0, <2>1
    <3>2. DayLength * (q + 1) = DayLength * q + DayLength
      BY <1>0
    <3>3. DayLength * q \in Nat /\ DayLength * p \in Nat
      BY <1>0
    <3> QED
      BY <1>0, <1>1, <1>2, <3>1, <3>2, <3>3
  <2> QED
    BY <2>1
<1>4. kstDayStart(t) \in DaysOf(from, to)
  <2>1. PICK n \in Nat : n = q - p
    BY <1>3
  <2>2. DayLength * q = DayLength * p + DayLength * n
    BY <1>0, <2>1
  <2>3. DayLength * q \in Nat /\ DayLength * p \in Nat /\ DayLength * n \in Nat
    BY <1>0
  <2>4. PICK x \in Nat : x = kstDayStart(t) - kstDayStart(from) /\ x = DayLength * n
    BY <1>0, <1>1, <1>2, <2>2, <2>3
  <2>5. x = DayLength * n + 0
    BY <2>3, <2>4
  <2>6. (x % DayLength) = 0
    BY <1>0, <2>5, DivIs
  <2>7. PICK a \in Int, b \in Int : a = kstDayStart(t) /\ b = kstDayStart(from) /\ a <= t /\ x = a - b
    BY <1>1, <1>2, <2>4
  <2>8. a \in b..to /\ a < to
    BY <2>4, <2>7
  <2> QED
    BY <2>4, <2>6, <2>7, <2>8 DEF DaysOf
<1>5. ASSUME NEW d \in DaysOf(from, to), d <= t, t < d + DayLength PROVE d = kstDayStart(t)
  <2>1. PICK b \in Int : b = kstDayStart(from) /\ b = DayLength * p - KstOffset
    BY <1>0, <1>2
  <2>2. d \in Int /\ b <= d /\ ((d - b) % DayLength) = 0
    BY <2>1 DEF DaysOf
  <2>3. PICK x \in Nat : x = d - b /\ (x % DayLength) = 0
    BY <2>2
  <2>4. PICK n \in Nat : n = x \div DayLength
    BY <1>0
  <2>5. x = DayLength * n
    <3>1. x = DayLength * (x \div DayLength) + (x % DayLength)
      BY <1>0
    <3>2. DayLength * n \in Nat
      BY <1>0
    <3> QED
      BY <2>3, <2>4, <3>1, <3>2
  <2>6. PICK m \in Nat : m = p + n
    OBVIOUS
  <2>7. DayLength * m = DayLength * p + DayLength * n
    BY <1>0, <2>6
  <2>8. PICK v \in Nat : v = t - d /\ v < DayLength
    BY <1>0, <1>5, <2>2
  <2>9. DayLength * p \in Nat /\ DayLength * n \in Nat /\ DayLength * m \in Nat
    BY <1>0
  <2>10. t + KstOffset = DayLength * m + v
    BY <1>0, <2>1, <2>2, <2>3, <2>5, <2>7, <2>8, <2>9
  <2>11. PICK y \in Nat : y = t + KstOffset
    BY <1>0
  <2>12. (y % DayLength) = v
    <3>1. v < DayLength /\ y = DayLength * m + v
      BY <2>8, <2>10, <2>11
    <3> QED
      BY <1>0, <3>1, DivIs
  <2>13. (y % DayLength) = r
    <3>1. r < DayLength /\ y = DayLength * q + r
      BY <1>1, <2>11
    <3> QED
      BY <1>0, <3>1, DivIs
  <2> QED
    BY <1>1, <2>2, <2>8, <2>12, <2>13
<1> QED
  BY <1>4, <1>5

\* The periods of breaks that a day can have, and whether t is in one of them.
Valid(configs) == {c \in configs : c.from >= 0 /\ c.to <= DayLength}

PeriodsOf(configs) == mergeIntervals({<<b.from, b.to>> : b \in Valid(configs)})

InBreak(t, configs) ==
    \E c \in configs : /\ c.to <= DayLength
                       /\ c.from <= ((t + KstOffset) % DayLength)
                       /\ ((t + KstOffset) % DayLength) < c.to

Configs(configs) == IsFiniteSet(configs) /\ \A c \in configs : c.from \in Nat /\ c.to \in Nat

\* The periods of a day are in order, apart and within the day, and cover its valid breaks.
LEMMA PeriodsAre ==
    ASSUME NEW configs, Configs(configs), NEW periods, periods = PeriodsOf(configs)
    PROVE  /\ InOrderApart(periods)
           /\ \A k \in 1..Len(periods) : 0 <= periods[k][1] /\ periods[k][2] <= DayLength
           /\ \A u \in Int : (\E k \in 1..Len(periods) : In(u, periods[k]))
                               <=> \E c \in configs : c.to <= DayLength /\ c.from <= u /\ u < c.to
<1>0. DayLength \in Nat
  BY WorkTimeAssumption
<1>1. PICK valid : valid = Valid(configs)
  OBVIOUS
<1>2. /\ IsFiniteSet(valid)
      /\ \A c \in valid : c \in configs /\ c.from \in Nat /\ c.to \in Nat /\ c.to <= DayLength
      /\ \A c \in configs : c.to <= DayLength => c \in valid
  <2>1. valid \subseteq configs
    BY <1>1 DEF Valid
  <2>2. IsFiniteSet(valid)
    BY <2>1, FS_Subset DEF Configs
  <2>3. \A c \in configs : c \in valid <=> c.to <= DayLength
    BY <1>1 DEF Valid, Configs
  <2> QED
    BY <2>1, <2>2, <2>3 DEF Configs
<1>3. PICK list : list = {<<b.from, b.to>> : b \in valid}
  OBVIOUS
<1>4. IsFiniteSet(list) /\ list \subseteq Pairs
  <2>1. PICK f : f = [b \in valid |-> <<b.from, b.to>>]
    OBVIOUS
  <2>2. \A b \in valid : <<b.from, b.to>> \in Pairs
    BY <1>2 DEF Pairs
  <2>3. f \in [valid -> Pairs]
    BY <2>1, <2>2
  <2>5. \A i \in list : \E b \in valid : f[b] = i
    BY <1>3, <2>1
  <2>6. IsFiniteSet(valid) /\ f \in [valid -> Pairs]
    BY <1>2, <2>3
  <2>7. /\ IsFiniteSet(list)
        /\ Cardinality(list) \in Nat /\ Cardinality(valid) \in Nat
        /\ Cardinality(list) <= Cardinality(valid)
    <3> HIDE DEF Pairs
    <3> QED
      BY <2>5, <2>6, CountImage
  <2> QED
    BY <1>3, <2>2, <2>7
<1>5. PICK lasting : lasting = {i \in list : i[2] > i[1]}
  OBVIOUS
<1>6. Merged(periods, lasting)
  BY <1>1, <1>3, <1>4, <1>5, MergeIs DEF PeriodsOf
<1>7. ASSUME NEW u \in Int
      PROVE  (\E k \in 1..Len(periods) : In(u, periods[k]))
               <=> \E c \in configs : c.to <= DayLength /\ c.from <= u /\ u < c.to
  <2>1. (\E k \in 1..Len(periods) : In(u, periods[k])) <=> \E i \in lasting : In(u, i)
    BY <1>6 DEF Merged, SameTimes
  <2>2. ASSUME NEW i \in lasting, In(u, i)
        PROVE  \E c \in configs : c.to <= DayLength /\ c.from <= u /\ u < c.to
    <3>1. PICK b \in valid : i = <<b.from, b.to>>
      BY <1>3, <1>5
    <3> QED
      BY <1>2, <2>2, <3>1 DEF In
  <2>3. ASSUME NEW c \in configs, c.to <= DayLength, c.from <= u, u < c.to
        PROVE  \E i \in lasting : In(u, i)
    <3>1. PICK i : i = <<c.from, c.to>>
      OBVIOUS
    <3>2. c \in valid /\ c.from \in Nat /\ c.to \in Nat
      BY <1>2, <2>3
    <3>3. i \in list /\ i[1] = c.from /\ i[2] = c.to
      BY <1>3, <3>1, <3>2
    <3>4. i[2] > i[1] /\ In(u, i)
      BY <2>3, <3>2, <3>3 DEF In
    <3> QED
      BY <1>5, <3>3, <3>4
  <2> QED
    BY <2>1, <2>2, <2>3
<1>8. ASSUME NEW k \in 1..Len(periods)
      PROVE  0 <= periods[k][1] /\ periods[k][2] <= DayLength
  <2>1. PICK a \in Int, b \in Int : a = periods[k][1] /\ b = periods[k][2] /\ a < b
    BY <1>6 DEF Merged, InOrderApart, Pairs
  <2>2. In(a, periods[k]) /\ In(b - 1, periods[k]) /\ b - 1 \in Int
    BY <2>1 DEF In
  <2>3. PICK c \in configs : c.to <= DayLength /\ c.from <= a
    BY <1>7, <2>2
  <2>4. PICK e \in configs : e.to <= DayLength /\ b - 1 < e.to
    BY <1>7, <2>2
  <2> QED
    BY <1>0, <2>1, <2>3, <2>4 DEF Configs
<1> QED
  BY <1>6, <1>7, <1>8 DEF Merged

\* What the periods cover of a day, as far as it is in the span.
CoveredBy(from, to, day, p) == Latest(0, Earliest(day + p[2], to) - Latest(day + p[1], from))

DaySum(from, to, periods, day) ==
    FoldLeft(LAMBDA sum, p : sum + CoveredBy(from, to, day, p), 0, periods)

\* The sum over the periods of one day is the number of its times in a break.
LEMMA DayIs ==
    ASSUME NEW from \in Int, NEW to \in Int, NEW day \in Int,
           NEW periods, InOrderApart(periods),
           NEW T, T = {t \in Int : /\ from <= t /\ t < to
                                   /\ \E k \in 1..Len(periods) : In(t - day, periods[k])}
    PROVE  IsFiniteSet(T) /\ DaySum(from, to, periods, day) = Cardinality(T)
<1>1. PICK n \in Nat : n = Len(periods)
  BY DEF InOrderApart
<1>2. PICK D : D = 1..n
  OBVIOUS
<1>3. /\ IsFiniteSet(D) /\ D \subseteq Int /\ D = DOMAIN periods
      /\ \A k \in D : periods[k][1] \in Int /\ periods[k][2] \in Int
      /\ \A k \in D : periods[k][1] < periods[k][2]
      /\ \A j, k \in D : j < k => periods[j][2] < periods[k][1]
  <2>1. IsFiniteSet(1..n)
    BY FS_Interval
  <2>2. periods \in Seq(Pairs)
    BY DEF InOrderApart
  <2>3. \A k \in D : periods[k] \in Pairs
    BY <1>1, <1>2, <2>2
  <2>4. IsFiniteSet(D) /\ D \subseteq Int /\ D = DOMAIN periods
    BY <1>1, <1>2, <2>1, <2>2
  <2>5. \A k \in D : periods[k][1] \in Int /\ periods[k][2] \in Int
    BY <2>3 DEF Pairs
  <2>6. /\ \A k \in D : periods[k][1] < periods[k][2]
        /\ \A j, k \in D : j < k => periods[j][2] < periods[k][1]
    BY <1>1, <1>2 DEF InOrderApart
  <2> QED
    BY <2>4, <2>5, <2>6
<1>4. PICK P : P = [k \in D |-> {t \in Int : from <= t /\ t < to /\ In(t - day, periods[k])}]
  OBVIOUS
<1>5. PICK w : w = [k \in D |-> CoveredBy(from, to, day, periods[k])]
  OBVIOUS
<1>6. ASSUME NEW k \in D PROVE IsFiniteSet(P[k]) /\ w[k] = Cardinality(P[k])
  <2>1. PICK a \in Int, b \in Int : a = periods[k][1] /\ b = periods[k][2]
    BY <1>3
  <2>2. PICK lo \in Int, hi \in Int : lo = Latest(day + a, from) /\ hi = Earliest(day + b, to)
    BY DEF Latest, Earliest
  <2>3. P[k] = {t \in Int : lo <= t /\ t < hi}
    <3>1. \A t \in Int : (from <= t /\ t < to /\ a <= t - day /\ t - day < b)
                           <=> (lo <= t /\ t < hi)
      BY <2>2 DEF Latest, Earliest
    <3> QED
      BY <1>4, <2>1, <3>1 DEF In
  <2>4. IsFiniteSet(P[k]) /\ Cardinality(P[k]) = IF lo < hi THEN hi - lo ELSE 0
    <3>1. PICK S : S = {t \in Int : lo <= t /\ t < hi}
      OBVIOUS
    <3>2. IsFiniteSet(S) /\ Cardinality(S) = IF lo < hi THEN hi - lo ELSE 0
      BY <3>1, SpanCount
    <3> QED
      BY <2>3, <3>1, <3>2
  <2>5. w[k] = Latest(0, hi - lo)
    BY <1>5, <2>1, <2>2 DEF CoveredBy
  <2>6. Latest(0, hi - lo) = IF lo < hi THEN hi - lo ELSE 0
    BY DEF Latest
  <2> QED
    BY <2>4, <2>5, <2>6
<1>7. ASSUME NEW k \in D, NEW j \in D, k # j PROVE P[k] \cap P[j] = {}
  <2>1. ASSUME NEW t \in P[k], t \in P[j] PROVE FALSE
    <3>1. /\ t \in Int
          /\ periods[k][1] <= t - day /\ t - day < periods[k][2]
          /\ periods[j][1] <= t - day /\ t - day < periods[j][2]
      BY <1>4, <2>1 DEF In
    <3>2. k < j \/ j < k
      BY <1>3, <1>7
    <3> QED
      BY <1>3, <3>1, <3>2
  <2> QED
    BY <2>1
<1>8. Portions(D, P, w)
  BY <1>6, <1>7 DEF Portions
<1>9. PICK pick : pick = [s \in SUBSET D |-> Max(s)]
  OBVIOUS
<1>10. ASSUME NEW s \in SUBSET D, s # {} PROVE pick[s] = Max(s) /\ Max(s) \in s
  <2>1. IsFiniteSet(s) /\ s \subseteq Int
    BY <1>3, FS_Subset
  <2>2. \E x \in s : \A y \in s : x >= y
    BY <1>10, <2>1, HasGreatest
  <2> QED
    BY <1>9, <2>2 DEF Max
<1>11. Picks(D, pick)
  BY <1>10 DEF Picks
<1>12. PICK f : Sums(f, D, pick, w)
  BY DEF Sums
<1>13. DaySum(from, to, periods, day) = f[D]
  <2> DEFINE First(g) == [s \in SUBSET D |->
                IF s = {} THEN 0
                ELSE g[s \ {Max(s)}] + CoveredBy(from, to, day, periods[Max(s)])]
             Second(g) == [s \in SUBSET D |->
                IF s = {} THEN 0 ELSE g[s \ {pick[s]}] + w[pick[s]]]
  <2>1. DaySum(from, to, periods, day) = (CHOOSE g : g = [s \in SUBSET DOMAIN periods |->
                IF s = {} THEN 0
                ELSE g[s \ {Max(s)}] + CoveredBy(from, to, day, periods[Max(s)])])[DOMAIN periods]
    BY Zenon DEF DaySum, FoldLeft, MapThenFoldSet
  <2>2. DaySum(from, to, periods, day) = (CHOOSE g : g = First(g))[D]
    BY <1>3, <2>1
  <2>3. \A g : First(g) = Second(g)
    <3>1. \A s \in SUBSET D : s # {} =>
            pick[s] = Max(s) /\ w[Max(s)] = CoveredBy(from, to, day, periods[Max(s)])
      BY <1>5, <1>10
    <3> QED
      BY <3>1
  <2>4. f = CHOOSE g : g = Second(g)
    BY <1>12 DEF Sums
  <2> HIDE DEF First, Second
  <2> QED
    BY <2>2, <2>3, <2>4
<1>14. /\ IsFiniteSet(Together(D, P)) /\ Cardinality(Together(D, P)) \in Nat
       /\ f[D] = Cardinality(Together(D, P))
  BY <1>3, <1>8, <1>11, <1>12, SumIs
<1>15. Together(D, P) = T
  <2>1. \A t : t \in Together(D, P) <=> \E k \in D : t \in P[k]
    BY DEF Together
  <2>2. \A t : t \in T <=> \E k \in D : t \in P[k]
    BY <1>1, <1>2, <1>4
  <2> QED
    BY <2>1, <2>2
<1> QED
  BY <1>13, <1>14, <1>15

\* The breaks of a span are the times in it that are in a break of their day.
LEMMA OverlapIs ==
    ASSUME NEW from \in Nat, NEW to \in Int, NEW configs, Configs(configs),
           NEW T, T = {t \in Int : from <= t /\ t < to /\ InBreak(t, configs)}
    PROVE  IsFiniteSet(T) /\ breakOverlap(from, to, configs) = Cardinality(T)
<1>0. DayLength \in Nat /\ DayLength > 0 /\ KstOffset \in Nat
  BY WorkTimeAssumption
<1>1. PICK periods : periods = PeriodsOf(configs)
  OBVIOUS
<1>2. /\ InOrderApart(periods)
      /\ \A k \in 1..Len(periods) : 0 <= periods[k][1] /\ periods[k][2] <= DayLength
      /\ \A u \in Int : (\E k \in 1..Len(periods) : In(u, periods[k]))
                          <=> \E c \in configs : c.to <= DayLength /\ c.from <= u /\ u < c.to
  BY <1>1, PeriodsAre
<1>3. PICK S : S = DaysOf(from, to)
  OBVIOUS
<1>4. IsFiniteSet(S) /\ S \subseteq Int
  <2>1. PICK a \in Int : a = kstDayStart(from)
    <3>1. PICK q \in Nat, r \in Nat : kstDayStart(from) = from - r
      BY DayNumber
    <3> QED
      BY <3>1
  <2>2. IsFiniteSet(a..to)
    BY FS_Interval
  <2>3. S \subseteq a..to
    BY <1>3, <2>1 DEF DaysOf
  <2>4. IsFiniteSet(S)
    BY <2>2, <2>3, FS_Subset
  <2> QED
    BY <2>3, <2>4
<1>5. PICK P : P = [d \in S |-> {t \in Int : /\ from <= t /\ t < to
                                             /\ \E k \in 1..Len(periods) : In(t - d, periods[k])}]
  OBVIOUS
<1>6. PICK w : w = [d \in S |-> DaySum(from, to, periods, d)]
  OBVIOUS
<1>7. ASSUME NEW d \in S PROVE IsFiniteSet(P[d]) /\ w[d] = Cardinality(P[d])
  <2>1. PICK T1 : T1 = {t \in Int : /\ from <= t /\ t < to
                                    /\ \E k \in 1..Len(periods) : In(t - d, periods[k])}
    OBVIOUS
  <2>2. d \in Int /\ from \in Int
    BY <1>4
  <2>3. IsFiniteSet(T1) /\ DaySum(from, to, periods, d) = Cardinality(T1)
    BY <1>2, <2>1, <2>2, DayIs
  <2> QED
    BY <1>5, <1>6, <2>1, <2>3
<1>8. ASSUME NEW d \in S, NEW t \in P[d] PROVE t \in Nat /\ from <= t /\ t < to /\ d = kstDayStart(t)
  <2>1. t \in Int /\ from <= t /\ t < to
    BY <1>5
  <2>2. PICK k \in 1..Len(periods) : In(t - d, periods[k])
    BY <1>5
  <2>3. periods[k][1] \in Int /\ periods[k][2] \in Int
    BY <1>2 DEF InOrderApart, Pairs
  <2>4. d \in Int /\ d <= t /\ t < d + DayLength
    BY <1>0, <1>2, <1>4, <2>1, <2>2, <2>3 DEF In
  <2>5. t \in Nat
    BY <2>1
  <2>6. d = kstDayStart(t)
    BY <1>3, <2>1, <2>4, <2>5, DayIsOne
  <2> QED
    BY <2>1, <2>5, <2>6
<1>9. Portions(S, P, w)
  BY <1>7, <1>8 DEF Portions
<1>10. ASSUME NEW t \in Nat
       PROVE  InBreak(t, configs) <=> \E k \in 1..Len(periods) : In(t - kstDayStart(t), periods[k])
  <2>1. PICK q \in Nat, r \in Nat : r = (t + KstOffset) % DayLength /\ kstDayStart(t) = t - r
    BY DayNumber
  <2>2. r = t - kstDayStart(t)
    BY <2>1
  <2>3. InBreak(t, configs) <=> \E c \in configs : c.to <= DayLength /\ c.from <= r /\ r < c.to
    BY <2>1 DEF InBreak
  <2>4. (\E k \in 1..Len(periods) : In(r, periods[k]))
           <=> \E c \in configs : c.to <= DayLength /\ c.from <= r /\ r < c.to
    BY <1>2
  <2> QED
    BY <2>2, <2>3, <2>4
<1>11. Together(S, P) = T
  <2>1. ASSUME NEW t \in T PROVE \E d \in S : t \in P[d]
    <3>1. t \in Nat /\ t \in Int /\ from <= t /\ t < to /\ InBreak(t, configs)
      OBVIOUS
    <3>2. PICK d : d = kstDayStart(t) /\ d \in S
      BY <1>3, <3>1, DayIsOne
    <3>3. \E k \in 1..Len(periods) : In(t - d, periods[k])
      BY <1>10, <3>1, <3>2
    <3> QED
      BY <1>5, <3>1, <3>2, <3>3
  <2>2. ASSUME NEW d \in S, NEW t \in P[d] PROVE t \in T
    <3>1. t \in Nat /\ t \in Int /\ from <= t /\ t < to /\ d = kstDayStart(t)
      BY <1>8
    <3>2. \E k \in 1..Len(periods) : In(t - d, periods[k])
      BY <1>5
    <3>3. InBreak(t, configs)
      BY <1>10, <3>1, <3>2
    <3> QED
      BY <3>1, <3>3
  <2>3. \A t : t \in Together(S, P) <=> \E d \in S : t \in P[d]
    BY DEF Together
  <2> QED
    BY <2>1, <2>2, <2>3
<1>12. PICK pick : pick = [s \in SUBSET S |-> Some(s)]
  OBVIOUS
<1>13. Picks(S, pick)
  BY <1>12 DEF Picks, Some
<1>14. PICK f : Sums(f, S, pick, w)
  BY DEF Sums
<1>15. breakOverlap(from, to, configs) = f[S]
  <2> DEFINE First(g) == [s \in SUBSET S |->
                IF s = {} THEN 0 ELSE g[s \ {Some(s)}] + DaySum(from, to, periods, Some(s))]
             Second(g) == [s \in SUBSET S |->
                IF s = {} THEN 0 ELSE g[s \ {pick[s]}] + w[pick[s]]]
  <2>1. breakOverlap(from, to, configs) = (CHOOSE g : g = [s \in SUBSET DaysOf(from, to) |->
                IF s = {} THEN 0
                ELSE g[s \ {Some(s)}]
                     + DaySum(from, to, PeriodsOf(configs), Some(s))])[DaysOf(from, to)]
    BY Zenon DEF breakOverlap, FoldSet, MapThenFoldSet, DaysOf, PeriodsOf, Valid, DaySum, CoveredBy, Some
  <2>2. breakOverlap(from, to, configs) = (CHOOSE g : g = First(g))[S]
    BY <1>1, <1>3, <2>1
  <2>3. \A g : First(g) = Second(g)
    <3>1. \A s \in SUBSET S : pick[s] = Some(s)
      BY <1>12
    <3>2. \A s \in SUBSET S : s # {} => pick[s] \in S
      BY <1>13 DEF Picks
    <3>3. \A s \in SUBSET S : s # {} => w[Some(s)] = DaySum(from, to, periods, Some(s))
      BY <1>6, <3>1, <3>2
    <3> QED
      BY <3>1, <3>3
  <2>4. f = CHOOSE g : g = Second(g)
    BY <1>14 DEF Sums
  <2> HIDE DEF First, Second
  <2> QED
    BY <2>2, <2>3, <2>4
<1>16. /\ IsFiniteSet(Together(S, P)) /\ Cardinality(Together(S, P)) \in Nat
       /\ f[S] = Cardinality(Together(S, P))
  BY <1>4, <1>9, <1>13, <1>14, SumIs
<1> QED
  BY <1>11, <1>15, <1>16

-----------------------------------------------------------------------------
(* The pauses of a work, and what is left when they are cut out *)

\* A work that is typed, and the times it is paused.
Typed(w) ==
    /\ w.start \in Int /\ w.end \in Int
    /\ IsFiniteSet(w.pauses)
    /\ \A p \in w.pauses : p.from \in Int /\ (p.to = None \/ p.to \in Int)

Paused(t, w) == \E p \in w.pauses : t >= p.from /\ (p.to = None \/ t < p.to)

LastsTo(p, end) == IF p.to = None THEN end ELSE p.to

Clipped(w) == {<<Latest(p[1], w.start), Earliest(p[2], w.end)>> :
                 p \in parsePauseIntervals(w.pauses, w.end)}

\* The pauses, clipped to the work, cover the times of it that are paused.
LEMMA ClippedAre ==
    ASSUME NEW w, Typed(w), NEW list, list = Clipped(w)
    PROVE  /\ IsFiniteSet(list) /\ list \subseteq Pairs
           /\ \A i \in list : w.start <= i[1] /\ i[2] <= w.end
           /\ \A t \in Int : (\E i \in list : In(t, i))
                               <=> w.start <= t /\ t < w.end /\ Paused(t, w)
<1>1. PICK start \in Int, end \in Int : start = w.start /\ end = w.end
  BY DEF Typed
<1>2. PICK pauses : pauses = {q \in w.pauses : LastsTo(q, end) > q.from}
  OBVIOUS
<1>3. IsFiniteSet(pauses) /\ \A p \in pauses : p.from \in Int /\ LastsTo(p, end) \in Int
  <2>1. IsFiniteSet(pauses)
    BY <1>2, FS_Subset DEF Typed
  <2>2. \A p \in pauses : p.from \in Int /\ (p.to = None \/ p.to \in Int)
    BY <1>2 DEF Typed
  <2>3. \A p \in pauses : LastsTo(p, end) \in Int
    BY <2>2 DEF LastsTo
  <2> QED
    BY <2>1, <2>2, <2>3
<1> DEFINE Clip(p) == <<Latest(p.from, start), Earliest(LastsTo(p, end), end)>>
<1>4. list = {Clip(p) : p \in pauses}
  <2>1. PICK R : R = {<<p.from, LastsTo(p, end)>> : p \in pauses}
    OBVIOUS
  <2>2. list = {<<Latest(r[1], start), Earliest(r[2], end)>> : r \in R}
    BY <1>1, <1>2, <2>1 DEF Clipped, parsePauseIntervals, LastsTo
  <2>3. ASSUME NEW p \in pauses
        PROVE  \E r \in R : Clip(p) = <<Latest(r[1], start), Earliest(r[2], end)>>
    <3>1. PICK r \in R : r = <<p.from, LastsTo(p, end)>>
      BY <2>1
    <3>2. r[1] = p.from /\ r[2] = LastsTo(p, end)
      BY <3>1
    <3>3. Clip(p) = <<Latest(r[1], start), Earliest(r[2], end)>>
      BY <3>2
    <3> QED
      BY <3>3
  <2>4. ASSUME NEW r \in R
        PROVE  \E p \in pauses : Clip(p) = <<Latest(r[1], start), Earliest(r[2], end)>>
    <3>1. PICK p \in pauses : r = <<p.from, LastsTo(p, end)>>
      BY <2>1
    <3>2. r[1] = p.from /\ r[2] = LastsTo(p, end)
      BY <3>1
    <3>3. Clip(p) = <<Latest(r[1], start), Earliest(r[2], end)>>
      BY <3>2
    <3> QED
      BY <3>3
  <2> HIDE DEF Clip
  <2> QED
    BY <2>2, <2>3, <2>4
<1>5. ASSUME NEW p \in pauses
      PROVE  /\ Clip(p) \in Pairs
             /\ start <= Clip(p)[1] /\ Clip(p)[2] <= end
             /\ \A t \in Int : In(t, Clip(p)) <=> /\ start <= t /\ t < end
                                                  /\ p.from <= t /\ t < LastsTo(p, end)
  <2>1. PICK a \in Int, b \in Int : a = p.from /\ b = LastsTo(p, end)
    BY <1>3
  <2>2. PICK c \in Int, d \in Int : c = Latest(a, start) /\ d = Earliest(b, end)
    BY DEF Latest, Earliest
  <2>3. Clip(p) = <<c, d>>
    BY <2>1, <2>2
  <2>4. start <= c /\ d <= end
    BY <2>2 DEF Latest, Earliest
  <2>5. \A t \in Int : (c <= t /\ t < d) <=> (start <= t /\ t < end /\ a <= t /\ t < b)
    BY <2>2 DEF Latest, Earliest
  <2> QED
    BY <2>1, <2>3, <2>4, <2>5 DEF In, Pairs
<1>6. IsFiniteSet(list)
  <2>1. PICK f : f = [p \in pauses |-> Clip(p)]
    OBVIOUS
  <2>2. IsFiniteSet(pauses) /\ f \in [pauses -> Pairs]
    <3>1. \A p \in pauses : Clip(p) \in Pairs
      BY <1>5
    <3> HIDE DEF Clip, Pairs
    <3> QED
      BY <1>3, <2>1, <3>1
  <2>3. \A i \in list : \E p \in pauses : f[p] = i
    BY <1>4, <2>1
  <2>4. /\ IsFiniteSet(list)
        /\ Cardinality(list) \in Nat /\ Cardinality(pauses) \in Nat
        /\ Cardinality(list) <= Cardinality(pauses)
    <3> HIDE DEF Pairs
    <3> QED
      BY <2>2, <2>3, CountImage
  <2> QED
    BY <2>4
<1>7. list \subseteq Pairs /\ \A i \in list : w.start <= i[1] /\ i[2] <= w.end
  BY <1>1, <1>4, <1>5
<1>8. ASSUME NEW t \in Int
      PROVE  (\E i \in list : In(t, i)) <=> w.start <= t /\ t < w.end /\ Paused(t, w)
  <2>1. (\E i \in list : In(t, i))
          <=> \E p \in pauses : start <= t /\ t < end /\ p.from <= t /\ t < LastsTo(p, end)
    <3>1. (\E i \in list : In(t, i)) <=> \E p \in pauses : In(t, Clip(p))
      BY <1>4
    <3> QED
      BY <1>5, <3>1
  <2>2. ASSUME start <= t, t < end, NEW p \in pauses, p.from <= t, t < LastsTo(p, end)
        PROVE  Paused(t, w)
    <3>1. p \in w.pauses /\ p.from \in Int
      BY <1>2, <1>3
    <3> QED
      BY <2>2, <3>1 DEF Paused, LastsTo
  <2>3. ASSUME start <= t, t < end, Paused(t, w)
        PROVE  \E p \in pauses : p.from <= t /\ t < LastsTo(p, end)
    <3>1. PICK p \in w.pauses : t >= p.from /\ (p.to = None \/ t < p.to)
      BY <2>3 DEF Paused
    <3>2. p.from \in Int /\ (p.to = None \/ p.to \in Int)
      BY DEF Typed
    <3>3. PICK b \in Int : b = LastsTo(p, end) /\ t < b
      BY <2>3, <3>1, <3>2 DEF LastsTo
    <3> QED
      BY <1>2, <3>1, <3>2, <3>3
  <2> QED
    BY <1>1, <2>1, <2>2, <2>3
<1> QED
  BY <1>6, <1>7, <1>8

\* One pause is cut out: the time from the cursor up to it is worked.
CutStep(acc, p) ==
    [cursor |-> Latest(acc.cursor, p[2]),
     segments |-> IF p[1] > acc.cursor
                  THEN acc.segments \cup {<<acc.cursor, p[1]>>} ELSE acc.segments]

Cuts == [cursor : Int, segments : SUBSET Pairs]

\* No time is in two of them.
Disjoint(segments) == \A q, r \in segments : \A t \in Int : In(t, q) /\ In(t, r) => q = r

\* The pauses of m before the cursor are cut out of the time from start on; those of m
\* whose number is not in s come later.
Cut(acc, s, m, start) ==
    /\ acc \in Cuts /\ IsFiniteSet(acc.segments)
    /\ start <= acc.cursor
    /\ acc.cursor = start \/ \E k \in s : acc.cursor = m[k][2]
    /\ Disjoint(acc.segments) /\ \A q \in acc.segments : q[2] <= acc.cursor
    /\ \A k \in s : m[k][2] <= acc.cursor
    /\ \A k \in 1..Len(m) : (\A j \in s : j < k) => acc.cursor <= m[k][1]
    /\ \A t \in Int : (\E q \in acc.segments : In(t, q))
                        <=> start <= t /\ t < acc.cursor /\ \A k \in s : ~In(t, m[k])

\* One more pause keeps what was cut so far as it should be.
LEMMA CutKeeps ==
    ASSUME NEW m, InOrderApart(m), NEW start \in Int,
           NEW s, s \subseteq 1..Len(m), NEW k \in s, \A j \in s : j <= k,
           NEW acc, Cut(acc, s \ {k}, m, start)
    PROVE  Cut(CutStep(acc, m[k]), s, m, start)
<1>1. PICK n \in Nat : n = Len(m)
  BY DEF InOrderApart
<1>2. /\ \A j \in 1..n : m[j] \in Pairs /\ m[j][1] \in Int /\ m[j][2] \in Int
      /\ \A j \in 1..n : m[j][1] < m[j][2]
      /\ \A i, j \in 1..n : i < j => m[i][2] < m[j][1]
  <2>1. m \in Seq(Pairs)
    BY DEF InOrderApart
  <2>2. \A j \in 1..n : m[j] \in Pairs
    BY <1>1, <2>1
  <2> QED
    BY <1>1, <2>2 DEF InOrderApart, Pairs
<1>3. k \in 1..n /\ \A j \in s : j \in 1..n /\ j \in Int
  BY <1>1
<1>4. PICK a \in Int, b \in Int : a = m[k][1] /\ b = m[k][2] /\ a < b
  BY <1>2, <1>3
<1>5. PICK r : r = s \ {k}
  OBVIOUS
<1>6. PICK cursor \in Int, segments \in SUBSET Pairs :
          /\ cursor = acc.cursor /\ segments = acc.segments /\ IsFiniteSet(segments)
          /\ start <= cursor
          /\ Disjoint(segments) /\ \A q \in segments : q[2] <= cursor
  BY DEF Cut, Cuts
<1>7. /\ \A j \in r : m[j][2] <= cursor
      /\ \A j \in 1..n : (\A i \in r : i < j) => cursor <= m[j][1]
      /\ \A t \in Int : (\E q \in segments : In(t, q))
                          <=> start <= t /\ t < cursor /\ \A j \in r : ~In(t, m[j])
  BY <1>1, <1>5, <1>6 DEF Cut
<1>8. cursor <= a
  <2>1. \A i \in r : i < k
    BY <1>3, <1>5
  <2> QED
    BY <1>3, <1>4, <1>7, <2>1
<1>9. PICK gap : gap = IF a > cursor THEN segments \cup {<<cursor, a>>} ELSE segments
  OBVIOUS
<1>10. PICK x : x = CutStep(acc, m[k])
  OBVIOUS
<1>11. x = [cursor |-> b, segments |-> gap]
  <2>1. Latest(cursor, b) = b
    BY <1>4, <1>8 DEF Latest
  <2> QED
    BY <1>4, <1>6, <1>9, <1>10, <2>1 DEF CutStep
<1>12. gap \subseteq Pairs /\ IsFiniteSet(gap)
  <2>1. PICK q : q = <<cursor, a>>
    OBVIOUS
  <2>2. q \in Pairs
    BY <2>1 DEF Pairs
  <2>3. IsFiniteSet(segments \cup {q})
    BY <1>6, FS_AddElement
  <2> QED
    BY <1>6, <1>9, <2>1, <2>2, <2>3
<1>13. ASSUME NEW t \in Int
       PROVE  (\E q \in gap : In(t, q)) <=> start <= t /\ t < b /\ \A j \in s : ~In(t, m[j])
  <2>1. (\E q \in gap : In(t, q)) <=> (\E q \in segments : In(t, q)) \/ (cursor <= t /\ t < a)
    <3>1. PICK q : q = <<cursor, a>>
      OBVIOUS
    <3>2. In(t, q) <=> cursor <= t /\ t < a
      BY <3>1 DEF In
    <3> QED
      BY <1>8, <1>9, <3>1, <3>2
  <2>2. (\A j \in s : ~In(t, m[j])) <=> (\A j \in r : ~In(t, m[j])) /\ ~(a <= t /\ t < b)
    <3>1. In(t, m[k]) <=> a <= t /\ t < b
      BY <1>4 DEF In
    <3> QED
      BY <1>5, <3>1
  <2>3. cursor <= t => \A j \in r : ~In(t, m[j])
    <3>1. ASSUME cursor <= t, NEW j \in r PROVE ~In(t, m[j])
      <4>1. m[j][2] <= cursor /\ m[j][2] \in Int
        BY <1>2, <1>3, <1>5, <1>7
      <4> QED
        BY <3>1, <4>1 DEF In
    <3> QED
      BY <3>1
  <2>4. (\E q \in segments : In(t, q)) <=> start <= t /\ t < cursor /\ \A j \in r : ~In(t, m[j])
    BY <1>7
  <2> QED
    BY <1>4, <1>6, <1>8, <2>1, <2>2, <2>3, <2>4
<1>14. \A j \in s : m[j][2] <= b
  <2>1. ASSUME NEW j \in r PROVE m[j][2] <= b
    <3>1. m[j][2] <= cursor /\ m[j][2] \in Int
      BY <1>2, <1>3, <1>5, <1>7
    <3> QED
      BY <1>4, <1>8, <3>1
  <2> QED
    BY <1>4, <1>5, <2>1
<1>15. ASSUME NEW j \in 1..n, \A i \in s : i < j PROVE b <= m[j][1]
  <2>1. m[k][2] < m[j][1]
    BY <1>2, <1>3, <1>15
  <2> QED
    BY <1>2, <1>4, <2>1
<1>17. Disjoint(gap) /\ \A q \in gap : q[2] <= b
  <2>1. PICK p : p = <<cursor, a>>
    OBVIOUS
  <2>2. p[2] = a /\ \A t \in Int : In(t, p) => cursor <= t
    BY <2>1 DEF In
  <2>3. ASSUME NEW q \in segments
        PROVE  q[2] <= cursor /\ q[2] <= b /\ \A t \in Int : In(t, q) => t < cursor
    <3>1. q[2] <= cursor /\ q[2] \in Int
      BY <1>6 DEF Pairs
    <3> QED
      BY <1>4, <1>8, <3>1 DEF In
  <2>4. \A q \in gap : q \in segments \/ q = p
    BY <1>9, <2>1
  <2>5. \A t \in Int : ~(cursor <= t /\ t < cursor)
    OBVIOUS
  <2>6. Disjoint(gap)
    BY <1>6, <2>2, <2>3, <2>4, <2>5 DEF Disjoint
  <2>7. \A q \in gap : q[2] <= b
    BY <1>4, <2>2, <2>3, <2>4
  <2> QED
    BY <2>6, <2>7
<1>16. x \in Cuts /\ x.cursor = b /\ x.segments = gap /\ start <= b
  BY <1>4, <1>6, <1>8, <1>11, <1>12 DEF Cuts
<1> QED
  BY <1>1, <1>4, <1>10, <1>12, <1>13, <1>14, <1>15, <1>16, <1>17 DEF Cut

\* All pauses of m are cut out, one after the other.
Cutting(m, start) == FoldLeft(CutStep, [cursor |-> start, segments |-> {}], m)

\* After all pauses: the segments up to the last pause are the times in none of them.
LEMMA CuttingIs ==
    ASSUME NEW m, InOrderApart(m), NEW start \in Int, \A k \in 1..Len(m) : start <= m[k][1]
    PROVE  Cut(Cutting(m, start), 1..Len(m), m, start)
<1>1. PICK D : D = 1..Len(m)
  OBVIOUS
<1>2. /\ IsFiniteSet(D) /\ D \subseteq Int /\ D = DOMAIN m
      /\ \A k \in D : m[k] \in Pairs /\ m[k][1] \in Int /\ m[k][2] \in Int
  <2>1. PICK n \in Nat : n = Len(m)
    BY DEF InOrderApart
  <2>2. IsFiniteSet(1..n)
    BY FS_Interval
  <2>3. m \in Seq(Pairs)
    BY DEF InOrderApart
  <2>4. \A k \in D : m[k] \in Pairs
    BY <1>1, <2>3
  <2>5. \A k \in D : m[k][1] \in Int /\ m[k][2] \in Int
    BY <2>4 DEF Pairs
  <2> QED
    BY <1>1, <2>1, <2>2, <2>3, <2>4, <2>5
<1>3. PICK base : base = [cursor |-> start, segments |-> {}]
  OBVIOUS
<1> DEFINE Step(f) == [s \in SUBSET D |->
                         IF s = {} THEN base ELSE CutStep(f[s \ {Max(s)}], m[Max(s)])]
<1>4. Cutting(m, start) = (CHOOSE f : f = Step(f))[D]
  <2>1. Cutting(m, start) = (CHOOSE f : f = [s \in SUBSET DOMAIN m |->
            IF s = {} THEN [cursor |-> start, segments |-> {}]
            ELSE CutStep(f[s \ {Max(s)}], m[Max(s)])])[DOMAIN m]
    BY Zenon DEF Cutting, FoldLeft, MapThenFoldSet
  <2> QED
    BY <1>2, <1>3, <2>1
<1>5. PICK pick : pick = [s \in SUBSET D |-> Max(s)]
  OBVIOUS
<1>6. ASSUME NEW s \in SUBSET D, s # {}
      PROVE  pick[s] = Max(s) /\ Max(s) \in s /\ Max(s) \in D /\ \A j \in s : j <= Max(s)
  <2>1. IsFiniteSet(s) /\ s \subseteq Int
    BY <1>2, FS_Subset
  <2>2. \E x \in s : \A y \in s : x >= y
    BY <1>6, <2>1, HasGreatest
  <2>3. Max(s) \in s /\ \A y \in s : Max(s) >= y
    BY <2>2 DEF Max
  <2> QED
    BY <1>5, <2>1, <2>3
<1>7. ASSUME NEW x \in Pairs, NEW v \in Cuts PROVE CutStep(v, x) \in Cuts
  <2>1. v.cursor \in Int /\ v.segments \subseteq Pairs /\ x[1] \in Int /\ x[2] \in Int
    BY DEF Cuts, Pairs
  <2>2. PICK q : q = <<v.cursor, x[1]>>
    OBVIOUS
  <2>3. q \in Pairs
    BY <2>1, <2>2 DEF Pairs
  <2>4. PICK segments : segments = IF x[1] > v.cursor THEN v.segments \cup {q} ELSE v.segments
    OBVIOUS
  <2>5. segments \subseteq Pairs
    BY <2>1, <2>3, <2>4
  <2>6. CutStep(v, x) = [cursor |-> Latest(v.cursor, x[2]), segments |-> segments]
    BY <2>2, <2>4 DEF CutStep
  <2>7. Latest(v.cursor, x[2]) \in Int
    BY <2>1 DEF Latest
  <2> QED
    BY <2>5, <2>6, <2>7 DEF Cuts
<1>8. PICK h : h = [s \in SUBSET D |-> [v \in Cuts |-> IF s = {} THEN v ELSE CutStep(v, m[Max(s)])]]
  OBVIOUS
<1>9. h \in [SUBSET D -> [Cuts -> Cuts]]
  <2>1. ASSUME NEW s \in SUBSET D, NEW v \in Cuts
        PROVE  (IF s = {} THEN v ELSE CutStep(v, m[Max(s)])) \in Cuts
    <3>1. CASE s = {}
      BY <3>1
    <3>2. CASE s # {}
      <4>1. m[Max(s)] \in Pairs
        BY <1>2, <1>6, <3>2
      <4>2. CutStep(v, m[Max(s)]) \in Cuts
        BY <1>7, <4>1
      <4> QED
        BY <3>2, <4>2
    <3> QED
      BY <3>1, <3>2
  <2> QED
    BY <1>8, <2>1
<1>10. base \in Cuts
  BY <1>3 DEF Cuts
<1>11. PICK goal \in [SUBSET D -> Cuts] : \A s \in SUBSET D :
          goal[s] = IF s = {} THEN base ELSE h[s][goal[s \ {pick[s]}]]
  <2>1. FoldOver(D, Cuts, base, pick, h)
    BY <1>6, <1>9, <1>10 DEF FoldOver
  <2>2. PICK g : Folds(g, D, Cuts, base, pick, h)
    BY <1>2, <2>1, FoldSolved
  <2> QED
    BY <2>2 DEF Folds
<1>12. goal = Step(goal)
  <2>1. ASSUME NEW s \in SUBSET D
        PROVE  goal[s] = IF s = {} THEN base ELSE CutStep(goal[s \ {Max(s)}], m[Max(s)])
    <3>1. CASE s = {}
      BY <1>11, <3>1
    <3>2. CASE s # {}
      <4>1. goal[s] = h[s][goal[s \ {Max(s)}]] /\ goal[s \ {Max(s)}] \in Cuts
        BY <1>6, <1>11, <3>2
      <4> QED
        BY <1>8, <3>2, <4>1
    <3> QED
      BY <3>1, <3>2
  <2> QED
    BY <1>11, <2>1
<1>13. PICK f : f = (CHOOSE g : g = Step(g)) /\ f = Step(f)
  <2>1. \E g : g = Step(g)
    BY <1>12
  <2> HIDE DEF Step
  <2>2. (CHOOSE g : g = Step(g)) = Step(CHOOSE g : g = Step(g))
    BY <2>1
  <2> QED
    BY <2>2
<1>14. /\ f[{}] = base
       /\ \A s \in SUBSET D : s # {} => f[s] = CutStep(f[s \ {Max(s)}], m[Max(s)])
  <2>1. \A s \in SUBSET D : f[s] = IF s = {} THEN base ELSE CutStep(f[s \ {Max(s)}], m[Max(s)])
    BY <1>13
  <2> HIDE DEF Step
  <2> QED
    BY <2>1
<1> HIDE DEF Step
<1>15. PICK Good : Good = {s \in SUBSET D : Cut(f[s], s, m, start)}
  OBVIOUS
<1>16. {} \in Good
  <2>1. IsFiniteSet({})
    BY FS_EmptySet
  <2>2. base.cursor = start /\ base.segments = {}
    BY <1>3
  <2>3. Cut(base, {}, m, start)
    BY <1>10, <2>1, <2>2 DEF Cut, Disjoint
  <2> QED
    BY <1>14, <1>15, <2>3
<1>17. ASSUME NEW s \in SUBSET D, s # {} PROVE \E k \in s : s \ {k} \in Good => s \in Good
  <2>1. PICK k \in s : k = Max(s) /\ \A j \in s : j <= k
    BY <1>6, <1>17
  <2>2. ASSUME s \ {k} \in Good PROVE s \in Good
    <3>1. PICK acc : acc = f[s \ {k}] /\ Cut(acc, s \ {k}, m, start)
      BY <1>15, <2>2
    <3>2. s \subseteq 1..Len(m)
      BY <1>1
    <3>3. Cut(CutStep(acc, m[k]), s, m, start)
      BY <2>1, <3>1, <3>2, CutKeeps
    <3>4. f[s] = CutStep(acc, m[k])
      BY <1>14, <1>17, <2>1, <3>1
    <3> QED
      BY <1>15, <3>3, <3>4
  <2> QED
    BY <2>2
<1>18. D \in Good
  BY <1>2, <1>16, <1>17, PartsOneByOne
<1> QED
  BY <1>1, <1>4, <1>13, <1>15, <1>18

\* The segments of a work are its time without its pauses.
LEMMA SegmentsAre ==
    ASSUME NEW w, Typed(w), NEW segments, segments = activeWorkSegments(w)
    PROVE  /\ IsFiniteSet(segments) /\ segments \subseteq Pairs /\ Disjoint(segments)
           /\ \A t \in Int : (\E q \in segments : In(t, q))
                               <=> w.start <= t /\ t < w.end /\ ~Paused(t, w)
<1>1. PICK start \in Int, end \in Int : start = w.start /\ end = w.end
  BY DEF Typed
<1>2. PICK list : list = Clipped(w)
  OBVIOUS
<1>3. /\ IsFiniteSet(list) /\ list \subseteq Pairs
      /\ \A i \in list : start <= i[1] /\ i[2] <= end
      /\ \A t \in Int : (\E i \in list : In(t, i))
                          <=> start <= t /\ t < end /\ Paused(t, w)
  BY <1>1, <1>2, ClippedAre
<1>4. PICK lasting : lasting = {i \in list : i[2] > i[1]}
  OBVIOUS
<1>5. PICK m : m = mergeIntervals(list)
  OBVIOUS
<1>6. Merged(m, lasting)
  BY <1>3, <1>4, <1>5, MergeIs
<1>7. InOrderApart(m) /\ \A k \in 1..Len(m) : m[k] \in Pairs
  <2>1. m \in Seq(Pairs)
    BY <1>6 DEF Merged, InOrderApart
  <2> QED
    BY <1>6, <2>1 DEF Merged
<1>8. ASSUME NEW t \in Int
      PROVE  (\E k \in 1..Len(m) : In(t, m[k])) <=> start <= t /\ t < end /\ Paused(t, w)
  <2>1. (\E k \in 1..Len(m) : In(t, m[k])) <=> \E i \in lasting : In(t, i)
    BY <1>6 DEF Merged, SameTimes
  <2>2. (\E i \in lasting : In(t, i)) <=> \E i \in list : In(t, i)
    <3>1. \A i \in list : In(t, i) => i[2] > i[1]
      BY <1>3 DEF In, Pairs
    <3> QED
      BY <1>4, <3>1
  <2> QED
    BY <1>3, <2>1, <2>2
<1>9. ASSUME NEW k \in 1..Len(m) PROVE start <= m[k][1] /\ m[k][2] <= end
  <2>1. PICK a \in Int, b \in Int : a = m[k][1] /\ b = m[k][2] /\ a < b
    BY <1>7 DEF InOrderApart, Pairs
  <2>2. In(a, m[k]) /\ In(b - 1, m[k]) /\ b - 1 \in Int
    BY <2>1 DEF In
  <2>3. start <= a /\ b - 1 < end
    BY <1>8, <2>2
  <2> QED
    BY <2>1, <2>3
<1>10. PICK cut : cut = Cutting(m, start)
  OBVIOUS
<1>11. Cut(cut, 1..Len(m), m, start)
  BY <1>7, <1>9, <1>10, CuttingIs
<1>12. PICK cursor \in Int, past \in SUBSET Pairs :
          /\ cursor = cut.cursor /\ past = cut.segments /\ IsFiniteSet(past)
          /\ start <= cursor
          /\ Disjoint(past) /\ \A q \in past : q[2] <= cursor
  BY <1>11 DEF Cut, Cuts
<1>13. segments = IF end <= start THEN {}
                  ELSE past \cup IF end > cursor THEN {<<cursor, end>>} ELSE {}
  <2>1. segments = IF w.end <= w.start THEN {}
                   ELSE Cutting(mergeIntervals(Clipped(w)), w.start).segments
                        \cup IF w.end > Cutting(mergeIntervals(Clipped(w)), w.start).cursor
                             THEN {<<Cutting(mergeIntervals(Clipped(w)), w.start).cursor, w.end>>}
                             ELSE {}
    BY Zenon DEF activeWorkSegments, Cutting, CutStep, Clipped
  <2> QED
    BY <1>1, <1>2, <1>5, <1>10, <1>12, <2>1
<1>14. CASE end <= start
  <2>1. segments = {}
    BY <1>13, <1>14
  <2> QED
    BY <1>1, <1>14, <2>1, FS_EmptySet DEF Disjoint
<1>15. CASE ~(end <= start)
  <2>1. cursor <= end
    <3>1. cursor = start \/ \E k \in 1..Len(m) : cursor = m[k][2]
      BY <1>11, <1>12 DEF Cut
    <3> QED
      BY <1>9, <1>15, <3>1
  <2>2. PICK q : q = <<cursor, end>>
    OBVIOUS
  <2>3. q \in Pairs /\ \A t \in Int : In(t, q) <=> cursor <= t /\ t < end
    BY <2>2 DEF Pairs, In
  <2>4. segments = IF end > cursor THEN past \cup {q} ELSE past
    BY <1>13, <1>15, <2>2
  <2>5. IsFiniteSet(past \cup {q})
    BY <1>12, FS_AddElement
  <2>6. ASSUME NEW t \in Int
        PROVE  (\E i \in segments : In(t, i)) <=> start <= t /\ t < end /\ ~Paused(t, w)
    <3>1. (\E i \in segments : In(t, i)) <=> (\E i \in past : In(t, i)) \/ (cursor <= t /\ t < end)
      BY <2>3, <2>4
    <3>2. (\E i \in past : In(t, i)) <=> /\ start <= t /\ t < cursor
                                         /\ \A k \in 1..Len(m) : ~In(t, m[k])
      BY <1>11, <1>12 DEF Cut
    <3>3. cursor <= t => \A k \in 1..Len(m) : ~In(t, m[k])
      <4>1. ASSUME cursor <= t, NEW k \in 1..Len(m) PROVE ~In(t, m[k])
        <5>1. m[k][2] <= cursor
          BY <1>11, <1>12 DEF Cut
        <5>2. m[k][2] \in Int
          BY <1>7 DEF Pairs
        <5> QED
          BY <4>1, <5>1, <5>2 DEF In
      <4> QED
        BY <4>1
    <3> QED
      BY <1>8, <1>12, <2>1, <3>1, <3>2, <3>3
  <2>7. Disjoint(segments)
    <3>1. ASSUME NEW i \in past, NEW t \in Int, In(t, i) PROVE t < cursor
      <4>1. i[2] <= cursor /\ i[2] \in Int
        BY <1>12 DEF Pairs
      <4> QED
        BY <3>1, <4>1 DEF In
    <3>2. \A t \in Int : ~(cursor <= t /\ t < cursor)
      OBVIOUS
    <3> QED
      BY <1>12, <2>3, <2>4, <3>1, <3>2 DEF Disjoint
  <2> QED
    BY <1>1, <1>12, <2>3, <2>4, <2>5, <2>6, <2>7
<1> QED
  BY <1>14, <1>15

-----------------------------------------------------------------------------
(* The net minutes of one person *)

\* What a span lasts without its breaks is what of it is in no break.
LEMMA SpanNetIs ==
    ASSUME NEW from \in Nat, NEW to \in Int, from <= to, NEW configs, Configs(configs),
           NEW T, T = {t \in Int : from <= t /\ t < to /\ ~InBreak(t, configs)}
    PROVE  IsFiniteSet(T) /\ (to - from) - breakOverlap(from, to, configs) = Cardinality(T)
<1>1. PICK A : A = {t \in Int : from <= t /\ t < to}
  OBVIOUS
<1>2. PICK B : B = {t \in Int : from <= t /\ t < to /\ InBreak(t, configs)}
  OBVIOUS
<1>3. IsFiniteSet(A) /\ Cardinality(A) = to - from
  <2>1. from \in Int
    OBVIOUS
  <2>2. IsFiniteSet(A) /\ Cardinality(A) = IF from < to THEN to - from ELSE 0
    BY <1>1, <2>1, SpanCount
  <2> QED
    BY <2>1, <2>2
<1>4. IsFiniteSet(B) /\ breakOverlap(from, to, configs) = Cardinality(B)
  BY <1>2, OverlapIs
<1>5. B \subseteq A /\ T = A \ B
  BY <1>1, <1>2
<1>6. /\ IsFiniteSet(B) /\ IsFiniteSet(A \ B)
      /\ Cardinality(B) \in Nat /\ Cardinality(A \ B) \in Nat
      /\ Cardinality(A) = Cardinality(B) + Cardinality(A \ B)
  BY <1>3, <1>5, CountRest
<1>7. PICK c : c = Cardinality(B) /\ c = breakOverlap(from, to, configs) /\ c \in Nat
  BY <1>4, <1>6
<1>8. PICK d : d = Cardinality(T) /\ d \in Nat /\ to - from = c + d
  BY <1>3, <1>5, <1>6, <1>7
<1>9. IsFiniteSet(T)
  BY <1>5, <1>6
<1>10. (to - from) - c = d
  BY <1>7, <1>8
<1> QED
  BY <1>7, <1>8, <1>9, <1>10

\* What a list of intervals lasts without its breaks.
NetSum(m, configs) ==
    FoldLeft(LAMBDA sum, s : sum + ((s[2] - s[1]) - breakOverlap(s[1], s[2], configs)), 0, m)

\* Added up over intervals that are apart, it is the size of what is in one and in no break.
LEMMA NetSumIs ==
    ASSUME NEW m, InOrderApart(m), \A k \in 1..Len(m) : m[k][1] \in Nat,
           NEW configs, Configs(configs),
           NEW T, T = {t \in Int : (\E k \in 1..Len(m) : In(t, m[k])) /\ ~InBreak(t, configs)}
    PROVE  IsFiniteSet(T) /\ NetSum(m, configs) = Cardinality(T)
<1>1. PICK D : D = 1..Len(m)
  OBVIOUS
<1>2. /\ IsFiniteSet(D) /\ D \subseteq Int /\ D = DOMAIN m
      /\ \A k \in D : m[k][1] \in Nat /\ m[k][2] \in Int
      /\ \A k \in D : m[k][1] < m[k][2]
      /\ \A j, k \in D : j < k => m[j][2] < m[k][1]
  <2>1. PICK n \in Nat : n = Len(m)
    BY DEF InOrderApart
  <2>2. IsFiniteSet(1..n)
    BY FS_Interval
  <2>3. m \in Seq(Pairs)
    BY DEF InOrderApart
  <2>4. \A k \in D : m[k] \in Pairs
    BY <1>1, <2>3
  <2>5. \A k \in D : m[k][1] \in Nat /\ m[k][2] \in Int
    BY <1>1, <2>4 DEF Pairs
  <2>6. /\ \A k \in D : m[k][1] < m[k][2]
        /\ \A j, k \in D : j < k => m[j][2] < m[k][1]
    BY <1>1 DEF InOrderApart
  <2> QED
    BY <1>1, <2>1, <2>2, <2>3, <2>5, <2>6
<1>3. PICK P : P = [k \in D |-> {t \in Int : In(t, m[k]) /\ ~InBreak(t, configs)}]
  OBVIOUS
<1>4. PICK w : w = [k \in D |-> (m[k][2] - m[k][1]) - breakOverlap(m[k][1], m[k][2], configs)]
  OBVIOUS
<1>5. ASSUME NEW k \in D PROVE IsFiniteSet(P[k]) /\ w[k] = Cardinality(P[k])
  <2>1. PICK a \in Nat, b \in Int : a = m[k][1] /\ b = m[k][2] /\ a <= b
    BY <1>2
  <2>2. PICK A : A = {t \in Int : a <= t /\ t < b /\ ~InBreak(t, configs)}
    OBVIOUS
  <2>3. /\ IsFiniteSet(A)
        /\ (b - a) - breakOverlap(a, b, configs) = Cardinality(A)
    BY <2>1, <2>2, SpanNetIs
  <2>4. P[k] = A
    <3>1. P[k] = {t \in Int : In(t, m[k]) /\ ~InBreak(t, configs)}
      BY <1>3
    <3>2. \A t : In(t, m[k]) <=> a <= t /\ t < b
      BY <2>1 DEF In
    <3> QED
      BY <2>2, <3>1, <3>2
  <2> QED
    BY <1>4, <2>1, <2>3, <2>4
<1>6. ASSUME NEW k \in D, NEW j \in D, k # j PROVE P[k] \cap P[j] = {}
  <2>1. ASSUME NEW t \in P[k], t \in P[j] PROVE FALSE
    <3>1. /\ t \in Int
          /\ m[k][1] <= t /\ t < m[k][2]
          /\ m[j][1] <= t /\ t < m[j][2]
      BY <1>3, <2>1 DEF In
    <3>2. k < j \/ j < k
      BY <1>2, <1>6
    <3> QED
      BY <1>2, <3>1, <3>2
  <2> QED
    BY <2>1
<1>7. Portions(D, P, w)
  BY <1>5, <1>6 DEF Portions
<1>8. PICK pick : pick = [s \in SUBSET D |-> Max(s)]
  OBVIOUS
<1>9. ASSUME NEW s \in SUBSET D, s # {} PROVE pick[s] = Max(s) /\ Max(s) \in s
  <2>1. IsFiniteSet(s) /\ s \subseteq Int
    BY <1>2, FS_Subset
  <2>2. \E x \in s : \A y \in s : x >= y
    BY <1>9, <2>1, HasGreatest
  <2> QED
    BY <1>8, <2>2 DEF Max
<1>10. Picks(D, pick)
  BY <1>9 DEF Picks
<1>11. PICK f : Sums(f, D, pick, w)
  BY DEF Sums
<1>12. NetSum(m, configs) = f[D]
  <2> DEFINE Part(k) == (m[k][2] - m[k][1]) - breakOverlap(m[k][1], m[k][2], configs)
             First(g) == [s \in SUBSET D |->
                IF s = {} THEN 0 ELSE g[s \ {Max(s)}] + Part(Max(s))]
             Second(g) == [s \in SUBSET D |->
                IF s = {} THEN 0 ELSE g[s \ {pick[s]}] + w[pick[s]]]
  <2>1. NetSum(m, configs) = (CHOOSE g : g = [s \in SUBSET DOMAIN m |->
                IF s = {} THEN 0
                ELSE g[s \ {Max(s)}] + ((m[Max(s)][2] - m[Max(s)][1])
                       - breakOverlap(m[Max(s)][1], m[Max(s)][2], configs))])[DOMAIN m]
    BY Zenon DEF NetSum, FoldLeft, MapThenFoldSet
  <2>2. NetSum(m, configs) = (CHOOSE g : g = First(g))[D]
    BY <1>2, <2>1
  <2>3. \A g : First(g) = Second(g)
    <3>1. \A k \in D : w[k] = Part(k)
      BY <1>4
    <3> HIDE DEF Part
    <3>2. \A s \in SUBSET D : s # {} => pick[s] = Max(s) /\ w[Max(s)] = Part(Max(s))
      BY <1>9, <3>1
    <3> QED
      BY <3>2
  <2>4. f = CHOOSE g : g = Second(g)
    BY <1>11 DEF Sums
  <2> HIDE DEF Part, First, Second
  <2> QED
    BY <2>2, <2>3, <2>4
<1>13. /\ IsFiniteSet(Together(D, P)) /\ Cardinality(Together(D, P)) \in Nat
       /\ f[D] = Cardinality(Together(D, P))
  BY <1>2, <1>7, <1>10, <1>11, SumIs
<1>14. Together(D, P) = T
  <2>1. \A t : t \in Together(D, P) <=> \E k \in D : t \in P[k]
    BY DEF Together
  <2>2. \A t : t \in T <=> \E k \in D : t \in P[k]
    BY <1>1, <1>3
  <2> QED
    BY <2>1, <2>2
<1> QED
  BY <1>12, <1>13, <1>14

\* Segments, whatever their overlaps, count each of their times outside breaks once.
LEMMA NetIs ==
    ASSUME NEW segments, IsFiniteSet(segments), segments \subseteq Pairs,
           \A t \in Int : (\E q \in segments : In(t, q)) => t \in Nat,
           NEW configs, Configs(configs),
           NEW T, T = {t \in Int : (\E q \in segments : In(t, q)) /\ ~InBreak(t, configs)}
    PROVE  /\ IsFiniteSet(T)
           /\ netMinutesOfSegments(segments, configs) = (Cardinality(T) + 1) \div 2
<1>1. PICK lasting : lasting = {i \in segments : i[2] > i[1]}
  OBVIOUS
<1>2. PICK m : m = mergeIntervals(segments)
  OBVIOUS
<1>3. Merged(m, lasting)
  BY <1>1, <1>2, MergeIs
<1>4. InOrderApart(m)
  BY <1>3 DEF Merged
<1>5. ASSUME NEW t \in Int
      PROVE  (\E k \in 1..Len(m) : In(t, m[k])) <=> \E q \in segments : In(t, q)
  <2>1. (\E k \in 1..Len(m) : In(t, m[k])) <=> \E i \in lasting : In(t, i)
    BY <1>3 DEF Merged, SameTimes
  <2>2. \A i \in segments : In(t, i) => i[2] > i[1]
    BY DEF In, Pairs
  <2> QED
    BY <1>1, <2>1, <2>2
<1>6. ASSUME NEW k \in 1..Len(m) PROVE m[k][1] \in Nat
  <2>1. m \in Seq(Pairs)
    BY <1>4 DEF InOrderApart
  <2>2. m[k] \in Pairs
    BY <2>1
  <2>3. PICK a \in Int : a = m[k][1] /\ In(a, m[k])
    BY <1>4, <2>2 DEF InOrderApart, Pairs, In
  <2> QED
    BY <1>5, <2>3
<1>7. T = {t \in Int : (\E k \in 1..Len(m) : In(t, m[k])) /\ ~InBreak(t, configs)}
  BY <1>5
<1>8. IsFiniteSet(T) /\ NetSum(m, configs) = Cardinality(T)
  BY <1>4, <1>6, <1>7, NetSumIs
<1>9. netMinutesOfSegments(segments, configs) = (NetSum(mergeIntervals(segments), configs) + 1) \div 2
  BY Zenon DEF netMinutesOfSegments, NetSum
<1> QED
  BY <1>2, <1>8, <1>9

\* The rows of one person are typed and there are finitely many of them.
WorksTyped ==
    /\ IsFiniteSet(works)
    /\ \A w \in works : /\ w \in [start : Times, end : Times, pauses : SUBSET Pauses]
                        /\ IsFiniteSet(w.pauses)

NetInv == WorksTyped /\ Configs(breaks)

\* The invariant holds before there is a work or a break.
LEMMA NetStarts == NetInit => NetInv
BY FS_EmptySet DEF NetInit, NetInv, WorksTyped, Configs

\* Each new work, pause and break keeps the rows typed.
LEMMA NetSteps == NetInv /\ [NetNext]_netVars => NetInv'
<1> SUFFICES ASSUME NetInv, [NetNext]_netVars PROVE NetInv'
  OBVIOUS
<1> USE DEF NetInv
<1>1. CASE UNCHANGED netVars
  BY <1>1 DEF netVars, WorksTyped, Configs
<1>2. ASSUME NEW start \in Times, NEW end \in Times, AddWork(start, end) PROVE NetInv'
  <2>1. PICK w : w = [start |-> start, end |-> end, pauses |-> {}]
    OBVIOUS
  <2>2. w \in [start : Times, end : Times, pauses : SUBSET Pauses] /\ IsFiniteSet(w.pauses)
    BY <2>1, FS_EmptySet
  <2>3. works' = works \cup {w} /\ breaks' = breaks
    BY <1>2, <2>1 DEF AddWork
  <2>4. IsFiniteSet(works \cup {w})
    BY FS_AddElement DEF WorksTyped
  <2> QED
    BY <2>2, <2>3, <2>4 DEF WorksTyped, Configs
<1>3. ASSUME NEW w \in works, NEW p \in Pauses, AddPause(w, p) PROVE NetInv'
  <2>1. PICK old : old = w.pauses
    OBVIOUS
  <2>2. PICK v : v = [w EXCEPT !.pauses = old \cup {p}]
    OBVIOUS
  <2>3. w \in [start : Times, end : Times, pauses : SUBSET Pauses] /\ IsFiniteSet(old)
    BY <2>1 DEF WorksTyped
  <2>4. IsFiniteSet(old \cup {p}) /\ old \cup {p} \subseteq Pauses
    BY <2>1, <2>3, FS_AddElement
  <2>5. v = [start |-> w.start, end |-> w.end, pauses |-> old \cup {p}]
    BY <2>2, <2>3
  <2>6. v \in [start : Times, end : Times, pauses : SUBSET Pauses] /\ IsFiniteSet(v.pauses)
    BY <2>3, <2>4, <2>5
  <2>7. works' = (works \ {w}) \cup {v} /\ breaks' = breaks
    BY <1>3, <2>1, <2>2 DEF AddPause
  <2>8. IsFiniteSet((works \ {w}) \cup {v})
    <3>1. IsFiniteSet(works \ {w})
      BY FS_RemoveElement DEF WorksTyped
    <3> QED
      BY <3>1, FS_AddElement
  <2> QED
    BY <2>6, <2>7, <2>8 DEF WorksTyped, Configs
<1>4. ASSUME NEW from \in 0..DayLength, NEW to \in 0..DayLength + 1, NEW global \in BOOLEAN,
             AddBreak(from, to, global)
      PROVE  NetInv'
  <2>1. PICK b : b = [from |-> from, to |-> to, global |-> global]
    OBVIOUS
  <2>2. b.from \in Nat /\ b.to \in Nat
    BY <2>1, WorkTimeAssumption
  <2>3. breaks' = breaks \cup {b} /\ works' = works
    BY <1>4, <2>1 DEF AddBreak
  <2>4. IsFiniteSet(breaks \cup {b})
    BY FS_AddElement DEF Configs
  <2> QED
    BY <2>2, <2>3, <2>4 DEF WorksTyped, Configs
<1> QED
  BY <1>1, <1>2, <1>3, <1>4 DEF NetNext

\* The rows the net minutes are computed from are typed.
LEMMA NetAlways == NetSpec => []NetInv
BY NetStarts, NetSteps, PTL DEF NetSpec

\* With typed rows the net minutes are what counting the half minutes one by one gives.
LEMMA NetCounts == NetInv => NetAgrees
<1> SUFFICES ASSUME NetInv PROVE NetAgrees
  OBVIOUS
<1>0. Horizon \in Nat
  <2>1. Horizon \in {Horizon, MaxFacts}
    OBVIOUS
  <2> QED
    BY <2>1, NetMinutesAssumption
<1>1. ASSUME NEW w \in works
      PROVE  Typed(w) /\ w.start \in Times /\ w.end \in Times
  <2>1. w \in [start : Times, end : Times, pauses : SUBSET Pauses] /\ IsFiniteSet(w.pauses)
    BY DEF NetInv, WorksTyped
  <2>2. w.start \in Times /\ w.end \in Times /\ w.pauses \subseteq Pauses
    BY <2>1
  <2>3. \A p \in Pauses : p.from \in Times /\ (p.to = None \/ p.to \in Times)
    BY DEF Pauses
  <2>4. Times \subseteq Int
    BY DEF Times
  <2> QED
    BY <2>1, <2>2, <2>3, <2>4 DEF Typed
<1>2. ASSUME NEW w \in works
      PROVE  /\ IsFiniteSet(activeWorkSegments(w)) /\ activeWorkSegments(w) \subseteq Pairs
             /\ \A t \in Int : (\E q \in activeWorkSegments(w) : In(t, q))
                                 <=> w.start <= t /\ t < w.end /\ ~Paused(t, w)
  <2>1. PICK part : part = activeWorkSegments(w)
    OBVIOUS
  <2>2. /\ IsFiniteSet(part) /\ part \subseteq Pairs
        /\ \A t \in Int : (\E q \in part : In(t, q))
                            <=> w.start <= t /\ t < w.end /\ ~Paused(t, w)
    BY <1>1, <2>1, SegmentsAre
  <2> QED
    BY <2>1, <2>2
<1>3. PICK parts : parts = {activeWorkSegments(w) : w \in works}
  OBVIOUS
<1>4. PICK segments : segments = UNION parts
  OBVIOUS
<1>5. IsFiniteSet(segments) /\ segments \subseteq Pairs
  <2>1. PICK f : f = [w \in works |-> activeWorkSegments(w)]
    OBVIOUS
  <2>2. IsFiniteSet(works)
    BY DEF NetInv, WorksTyped
  <2>3. f \in [works -> parts]
    BY <1>3, <2>1
  <2>4. \A part \in parts : \E w \in works : f[w] = part
    BY <1>3, <2>1
  <2>5. /\ IsFiniteSet(parts)
        /\ Cardinality(parts) \in Nat /\ Cardinality(works) \in Nat
        /\ Cardinality(parts) <= Cardinality(works)
    BY <2>2, <2>3, <2>4, CountImage
  <2>6. \A part \in parts : IsFiniteSet(part) /\ part \subseteq Pairs
    BY <1>2, <1>3
  <2>7. IsFiniteSet(UNION parts)
    BY <2>5, <2>6, FS_UNION
  <2>8. UNION parts \subseteq Pairs
    BY <2>6
  <2> QED
    BY <1>4, <2>7, <2>8
<1>6. ASSUME NEW t \in Int
      PROVE  (\E q \in segments : In(t, q))
               <=> \E w \in works : w.start <= t /\ t < w.end /\ ~Paused(t, w)
  <2>1. (\E q \in segments : In(t, q)) <=> \E w \in works : \E q \in activeWorkSegments(w) : In(t, q)
    BY <1>3, <1>4
  <2> QED
    BY <1>2, <2>1
<1>7. ASSUME NEW t \in Int, \E q \in segments : In(t, q) PROVE t \in Times /\ t \in Nat
  <2>1. PICK w \in works : w.start <= t /\ t < w.end
    BY <1>6, <1>7
  <2>2. w.start \in 1..Horizon /\ w.end \in 1..Horizon
    BY <1>1 DEF Times
  <2> QED
    BY <1>0, <2>1, <2>2 DEF Times
<1>8. PICK configs : configs = forSite
  OBVIOUS
<1>9. Configs(configs)
  <2>1. configs \subseteq breaks
    BY <1>8 DEF forSite
  <2>2. IsFiniteSet(configs)
    BY <2>1, FS_Subset DEF NetInv, Configs
  <2> QED
    BY <2>1, <2>2 DEF NetInv, Configs
<1>10. PICK T : T = {t \in Int : (\E q \in segments : In(t, q)) /\ ~InBreak(t, configs)}
  OBVIOUS
<1>11. netMinutesOfSegments(segments, configs) = (Cardinality(T) + 1) \div 2
  <2>1. \A t \in Int : (\E q \in segments : In(t, q)) => t \in Nat
    BY <1>7
  <2> QED
    BY <1>5, <1>9, <1>10, <2>1, NetIs
<1>12. {t \in Times : Worked(t)} = T
  <2>1. ASSUME NEW t \in Int
        PROVE  Worked(t) <=> (\E q \in segments : In(t, q)) /\ ~InBreak(t, configs)
    <3>1. (\A b \in forSite :
              LET inDay == (t + KstOffset) % DayLength
              IN  b.to <= DayLength => ~(inDay >= b.from /\ inDay < b.to))
            <=> ~InBreak(t, configs)
      <4>1. PICK r : r = (t + KstOffset) % DayLength
        OBVIOUS
      <4>2. InBreak(t, configs)
              <=> \E c \in configs : c.to <= DayLength /\ c.from <= r /\ r < c.to
        BY <4>1 DEF InBreak
      <4>3. \A b \in forSite : r >= b.from <=> b.from <= r
        OBVIOUS
      <4> QED
        BY <1>8, <4>1, <4>2, <4>3
    <3>2. \A w \in works : (\A p \in w.pauses : ~(t >= p.from /\ (p.to = None \/ t < p.to)))
                              <=> ~Paused(t, w)
      BY DEF Paused
    <3>3. \A w \in works : t >= w.start <=> w.start <= t
      OBVIOUS
    <3>4. Worked(t) <=> /\ \E w \in works : w.start <= t /\ t < w.end /\ ~Paused(t, w)
                        /\ ~InBreak(t, configs)
      BY <3>1, <3>2, <3>3 DEF Worked
    <3> QED
      BY <1>6, <3>4
  <2>2. Times \subseteq Int
    BY DEF Times
  <2> QED
    BY <1>7, <1>10, <2>1, <2>2
<1>13. NetMinutesOfPerson = netMinutesOfSegments(segments, configs)
  BY <1>3, <1>4, <1>8 DEF NetMinutesOfPerson
<1> QED
  BY <1>11, <1>12, <1>13 DEF NetAgrees

\* Whatever the works, pauses and breaks of a person, the calculation counts every half
\* minute of the works once, outside its pauses and outside the breaks of its day.
THEOREM NetAlwaysAgrees == NetSpec => []NetAgrees
<1>1. NetInv => NetAgrees
  BY NetCounts
<1> QED
  BY <1>1, NetAlways, PTL

-----------------------------------------------------------------------------
(* What is always true of the rows of the report *)

Month == MonthStart..(MonthEnd - 1)

\* The rows the report reads are typed; records are of hours of the month.
TaskType == [by : People, with : SUBSET People, start : Nat, end : Nat \cup {None},
             pauses : SUBSET Stops]

Task(task) == task \in TaskType /\ IsFiniteSet(task.pauses) /\ task.start < MonthEnd

ExposureInv ==
    /\ tasks \in Seq(TaskType) /\ \A i \in DOMAIN tasks : Task(tasks[i])
    /\ Configs(rests) /\ \A r \in rests : r.to <= DayLength
    /\ IsFiniteSet(records)
    /\ \A r \in records : r.level \in Ranks /\ \E t \in Month : r.at = HourOf(t)
    /\ alerts \in [People -> Nat]

\* What the assumption says of each constant, and of the times of the month.
LEMMA ExposureConstants ==
    /\ HourLength \in Nat /\ HourLength > 0 /\ MonthStart \in Nat /\ MonthEnd \in Nat
    /\ Danger \in Nat /\ MonthStart < MonthEnd /\ Moments \subseteq Nat
    /\ \A m \in Moments : m <= MonthEnd
    /\ \A t \in Month : t \in Nat /\ t \in Int /\ MonthStart <= t /\ t < MonthEnd
    /\ \A t \in Int : MonthStart <= t /\ t < MonthEnd => t \in Month
<1>1. PICK a, b, c, d, e : /\ a = HourLength /\ b = MonthStart /\ c = MonthEnd /\ d = Danger
                           /\ e = MaxInputs /\ {a, b, c, d, e} \subseteq Nat
  BY ExposureAssumption
<1>2. a \in Nat /\ b \in Nat /\ c \in Nat /\ d \in Nat
  BY <1>1
<1> QED
  BY <1>1, <1>2, ExposureAssumption DEF Month

\* The invariant holds before there is a row.
LEMMA ExposureStarts == ExposureInit => ExposureInv
BY FS_EmptySet DEF ExposureInit, ExposureFrom, ExposureInv, Configs

\* Each new item, helper, pause, break, record and alert keeps the rows typed.
LEMMA ExposureSteps == ExposureInv /\ [ExposureNext]_exposureVars => ExposureInv'
<1> SUFFICES ASSUME ExposureInv, [ExposureNext]_exposureVars PROVE ExposureInv'
  OBVIOUS
<1>0. /\ tasks \in Seq(TaskType) /\ \A i \in DOMAIN tasks : Task(tasks[i])
      /\ Configs(rests) /\ \A r \in rests : r.to <= DayLength
      /\ IsFiniteSet(records)
      /\ \A r \in records : r.level \in Ranks /\ \E t \in Month : r.at = HourOf(t)
      /\ alerts \in [People -> Nat]
  BY DEF ExposureInv
<1>1. CASE UNCHANGED exposureVars
  BY <1>0, <1>1 DEF exposureVars, ExposureInv
<1>2. ASSUME NEW w \in People, NEW start \in Moments, NEW end \in Moments \cup {None},
             AddTask(w, start, end)
      PROVE  ExposureInv'
  <2>1. PICK x : x = [by |-> w, with |-> {}, start |-> start, end |-> end, pauses |-> {}]
    OBVIOUS
  <2>2. start \in Nat /\ end \in Nat \cup {None} /\ start < MonthEnd
    BY <1>2, ExposureConstants DEF AddTask
  <2>3. x \in TaskType
    BY <2>1, <2>2 DEF TaskType
  <2>4. Task(x)
    BY <2>1, <2>2, <2>3, FS_EmptySet DEF Task
  <2>5. PICK s : s = Append(tasks, x)
    OBVIOUS
  <2>6. tasks' = s /\ UNCHANGED <<rests, records, alerts>>
    BY <1>2, <2>1, <2>5 DEF AddTask
  <2>7. s \in Seq(TaskType) /\ \A i \in DOMAIN s : s[i] = x \/ \E j \in DOMAIN tasks : s[i] = tasks[j]
    BY <1>0, <2>3, <2>5
  <2>8. \A i \in DOMAIN s : Task(s[i])
    BY <1>0, <2>4, <2>7
  <2> QED
    BY <1>0, <2>6, <2>7, <2>8 DEF ExposureInv
<1>3. ASSUME NEW i \in DOMAIN tasks, NEW x \in TaskType, Task(x),
             tasks' = [tasks EXCEPT ![i] = x], UNCHANGED <<rests, records, alerts>>
      PROVE  ExposureInv'
  <2>1. PICK s : s = [tasks EXCEPT ![i] = x]
    OBVIOUS
  <2>2. s \in Seq(TaskType) /\ DOMAIN s = DOMAIN tasks
    BY <1>0, <2>1
  <2>3. \A j \in DOMAIN s : Task(s[j])
    BY <1>0, <1>3, <2>1, <2>2
  <2> QED
    BY <1>0, <1>3, <2>1, <2>2, <2>3 DEF ExposureInv
<1>4. ASSUME NEW i \in DOMAIN tasks
      PROVE  /\ tasks[i] \in TaskType
             /\ tasks[i] = [by |-> tasks[i].by, with |-> tasks[i].with, start |-> tasks[i].start,
                            end |-> tasks[i].end, pauses |-> tasks[i].pauses]
             /\ tasks[i].by \in People /\ tasks[i].with \subseteq People
             /\ tasks[i].start \in Nat /\ tasks[i].end \in Nat \cup {None}
             /\ tasks[i].pauses \subseteq Stops
             /\ IsFiniteSet(tasks[i].pauses) /\ tasks[i].start < MonthEnd
  <2>1. tasks[i] \in TaskType /\ IsFiniteSet(tasks[i].pauses) /\ tasks[i].start < MonthEnd
    BY <1>0 DEF Task
  <2> QED
    BY <2>1 DEF TaskType
<1>5. ASSUME NEW i \in DOMAIN tasks, NEW w \in People, AddMate(i, w) PROVE ExposureInv'
  <2>1. PICK old : old = tasks[i]
    OBVIOUS
  <2>2. PICK with : with = old.with \cup {w}
    OBVIOUS
  <2>3. PICK x : x = [old EXCEPT !.with = with]
    OBVIOUS
  <2>4. x = [by |-> old.by, with |-> with, start |-> old.start, end |-> old.end,
             pauses |-> old.pauses]
    BY <1>4, <2>1, <2>3
  <2>5. with \subseteq People
    BY <1>4, <2>1, <2>2
  <2>6. x \in TaskType
    BY <1>4, <2>1, <2>4, <2>5 DEF TaskType
  <2>7. Task(x)
    BY <1>4, <2>1, <2>4, <2>6 DEF Task
  <2>8. tasks' = [tasks EXCEPT ![i] = x] /\ UNCHANGED <<rests, records, alerts>>
    BY <1>5, <2>1, <2>2, <2>3 DEF AddMate
  <2> QED
    BY <1>3, <2>6, <2>7, <2>8
<1>6. ASSUME NEW i \in DOMAIN tasks, NEW p \in Stops, AddStop(i, p) PROVE ExposureInv'
  <2>1. PICK old : old = tasks[i]
    OBVIOUS
  <2>2. PICK had : had = old.pauses
    OBVIOUS
  <2>3. PICK x : x = [old EXCEPT !.pauses = had \cup {p}]
    OBVIOUS
  <2>4. x = [by |-> old.by, with |-> old.with, start |-> old.start, end |-> old.end,
             pauses |-> had \cup {p}]
    BY <1>4, <2>1, <2>3
  <2>5. had \cup {p} \subseteq Stops /\ IsFiniteSet(had \cup {p})
    BY <1>4, <2>1, <2>2, FS_AddElement
  <2>6. x \in TaskType
    BY <1>4, <2>1, <2>4, <2>5 DEF TaskType
  <2>7. Task(x)
    BY <1>4, <2>1, <2>4, <2>5, <2>6 DEF Task
  <2>8. tasks' = [tasks EXCEPT ![i] = x] /\ UNCHANGED <<rests, records, alerts>>
    BY <1>6, <2>1, <2>2, <2>3 DEF AddStop
  <2> QED
    BY <1>3, <2>6, <2>7, <2>8
<1>7. ASSUME NEW r \in [from : 0..DayLength, to : 0..DayLength, global : BOOLEAN], AddRest(r)
      PROVE  ExposureInv'
  <2>2. DayLength \in Nat
    BY WorkTimeAssumption
  <2>3. r.from \in Nat /\ r.to \in Nat /\ r.to <= DayLength
    BY <2>2
  <2>4. rests' = rests \cup {r} /\ UNCHANGED <<tasks, records, alerts>>
    BY <1>7 DEF AddRest
  <2>5. IsFiniteSet(rests \cup {r})
    BY <1>0, FS_AddElement DEF Configs
  <2> QED
    BY <1>0, <2>3, <2>4, <2>5 DEF ExposureInv, Configs
<1>8. ASSUME NEW t \in Month, NEW level \in Ranks, AddRecord(HourOf(t), level)
      PROVE  ExposureInv'
  <2>1. PICK r : r = [at |-> HourOf(t), level |-> level]
    OBVIOUS
  <2>2. records' = records \cup {r} /\ UNCHANGED <<tasks, rests, alerts>>
    BY <1>8, <2>1 DEF AddRecord
  <2>3. IsFiniteSet(records \cup {r})
    BY <1>0, FS_AddElement
  <2>4. r.level \in Ranks /\ \E u \in Month : r.at = HourOf(u)
    BY <2>1
  <2> QED
    BY <1>0, <2>2, <2>3, <2>4 DEF ExposureInv
<1>9. ASSUME NEW w \in People, AddAlert(w) PROVE ExposureInv'
  <2>1. alerts' \in [People -> Nat]
    BY <1>0, <1>9 DEF AddAlert
  <2>2. UNCHANGED <<tasks, rests, records>>
    BY <1>9 DEF AddAlert
  <2> QED
    BY <1>0, <2>1, <2>2 DEF ExposureInv
<1> QED
  BY <1>1, <1>2, <1>5, <1>6, <1>7, <1>8, <1>9 DEF ExposureNext, Month

\* The rows the report and the dashboard read are typed.
LEMMA ExposureAlways == ExposureSpec => []ExposureInv
BY ExposureStarts, ExposureSteps, PTL DEF ExposureSpec

\* The breaks of a worker are some of those on file.
LEMMA RestsAre ==
    ASSUME ExposureInv, NEW w
    PROVE  Configs(restsFor(w)) /\ \A r \in restsFor(w) : r.to <= DayLength
<1>1. PICK B : B = restsFor(w)
  OBVIOUS
<1>2. B \subseteq rests
  BY <1>1 DEF restsFor
<1>3. IsFiniteSet(rests) /\ \A r \in rests : r.from \in Nat /\ r.to \in Nat /\ r.to <= DayLength
  BY DEF ExposureInv, Configs
<1>4. IsFiniteSet(B)
  BY <1>2, <1>3, FS_Subset
<1> QED
  BY <1>1, <1>2, <1>3, <1>4 DEF Configs

-----------------------------------------------------------------------------
(* The hours and levels of the report *)

\* The hour of a time is the only one that the time is in.
LEMMA HourIs ==
    ASSUME NEW t \in Nat
    PROVE  /\ HourOf(t) \in Nat /\ HourOf(t) <= t /\ t < HourOf(t) + HourLength
           /\ \A u \in Nat : HourOf(u) <= t /\ t < HourOf(u) + HourLength => HourOf(u) = HourOf(t)
<1>1. ASSUME NEW x \in Nat
      PROVE  \E q \in Nat, r \in Nat : /\ HourOf(x) = HourLength * q /\ r < HourLength
                                       /\ x = HourLength * q + r
  <2>1. PICK h \in Nat : h = HourLength /\ h > 0
    BY ExposureConstants
  <2>2. PICK q, r : q = x \div h /\ r = (x % h)
    OBVIOUS
  <2>3. q \in Nat /\ r \in Nat /\ r < h /\ x = h * q + r
    <3>1. (x % h) \in Nat /\ (x % h) < h
      BY <2>1
    <3>2. x = h * (x \div h) + (x % h)
      BY <2>1
    <3>3. (x \div h) \in Nat
      BY <2>1
    <3> QED
      BY <2>2, <3>1, <3>2, <3>3
  <2>4. HourOf(x) = q * h
    BY <2>1, <2>2 DEF HourOf
  <2>5. q * h = h * q
    BY <2>1, <2>3
  <2> QED
    BY <2>1, <2>3, <2>4, <2>5
<1>2. PICK h \in Nat : h = HourLength /\ h > 0
  BY ExposureConstants
<1>3. PICK q \in Nat, r \in Nat : HourOf(t) = h * q /\ r < h /\ t = h * q + r
  BY <1>1, <1>2
<1>4. PICK x \in Nat : x = HourOf(t) /\ x = h * q
  BY <1>2, <1>3
<1>5. ASSUME NEW u \in Nat, HourOf(u) <= t, t < HourOf(u) + h PROVE HourOf(u) = HourOf(t)
  <2>1. PICK p \in Nat : HourOf(u) = h * p
    BY <1>1, <1>2
  <2>2. PICK y \in Nat : y = h * p /\ y <= t /\ t < y + h
    BY <1>2, <1>5, <2>1
  <2>3. PICK v \in Nat : v = t - y /\ v < h
    BY <1>2, <2>2
  <2>4. t = h * p + v
    BY <2>2, <2>3
  <2>5. (t \div h) = p
    BY <1>2, <2>3, <2>4, DivIs
  <2>6. (t \div h) = q
    BY <1>2, <1>3, DivIs
  <2> QED
    BY <1>3, <2>1, <2>5, <2>6
<1>6. x <= t /\ t < x + h
  BY <1>2, <1>3, <1>4
<1> QED
  BY <1>2, <1>4, <1>5, <1>6

\* The level of a time is that of its hour.
LEMMA LevelIs ==
    ASSUME ExposureInv, NEW t \in Nat
    PROVE  /\ hourLevel(HourOf(t)) \in Levels
           /\ \A level \in Levels : LevelAt(t, level) <=> hourLevel(HourOf(t)) = level
           /\ \A r \in records : r.at = HourOf(t) => r.level <= hourLevel(HourOf(t))
<1>1. PICK here : here = {r \in records : t >= r.at /\ t < r.at + HourLength}
  OBVIOUS
<1>2. here = {r \in records : r.at = HourOf(t)}
  <2>1. ASSUME NEW r \in records
        PROVE  (t >= r.at /\ t < r.at + HourLength) <=> r.at = HourOf(t)
    <3>1. PICK u \in Month : r.at = HourOf(u)
      BY DEF ExposureInv
    <3>2. u \in Nat
      BY ExposureConstants
    <3>3. r.at \in Nat /\ (t >= r.at <=> r.at <= t)
      BY <3>1, <3>2, HourIs
    <3>4. HourOf(u) <= t /\ t < HourOf(u) + HourLength => HourOf(u) = HourOf(t)
      BY <3>2, HourIs
    <3>5. HourOf(t) <= t /\ t < HourOf(t) + HourLength
      BY HourIs
    <3> QED
      BY <3>1, <3>3, <3>4, <3>5
  <2> QED
    BY <1>1, <2>1
<1>3. PICK found : found = {r.level : r \in here}
  OBVIOUS
<1>4. IsFiniteSet(here) /\ \A r \in here : r.level \in Ranks
  <2>1. here \subseteq records
    BY <1>1
  <2>2. IsFiniteSet(here)
    BY <2>1, FS_Subset DEF ExposureInv
  <2> QED
    BY <2>1, <2>2 DEF ExposureInv
<1>5. IsFiniteSet(found) /\ found \subseteq Ranks
  <2>1. PICK f : f = [r \in here |-> r.level]
    OBVIOUS
  <2>2. IsFiniteSet(here) /\ f \in [here -> Ranks]
    BY <1>4, <2>1
  <2>3. \A l \in found : \E r \in here : f[r] = l
    BY <1>3, <2>1
  <2>4. /\ IsFiniteSet(found)
        /\ Cardinality(found) \in Nat /\ Cardinality(here) \in Nat
        /\ Cardinality(found) <= Cardinality(here)
    BY <2>2, <2>3, CountImage
  <2> QED
    BY <1>3, <1>4, <2>4
<1>6. PICK level : level = hourLevel(HourOf(t))
  OBVIOUS
<1>7. level = IF found = {} THEN Unknown ELSE Max(found)
  BY <1>2, <1>3, <1>6 DEF hourLevel
<1>8. found = {} <=> here = {}
  BY <1>3
<1>9. Ranks \subseteq Int /\ Unknown \in Int /\ Unknown \notin Ranks
  BY ExposureConstants DEF Ranks, Unknown
<1>10. CASE here = {}
  <2>1. level = Unknown
    BY <1>7, <1>8, <1>10
  <2>2. \A x \in Levels : LevelAt(t, x) <=> x = Unknown
    BY <1>1, <1>10 DEF LevelAt
  <2>3. Unknown \in Levels
    BY DEF Levels
  <2> QED
    BY <1>2, <1>6, <1>10, <2>1, <2>2, <2>3
<1>11. CASE here # {}
  <2>1. found \subseteq Int /\ found # {}
    BY <1>5, <1>8, <1>9, <1>11
  <2>2. \E x \in found : \A y \in found : x >= y
    BY <1>5, <2>1, HasGreatest
  <2>3. level \in found /\ \A y \in found : level >= y
    BY <1>7, <1>8, <1>11, <2>2 DEF Max
  <2>4. level \in Ranks /\ level \in Int
    BY <1>5, <1>9, <2>3
  <2>5. ASSUME NEW r \in here PROVE r.level \in Int /\ r.level <= level
    <3>1. r.level \in found /\ r.level \in Int
      BY <1>3, <1>4, <1>9
    <3> QED
      BY <2>3, <2>4, <3>1
  <2>6. PICK top \in here : top.level = level
    BY <1>3, <2>3
  <2>7. ASSUME NEW x \in Levels PROVE LevelAt(t, x) <=> level = x
    <3>1. CASE x = Unknown
      BY <1>1, <1>9, <1>11, <2>4, <3>1 DEF LevelAt
    <3>2. CASE x # Unknown
      <4>1. x \in Int
        BY <1>9, <3>2 DEF Levels
      <4>2. LevelAt(t, x) <=> (\E r \in here : r.level = x) /\ \A r \in here : r.level <= x
        BY <1>1, <3>2 DEF LevelAt
      <4>3. ASSUME \E r \in here : r.level = x, \A r \in here : r.level <= x PROVE level = x
        <5>1. x <= level
          BY <2>5, <4>3
        <5>2. level <= x
          BY <2>6, <4>3
        <5> QED
          BY <2>4, <4>1, <5>1, <5>2
      <4>4. level = x => (\E r \in here : r.level = x) /\ \A r \in here : r.level <= x
        BY <2>5, <2>6
      <4> QED
        BY <4>2, <4>3, <4>4
    <3> QED
      BY <3>1, <3>2
  <2> QED
    BY <1>2, <1>6, <2>4, <2>5, <2>7 DEF Levels
<1> QED
  BY <1>10, <1>11

\* The segments of an item until end are its time until then without its pauses.
LEMMA ActiveIs ==
    ASSUME NEW task, Task(task), NEW end \in Int, NEW v, v = [task EXCEPT !.end = end],
           NEW segments, segments = activeWorkSegments(v)
    PROVE  /\ IsFiniteSet(segments) /\ segments \subseteq Pairs /\ Disjoint(segments)
           /\ \A t \in Int : (\E q \in segments : In(t, q))
                               <=> task.start <= t /\ t < end /\ ~Paused(t, task)
<1>1. task \in TaskType /\ IsFiniteSet(task.pauses)
  BY DEF Task
<1>2. /\ task.start \in Int /\ task.pauses \subseteq Stops
      /\ task = [by |-> task.by, with |-> task.with, start |-> task.start, end |-> task.end,
                 pauses |-> task.pauses]
  BY <1>1 DEF TaskType
<1>3. v = [by |-> task.by, with |-> task.with, start |-> task.start, end |-> end,
           pauses |-> task.pauses]
  BY <1>2
<1>4. v.start = task.start /\ v.end = end /\ v.pauses = task.pauses
  BY <1>3
<1>5. \A p \in Stops : p.from \in Int /\ (p.to = None \/ p.to \in Int)
  BY ExposureConstants DEF Stops
<1>6. Typed(v)
  BY <1>1, <1>2, <1>4, <1>5 DEF Typed
<1>7. \A t : Paused(t, v) <=> Paused(t, task)
  BY <1>4 DEF Paused
<1>8. /\ IsFiniteSet(segments) /\ segments \subseteq Pairs /\ Disjoint(segments)
      /\ \A t \in Int : (\E q \in segments : In(t, q))
                          <=> v.start <= t /\ t < v.end /\ ~Paused(t, v)
  BY <1>6, SegmentsAre
<1> QED
  BY <1>4, <1>7, <1>8

\* The half minute at t is spent on the item, outside its pauses and the breaks.
Spent(task, t) ==
    task.start <= t /\ t < Until(task.end) /\ ~Paused(t, task) /\ ~InBreak(t, restsFor(task.by))

Piece(s, e, h) == <<h, Latest(h, s), Earliest(h + HourLength, e)>>

PiecesOf(seg) ==
    LET s == Latest(seg[1], MonthStart)
        e == Earliest(seg[2], MonthEnd)
    IN  {<<h, Latest(h, s), Earliest(h + HourLength, e)>> : h \in {HourOf(t) : t \in s..(e - 1)}}

\* The piece of a segment at time u of the month: the part of it in the hour of u.
LEMMA PieceIs ==
    ASSUME NEW seg \in Pairs
    PROVE  /\ IsFiniteSet(PiecesOf(seg))
           /\ \A p \in PiecesOf(seg) : \E u \in Month : /\ In(u, seg)
                                                        /\ p[1] = HourOf(u) /\ p[2] \in Nat
                                                        /\ p[3] \in Int /\ p[2] <= p[3]
                                                        /\ p = <<p[1], p[2], p[3]>>
           /\ \A p \in PiecesOf(seg) : \A t \in Int :
                p[2] <= t /\ t < p[3]
                  <=> t \in Month /\ In(t, seg) /\ p[1] = HourOf(t)
           /\ \A u \in Month : In(u, seg) => \E p \in PiecesOf(seg) : p[1] = HourOf(u)
           /\ \A p, r \in PiecesOf(seg) : p[1] = r[1] => p = r
<1>0. /\ HourLength \in Nat /\ MonthStart \in Nat /\ MonthEnd \in Nat
      /\ \A t \in Month : t \in Nat /\ t \in Int /\ MonthStart <= t /\ t < MonthEnd
      /\ \A t \in Int : MonthStart <= t /\ t < MonthEnd => t \in Month
  BY ExposureConstants
<1>1. PICK a \in Int, b \in Int : a = seg[1] /\ b = seg[2]
  BY DEF Pairs
<1>2. PICK s \in Int, e \in Int : s = Latest(a, MonthStart) /\ e = Earliest(b, MonthEnd)
  BY <1>0 DEF Latest, Earliest
<1>3. /\ s \in Nat
      /\ \A t \in Int : s <= t /\ t < e <=> t \in Month /\ In(t, seg)
  <2>1. s \in Nat
    BY <1>0, <1>2 DEF Latest
  <2>2. \A t \in Int : s <= t /\ t < e <=> MonthStart <= t /\ t < MonthEnd /\ a <= t /\ t < b
    BY <1>0, <1>2 DEF Latest, Earliest
  <2> QED
    BY <1>0, <1>1, <2>1, <2>2 DEF In
<1>4. PICK span : span = s..(e - 1)
  OBVIOUS
<1>5. IsFiniteSet(span) /\ \A u \in span : u \in Month /\ u \in Nat /\ In(u, seg) /\ s <= u /\ u < e
  <2>1. e - 1 \in Int
    OBVIOUS
  <2>2. IsFiniteSet(span)
    BY <1>4, <2>1, FS_Interval
  <2> QED
    BY <1>0, <1>3, <1>4, <2>2
<1>6. PICK pieces : pieces = PiecesOf(seg)
  OBVIOUS
<1>7. pieces = {Piece(s, e, h) : h \in {HourOf(t) : t \in span}}
  BY <1>1, <1>2, <1>4, <1>6 DEF PiecesOf, Piece
<1>8. /\ \A u \in span : Piece(s, e, HourOf(u)) \in pieces
      /\ \A p \in pieces : \E u \in span : p = Piece(s, e, HourOf(u))
  BY <1>7
<1>9. ASSUME NEW u \in span, NEW p, p = Piece(s, e, HourOf(u))
      PROVE  /\ p[1] = HourOf(u) /\ p[2] \in Nat /\ p[3] \in Int /\ p[2] <= p[3]
             /\ p = <<p[1], p[2], p[3]>>
             /\ \A t \in Int : p[2] <= t /\ t < p[3] <=> t \in Month /\ In(t, seg) /\ p[1] = HourOf(t)
  <2>1. PICK h \in Nat : h = HourOf(u) /\ h <= u /\ u < h + HourLength
    BY <1>5, HourIs
  <2>2. PICK c, d : c = Latest(h, s) /\ d = Earliest(h + HourLength, e)
    OBVIOUS
  <2>3. c \in Nat /\ d \in Int /\ c <= u /\ u < d
    BY <1>0, <1>3, <1>5, <2>1, <2>2 DEF Latest, Earliest
  <2>4. p = <<h, c, d>>
    BY <1>9, <2>1, <2>2 DEF Piece
  <2>5. ASSUME NEW t \in Int
        PROVE  c <= t /\ t < d <=> t \in Month /\ In(t, seg) /\ h = HourOf(t)
    <3>1. c <= t /\ t < d <=> h <= t /\ t < h + HourLength /\ s <= t /\ t < e
      BY <1>0, <1>3, <2>1, <2>2 DEF Latest, Earliest
    <3>2. ASSUME t \in Month PROVE (h <= t /\ t < h + HourLength) <=> h = HourOf(t)
      <4>1. t \in Nat
        BY <1>0, <3>2
      <4>2. HourOf(t) <= t /\ t < HourOf(t) + HourLength
        BY <4>1, HourIs
      <4>3. HourOf(u) <= t /\ t < HourOf(u) + HourLength => HourOf(u) = HourOf(t)
        BY <1>5, <4>1, HourIs
      <4> QED
        BY <2>1, <4>2, <4>3
    <3> QED
      BY <1>3, <3>1, <3>2
  <2>6. p[1] = h /\ p[2] = c /\ p[3] = d
    BY <2>4
  <2>7. c <= d
    <3>1. u \in Nat
      BY <1>5
    <3> QED
      BY <2>3, <3>1
  <2>8. /\ p[1] = HourOf(u) /\ p[2] \in Nat /\ p[3] \in Int /\ p[2] <= p[3]
        /\ p = <<p[1], p[2], p[3]>>
    BY <2>1, <2>3, <2>4, <2>6, <2>7
  <2>9. \A t \in Int : p[2] <= t /\ t < p[3] <=> t \in Month /\ In(t, seg) /\ p[1] = HourOf(t)
    BY <2>5, <2>6
  <2> QED
    BY <2>8, <2>9
<1>10. IsFiniteSet(pieces)
  <2>1. PICK f : f = [u \in span |-> Piece(s, e, HourOf(u))]
    OBVIOUS
  <2>2. IsFiniteSet(span) /\ f \in [span -> pieces]
    BY <1>5, <1>8, <2>1
  <2>3. \A p \in pieces : \E u \in span : f[u] = p
    BY <1>8, <2>1
  <2>4. /\ IsFiniteSet(pieces)
        /\ Cardinality(pieces) \in Nat /\ Cardinality(span) \in Nat
        /\ Cardinality(pieces) <= Cardinality(span)
    BY <2>2, <2>3, CountImage
  <2> QED
    BY <2>4
<1>11. ASSUME NEW p \in pieces
       PROVE  \E u \in Month : /\ In(u, seg)
                               /\ p[1] = HourOf(u) /\ p[2] \in Nat
                               /\ p[3] \in Int /\ p[2] <= p[3]
                               /\ p = <<p[1], p[2], p[3]>>
  <2>1. PICK u \in span : p = Piece(s, e, HourOf(u))
    BY <1>8
  <2> QED
    BY <1>5, <1>9, <2>1
<1>12. ASSUME NEW p \in pieces, NEW t \in Int
       PROVE  p[2] <= t /\ t < p[3] <=> t \in Month /\ In(t, seg) /\ p[1] = HourOf(t)
  <2>1. PICK u \in span : p = Piece(s, e, HourOf(u))
    BY <1>8
  <2> QED
    BY <1>9, <2>1
<1>13. ASSUME NEW u \in Month, In(u, seg) PROVE \E p \in pieces : p[1] = HourOf(u)
  <2>1. u \in Int /\ s <= u /\ u < e
    BY <1>0, <1>3, <1>13
  <2>2. u \in span
    BY <1>4, <2>1
  <2>3. PICK p \in pieces : p = Piece(s, e, HourOf(u))
    BY <1>8, <2>2
  <2>4. p[1] = HourOf(u)
    BY <2>3 DEF Piece
  <2> QED
    BY <2>4
<1>14. ASSUME NEW p \in pieces, NEW r \in pieces, p[1] = r[1] PROVE p = r
  <2>1. PICK u \in span, x \in span : p = Piece(s, e, HourOf(u)) /\ r = Piece(s, e, HourOf(x))
    BY <1>8
  <2>2. HourOf(u) = HourOf(x)
    BY <1>9, <1>14, <2>1
  <2> QED
    BY <2>1, <2>2
<1> QED
  BY <1>6, <1>10, <1>11, <1>12, <1>13, <1>14

\* What the report counts of an item at a level: its half minutes of that level, each once.
LEMMA ExposedIs ==
    ASSUME ExposureInv, NEW task, Task(task), NEW level \in Levels,
           NEW T, T = {t \in Month : Spent(task, t) /\ LevelAt(t, level)}
    PROVE  IsFiniteSet(T) /\ Exposed(task, level) = Cardinality(T)
<1>0. \A t \in Month : t \in Nat /\ t \in Int
  BY ExposureConstants
<1>1. PICK end \in Int : end = Until(task.end)
  <2>1. task.end \in Nat \cup {None}
    BY DEF Task, TaskType
  <2>2. MonthEnd \in Nat
    BY ExposureConstants
  <2> QED
    BY <2>1, <2>2 DEF Until, Now
<1>2. PICK segments : segments = activeSegmentsOf(task)
  OBVIOUS
<1>3. /\ IsFiniteSet(segments) /\ segments \subseteq Pairs /\ Disjoint(segments)
      /\ \A t \in Int : (\E q \in segments : In(t, q))
                          <=> task.start <= t /\ t < end /\ ~Paused(t, task)
  <2>1. PICK v : v = [task EXCEPT !.end = end]
    OBVIOUS
  <2>2. segments = activeWorkSegments(v)
    BY <1>1, <1>2, <2>1 DEF activeSegmentsOf
  <2> QED
    BY <2>1, <2>2, ActiveIs
<1>4. PICK Q : Q = {p \in Pieces(task) : hourLevel(p[1]) = level}
  OBVIOUS
<1>5. PICK parts : parts = {PiecesOf(seg) : seg \in segments}
  OBVIOUS
<1>6. Pieces(task) = UNION parts
  <2>1. Pieces(task) = UNION {PiecesOf(seg) : seg \in activeSegmentsOf(task)}
    BY Zenon DEF Pieces, PiecesOf
  <2> QED
    BY <1>2, <1>5, <2>1
<1>7. IsFiniteSet(Q)
  <2>1. PICK f : f = [seg \in segments |-> PiecesOf(seg)]
    OBVIOUS
  <2>2. IsFiniteSet(segments) /\ f \in [segments -> parts]
    BY <1>3, <1>5, <2>1
  <2>3. \A part \in parts : \E seg \in segments : f[seg] = part
    BY <1>5, <2>1
  <2>4. /\ IsFiniteSet(parts)
        /\ Cardinality(parts) \in Nat /\ Cardinality(segments) \in Nat
        /\ Cardinality(parts) <= Cardinality(segments)
    BY <2>2, <2>3, CountImage
  <2>5. \A seg \in segments : IsFiniteSet(PiecesOf(seg))
    BY <1>3, PieceIs
  <2>6. \A part \in parts : IsFiniteSet(part)
    BY <1>5, <2>5
  <2>7. IsFiniteSet(UNION parts)
    BY <2>4, <2>6, FS_UNION
  <2>8. Q \subseteq UNION parts
    BY <1>4, <1>6
  <2> QED
    BY <2>7, <2>8, FS_Subset
<1>8. ASSUME NEW p \in Q
      PROVE  /\ \E seg \in segments : p \in PiecesOf(seg)
             /\ hourLevel(p[1]) = level
             /\ p[2] \in Nat /\ p[3] \in Int /\ p[2] <= p[3]
  <2>1. p \in UNION parts /\ hourLevel(p[1]) = level
    BY <1>4, <1>6
  <2>2. PICK seg \in segments : p \in PiecesOf(seg)
    BY <1>5, <2>1
  <2>3. seg \in Pairs
    BY <1>3
  <2>4. p[2] \in Nat /\ p[3] \in Int /\ p[2] <= p[3]
    BY <2>2, <2>3, PieceIs
  <2> QED
    BY <2>1, <2>2, <2>4
<1>19. PICK B : B = restsFor(task.by) /\ Configs(B)
  BY RestsAre
<1>9. PICK P : P = [p \in Q |-> {t \in Int : p[2] <= t /\ t < p[3] /\ ~InBreak(t, B)}]
  OBVIOUS
<1>10. PICK w : w = [p \in Q |-> (p[3] - p[2]) - breakOverlap(p[2], p[3], B)]
  OBVIOUS
<1>11. ASSUME NEW p \in Q PROVE IsFiniteSet(P[p]) /\ w[p] = Cardinality(P[p])
  <2>1. PICK a \in Nat, b \in Int : a = p[2] /\ b = p[3] /\ a <= b
    BY <1>8
  <2>2. PICK A : A = {t \in Int : a <= t /\ t < b /\ ~InBreak(t, B)}
    OBVIOUS
  <2>3. Configs(B)
    BY <1>19
  <2>4. IsFiniteSet(A) /\ (b - a) - breakOverlap(a, b, B) = Cardinality(A)
    BY <2>1, <2>2, <2>3, SpanNetIs
  <2> QED
    BY <1>9, <1>10, <2>1, <2>2, <2>4
<1>12. ASSUME NEW p \in Q, NEW t
       PROVE  t \in P[p] <=> /\ t \in Month /\ ~InBreak(t, B) /\ p[1] = HourOf(t)
                             /\ \E seg \in segments : p \in PiecesOf(seg) /\ In(t, seg)
  <2>1. t \in P[p] <=> t \in Int /\ p[2] <= t /\ t < p[3] /\ ~InBreak(t, B)
    BY <1>9
  <2>2. PICK seg \in segments : p \in PiecesOf(seg)
    BY <1>8
  <2>3. ASSUME NEW q \in segments, p \in PiecesOf(q), t \in Int
        PROVE  p[2] <= t /\ t < p[3] <=> t \in Month /\ In(t, q) /\ p[1] = HourOf(t)
    <3>1. q \in Pairs
      BY <1>3
    <3> QED
      BY <2>3, <3>1, PieceIs
  <2> QED
    BY <1>0, <2>1, <2>2, <2>3
<1>13. ASSUME NEW p \in Q, NEW r \in Q, p # r PROVE P[p] \cap P[r] = {}
  <2>1. ASSUME NEW t \in P[p], t \in P[r] PROVE FALSE
    <3>1. PICK seg \in segments : t \in Month /\ p[1] = HourOf(t) /\ p \in PiecesOf(seg) /\ In(t, seg)
      BY <1>12
    <3>2. PICK q \in segments : r[1] = HourOf(t) /\ r \in PiecesOf(q) /\ In(t, q)
      BY <1>12, <2>1
    <3>3. t \in Int /\ seg \in Pairs
      BY <1>0, <1>3, <3>1
    <3>4. seg = q
      BY <1>3, <3>1, <3>2, <3>3 DEF Disjoint
    <3>5. p = r
      BY <3>1, <3>2, <3>3, <3>4, PieceIs
    <3> QED
      BY <1>13, <3>5
  <2> QED
    BY <2>1
<1>14. Portions(Q, P, w)
  BY <1>11, <1>13 DEF Portions
<1>15. SetSum(Exposed(task, level), Q, w)
  <2> DEFINE Part(p) == (p[3] - p[2]) - breakOverlap(p[2], p[3], B)
             First(g) == [s \in SUBSET Q |-> IF s = {} THEN 0 ELSE Part(Some(s)) + g[s \ {Some(s)}]]
             Second(g) == [s \in SUBSET Q |-> IF s = {} THEN 0 ELSE w[Some(s)] + g[s \ {Some(s)}]]
  <2>1. Exposed(task, level) =
          (CHOOSE g : g = [s \in SUBSET {p \in Pieces(task) : hourLevel(p[1]) = level} |->
             IF s = {} THEN 0
             ELSE ((Some(s)[3] - Some(s)[2]) - breakOverlap(Some(s)[2], Some(s)[3], restsFor(task.by)))
                  + g[s \ {Some(s)}]])[{p \in Pieces(task) : hourLevel(p[1]) = level}]
    BY Zenon DEF Exposed, MapThenSumSet, MapThenFoldSet, Some
  <2>2. Exposed(task, level) = (CHOOSE g : g = First(g))[Q]
    BY <1>19, <1>4, <2>1
  <2>3. \A g : First(g) = Second(g)
    <3>1. \A p \in Q : w[p] = Part(p)
      BY <1>10
    <3> HIDE DEF Part
    <3>2. \A s \in SUBSET Q : s # {} => Some(s) \in Q
      BY DEF Some
    <3> QED
      BY <3>1, <3>2
  <2>4. Exposed(task, level) = (CHOOSE g : g = Second(g))[Q]
    <3> HIDE DEF Part, First, Second
    <3> QED
      BY <2>2, <2>3
  <2> QED
    BY <2>4 DEF SetSum
<1>16. PICK total : total = Exposed(task, level)
  OBVIOUS
<1>17. /\ IsFiniteSet(Together(Q, P)) /\ Cardinality(Together(Q, P)) \in Nat
       /\ total = Cardinality(Together(Q, P))
  <2>1. SetSum(total, Q, w)
    BY <1>15, <1>16
  <2> QED
    BY <1>7, <1>14, <2>1, SetSumIs
<1>18. Together(Q, P) = T
  <2>1. \A t : t \in Together(Q, P) <=> \E p \in Q : t \in P[p]
    BY DEF Together
  <2>2. ASSUME NEW p \in Q, NEW t \in P[p] PROVE t \in T
    <3>1. PICK seg \in segments : /\ t \in Month /\ ~InBreak(t, B) /\ p[1] = HourOf(t)
                                  /\ p \in PiecesOf(seg) /\ In(t, seg)
      BY <1>12
    <3>2. t \in Nat /\ t \in Int
      BY <1>0, <3>1
    <3>3. LevelAt(t, level)
      BY <1>8, <3>1, <3>2, LevelIs
    <3>4. Spent(task, t)
      BY <1>19, <1>1, <1>3, <3>1, <3>2 DEF Spent
    <3> QED
      BY <3>1, <3>3, <3>4
  <2>3. ASSUME NEW t \in T PROVE \E p \in Q : t \in P[p]
    <3>1. t \in Month /\ t \in Nat /\ t \in Int /\ Spent(task, t) /\ LevelAt(t, level)
      BY <1>0
    <3>2. PICK seg \in segments : In(t, seg)
      BY <1>1, <1>3, <3>1 DEF Spent
    <3>3. seg \in Pairs
      BY <1>3
    <3>4. PICK p \in PiecesOf(seg) : p[1] = HourOf(t)
      BY <3>1, <3>2, <3>3, PieceIs
    <3>5. hourLevel(p[1]) = level
      BY <3>1, <3>4, LevelIs
    <3>6. p \in UNION parts
      BY <1>5, <3>4
    <3>7. p \in Q
      BY <1>4, <1>6, <3>5, <3>6
    <3>8. t \in P[p]
      BY <1>19, <1>12, <3>1, <3>2, <3>4, <3>7 DEF Spent
    <3> QED
      BY <3>7, <3>8
  <2> QED
    BY <2>1, <2>2, <2>3
<1> QED
  BY <1>16, <1>17, <1>18

-----------------------------------------------------------------------------
(* The rows of the report *)

\* The greatest of finitely many numbers.
LEMMA MaxIs ==
    ASSUME NEW S, IsFiniteSet(S), S \subseteq Int, S # {}
    PROVE  Max(S) \in S /\ \A x \in S : x <= Max(S)
<1>1. PICK x \in S : \A y \in S : x >= y
  BY HasGreatest
<1>2. Max(S) \in S /\ \A y \in S : Max(S) >= y
  BY <1>1 DEF Max
<1>3. Max(S) \in Int /\ \A y \in S : y \in Int
  BY <1>2
<1> QED
  BY <1>2, <1>3

\* As many pairs with i as there are partners.
PairsOf(i, T) == {<<i, t>> : t \in T}

\* As many pairs as seconds.
LEMMA PairCount ==
    ASSUME NEW i, NEW T, IsFiniteSet(T)
    PROVE  IsFiniteSet(PairsOf(i, T)) /\ Cardinality(PairsOf(i, T)) = Cardinality(T)
<1>0. PICK A : A = PairsOf(i, T) /\ A = {<<i, t>> : t \in T}
  BY DEF PairsOf
<1>1. PICK f : f = [t \in T |-> <<i, t>>]
  OBVIOUS
<1>2. f \in [T -> A]
  BY <1>0, <1>1
<1>3. \A a \in A : \E t \in T : f[t] = a
  BY <1>0, <1>1
<1>4. /\ IsFiniteSet(A)
      /\ Cardinality(A) \in Nat /\ Cardinality(T) \in Nat
      /\ Cardinality(A) <= Cardinality(T)
  BY <1>2, <1>3, CountImage
<1>5. PICK g : g = [a \in A |-> a[2]]
  OBVIOUS
<1>6. \A a \in A : a[2] \in T
  BY <1>0
<1>7. g \in [A -> T]
  BY <1>5, <1>6
<1>8. \A t \in T : \E a \in A : g[a] = t
  <2>1. ASSUME NEW t \in T PROVE \E a \in A : g[a] = t
    <3>1. PICK a \in A : a = <<i, t>>
      BY <1>0
    <3> QED
      BY <1>5, <3>1
  <2> QED
    BY <2>1
<1>9. /\ IsFiniteSet(T)
      /\ Cardinality(T) \in Nat /\ Cardinality(A) \in Nat
      /\ Cardinality(T) <= Cardinality(A)
  BY <1>4, <1>7, <1>8, CountImage
<1> QED
  BY <1>0, <1>4, <1>9

\* What the properties say a worker spends is what the report's pieces are cut from.
LEMMA SpendsIs ==
    ASSUME ExposureInv, NEW task, NEW t \in Nat, NEW w
    PROVE  Spends(w, task, t) <=> w \in {task.by} \cup task.with /\ Spent(task, t)
<1>1. DayLength \in Nat /\ DayLength > 0 /\ KstOffset \in Nat
  BY WorkTimeAssumption
<1>2. PICK r \in Nat : r = (t + KstOffset) % DayLength
  BY <1>1
<1>3. InBreak(t, restsFor(task.by)) <=> \E b \in restsFor(task.by) : r \in b.from..(b.to - 1)
  <2>1. ASSUME NEW b \in restsFor(task.by)
        PROVE  (b.to <= DayLength /\ b.from <= r /\ r < b.to) <=> r \in b.from..(b.to - 1)
    <3>1. b.from \in Nat /\ b.to \in Nat /\ b.to <= DayLength
      BY RestsAre DEF Configs
    <3> QED
      BY <3>1
  <2> QED
    BY <1>2, <2>1 DEF InBreak
<1>4. (t >= task.start <=> task.start <= t)
      /\ (Paused(t, task) <=> \E p \in task.pauses : t >= p.from /\ (p.to = None \/ t < p.to))
  BY DEF Paused
<1> QED
  BY <1>2, <1>3, <1>4 DEF Spends, Spent

\* What the report counts for a worker at a level, from each of his items.
EachOf == [i \in DOMAIN tasks |-> [l \in Levels |-> Exposed(tasks[i], l)]]

SpentBy(w, l) ==
    MapThenSumSet(LAMBDA i : EachOf[i][l], {i \in DOMAIN tasks : w \in participants(tasks[i])})

HalvesOf(w, l) == {x \in (DOMAIN tasks) \X Month :
                     Spends(w, tasks[x[1]], x[2]) /\ LevelAt(x[2], l)}

OfLevel(task, l) == {t \in Month : Spent(task, t) /\ LevelAt(t, l)}

\* The minutes of a worker at a level are a count of pairs of an item and a half minute.
LEMMA SpentIs ==
    ASSUME ExposureInv, NEW w, role[w] # "MASTER", NEW l \in Levels
    PROVE  IsFiniteSet(HalvesOf(w, l)) /\ SpentBy(w, l) = Cardinality(HalvesOf(w, l))
<1>1. PICK S : S = {i \in DOMAIN tasks : w \in participants(tasks[i])}
  OBVIOUS
<1>2. \A i \in DOMAIN tasks : i \in S <=> w \in {tasks[i].by} \cup tasks[i].with
  BY <1>1 DEF participants
<1>3. IsFiniteSet(S) /\ S \subseteq DOMAIN tasks
  <2>1. PICK n \in Nat : DOMAIN tasks = 1..n
    BY DEF ExposureInv
  <2>2. IsFiniteSet(1..n)
    BY FS_Interval
  <2>3. S \subseteq 1..n
    BY <1>1, <2>1
  <2> QED
    BY <2>1, <2>2, <2>3, FS_Subset
<1>4. PICK P : P = [i \in S |-> {<<i, t>> : t \in OfLevel(tasks[i], l)}]
  OBVIOUS
<1>5. PICK v : v = [i \in S |-> Exposed(tasks[i], l)]
  OBVIOUS
<1>6. ASSUME NEW i \in S PROVE IsFiniteSet(P[i]) /\ v[i] = Cardinality(P[i])
  <2>1. PICK task : task = tasks[i] /\ Task(task)
    BY <1>3 DEF ExposureInv
  <2>2. PICK T : T = {t \in Month : Spent(task, t) /\ LevelAt(t, l)}
    OBVIOUS
  <2>3. IsFiniteSet(T) /\ Exposed(task, l) = Cardinality(T)
    BY <2>1, <2>2, ExposedIs
  <2>4. PICK A : A = PairsOf(i, T)
    OBVIOUS
  <2>5. IsFiniteSet(A) /\ Cardinality(A) = Cardinality(T)
    BY <2>3, <2>4, PairCount
  <2>6. P[i] = A
    BY <1>4, <2>1, <2>2, <2>4 DEF OfLevel, PairsOf
  <2> QED
    BY <1>5, <2>1, <2>3, <2>5, <2>6
<1>7. ASSUME NEW i \in S, NEW j \in S, i # j PROVE P[i] \cap P[j] = {}
  BY <1>4, <1>7
<1>8. Portions(S, P, v)
  BY <1>6, <1>7 DEF Portions
<1>9. PICK total : total = SpentBy(w, l)
  OBVIOUS
<1>10. SetSum(total, S, v)
  <2> DEFINE First(g) == [s \in SUBSET S |->
                            IF s = {} THEN 0 ELSE EachOf[Some(s)][l] + g[s \ {Some(s)}]]
             Second(g) == [s \in SUBSET S |-> IF s = {} THEN 0 ELSE v[Some(s)] + g[s \ {Some(s)}]]
  <2>1. SpentBy(w, l) =
          (CHOOSE g : g = [s \in SUBSET {i \in DOMAIN tasks : w \in participants(tasks[i])} |->
             IF s = {} THEN 0 ELSE EachOf[Some(s)][l] + g[s \ {Some(s)}]])
            [{i \in DOMAIN tasks : w \in participants(tasks[i])}]
    BY Zenon DEF SpentBy, MapThenSumSet, MapThenFoldSet, Some
  <2>2. total = (CHOOSE g : g = First(g))[S]
    BY <1>1, <1>9, <2>1
  <2>3. \A g : First(g) = Second(g)
    <3>1. \A i \in S : v[i] = EachOf[i][l]
      BY <1>3, <1>5 DEF EachOf
    <3>2. \A s \in SUBSET S : s # {} => Some(s) \in S
      BY DEF Some
    <3> QED
      BY <3>1, <3>2
  <2>4. total = (CHOOSE g : g = Second(g))[S]
    <3> HIDE DEF First, Second
    <3> QED
      BY <2>2, <2>3
  <2> QED
    BY <2>4 DEF SetSum
<1>11. /\ IsFiniteSet(Together(S, P)) /\ Cardinality(Together(S, P)) \in Nat
       /\ total = Cardinality(Together(S, P))
  BY <1>3, <1>8, <1>10, SetSumIs
<1>12. Together(S, P) = HalvesOf(w, l)
  <2>1. \A x : x \in Together(S, P) <=> \E i \in S : x \in P[i]
    BY DEF Together
  <2>2. ASSUME NEW i \in DOMAIN tasks, NEW t \in Month
        PROVE  Spends(w, tasks[i], t) <=> i \in S /\ Spent(tasks[i], t)
    <3>1. t \in Nat
      BY ExposureConstants
    <3> QED
      BY <1>2, <3>1, SpendsIs
  <2>3. ASSUME NEW i \in S, NEW x \in P[i] PROVE x \in HalvesOf(w, l)
    <3>1. PICK t \in Month : x = <<i, t>> /\ Spent(tasks[i], t) /\ LevelAt(t, l)
      BY <1>4 DEF OfLevel
    <3>2. i \in DOMAIN tasks /\ Spends(w, tasks[i], t)
      BY <1>3, <2>2, <3>1
    <3> QED
      BY <3>1, <3>2 DEF HalvesOf
  <2>4. ASSUME NEW x \in HalvesOf(w, l) PROVE \E i \in S : x \in P[i]
    <3>1. PICK i, t : x = <<i, t>> /\ i \in DOMAIN tasks /\ t \in Month
      BY DEF HalvesOf
    <3>2. x[1] = i /\ x[2] = t
      BY <3>1
    <3>3. Spends(w, tasks[i], t) /\ LevelAt(t, l)
      BY <3>2 DEF HalvesOf
    <3>4. i \in S /\ Spent(tasks[i], t)
      BY <2>2, <3>1, <3>3
    <3> QED
      BY <1>4, <3>1, <3>3, <3>4 DEF OfLevel
  <2> QED
    BY <2>1, <2>3, <2>4
<1> QED
  BY <1>9, <1>11, <1>12

\* A worker with time at a level has an item.
LEMMA OutIs ==
    /\ DOMAIN workersOut = ExposedWorkers \cup AlertedWorkers
    /\ \A w \in ExposedWorkers \cup AlertedWorkers :
         /\ workersOut[w].minutes = [l \in Levels |-> toMin(SpentBy(w, l))]
         /\ workersOut[w].total = toMin(MapThenSumSet(LAMBDA l : SpentBy(w, l), Levels))
         /\ workersOut[w].alerts = alerts[w]
<1>1. workersOut = [w \in ExposedWorkers \cup AlertedWorkers |->
            [minutes |-> [l \in Levels |-> toMin(SpentBy(w, l))],
             total |-> toMin(MapThenSumSet(LAMBDA l : SpentBy(w, l), Levels)),
             alerts |-> alerts[w]]]
  BY Zenon DEF workersOut, SpentBy, EachOf
<1> QED
  BY <1>1

\* Who has a row.
LEMMA RowsAre ==
    ASSUME ExposureInv, NEW w \in People
    PROVE  w \in DOMAIN workersOut
             <=> role[w] # "MASTER" /\ ((\E l \in Levels : HalvesOf(w, l) # {}) \/ alerts[w] > 0)
<1>1. ASSUME NEW i \in DOMAIN tasks, NEW l \in Levels
      PROVE  Exposed(tasks[i], l) > 0 <=> OfLevel(tasks[i], l) # {}
  <2>1. PICK task : task = tasks[i] /\ Task(task)
    BY DEF ExposureInv
  <2>2. PICK T : T = {t \in Month : Spent(task, t) /\ LevelAt(t, l)}
    OBVIOUS
  <2>3. IsFiniteSet(T) /\ Exposed(task, l) = Cardinality(T)
    BY <2>1, <2>2, ExposedIs
  <2>4. Cardinality(T) \in Nat /\ (Cardinality(T) = 0 <=> T = {})
    BY <2>3, FS_CardinalityType, FS_EmptySet
  <2> QED
    BY <2>1, <2>2, <2>3, <2>4 DEF OfLevel
<1>2. ASSUME NEW i \in DOMAIN tasks, NEW t \in Month
      PROVE  Spends(w, tasks[i], t) <=> w \in {tasks[i].by} \cup tasks[i].with /\ Spent(tasks[i], t)
  <2>1. t \in Nat
    BY ExposureConstants
  <2> QED
    BY <2>1, SpendsIs
<1>3. ASSUME NEW l \in Levels
      PROVE  HalvesOf(w, l) # {}
               <=> \E i \in DOMAIN tasks : /\ w \in {tasks[i].by} \cup tasks[i].with
                                           /\ OfLevel(tasks[i], l) # {}
  <2>1. HalvesOf(w, l) # {}
          <=> \E i \in DOMAIN tasks : \E t \in Month : Spends(w, tasks[i], t) /\ LevelAt(t, l)
    <3>1. ASSUME NEW x \in HalvesOf(w, l)
          PROVE  \E i \in DOMAIN tasks : \E t \in Month : Spends(w, tasks[i], t) /\ LevelAt(t, l)
      BY DEF HalvesOf
    <3>2. ASSUME NEW i \in DOMAIN tasks, NEW t \in Month, Spends(w, tasks[i], t), LevelAt(t, l)
          PROVE  HalvesOf(w, l) # {}
      <4>1. PICK x : x = <<i, t>>
        OBVIOUS
      <4>2. x \in (DOMAIN tasks) \X Month /\ x[1] = i /\ x[2] = t
        BY <4>1
      <4>3. x \in HalvesOf(w, l)
        BY <3>2, <4>2 DEF HalvesOf
      <4> QED
        BY <4>3
    <3> QED
      BY <3>1, <3>2
  <2> QED
    BY <1>2, <2>1 DEF OfLevel
<1>4. w \in ExposedWorkers
        <=> role[w] # "MASTER" /\ \E i \in DOMAIN tasks :
              /\ w \in {tasks[i].by} \cup tasks[i].with
              /\ \E l \in Levels : Exposed(tasks[i], l) > 0
  BY DEF ExposedWorkers, participants
<1> QED
  BY <1>1, <1>3, <1>4, OutIs DEF AlertedWorkers

\* With typed rows the rows of the report are what counting gives.
LEMMA ExposureCounts == ExposureInv => ExposureAgrees
<1> SUFFICES ASSUME ExposureInv PROVE ExposureAgrees
  OBVIOUS
<1>1. PICK out : out = workersOut
  OBVIOUS
<1>2. DOMAIN out = {w \in People : role[w] # "MASTER"
                      /\ ((\E l \in Levels : HalvesOf(w, l) # {}) \/ alerts[w] > 0)}
  <2>1. DOMAIN out \subseteq People
    BY <1>1, OutIs DEF ExposedWorkers, AlertedWorkers
  <2> QED
    BY <1>1, <2>1, RowsAre
<1>3. ASSUME NEW w \in DOMAIN out
      PROVE  /\ out[w].alerts = alerts[w]
             /\ \A l \in Levels : out[w].minutes[l] = toMin(Cardinality(HalvesOf(w, l)))
  <2>1. w \in ExposedWorkers \cup AlertedWorkers
    BY <1>1, OutIs
  <2>2. /\ out[w].alerts = alerts[w]
        /\ out[w].minutes = [l \in Levels |-> toMin(SpentBy(w, l))]
    BY <1>1, <2>1, OutIs
  <2>3. role[w] # "MASTER"
    BY <1>2
  <2>4. \A l \in Levels : SpentBy(w, l) = Cardinality(HalvesOf(w, l))
    BY <2>3, SpentIs
  <2> QED
    BY <2>2, <2>4
<1>4. ASSUME NEW r \in records PROVE dayLevel(kstDayStart(r.at)) >= hourLevel(r.at)
  <2>1. PICK hour : hour = {x.level : x \in {y \in records : y.at = r.at}}
    OBVIOUS
  <2>2. PICK day : day = {x.level : x \in {y \in records : kstDayStart(y.at) = kstDayStart(r.at)}}
    OBVIOUS
  <2>3. hour \subseteq day /\ r.level \in hour
    BY <2>1, <2>2
  <2>4. IsFiniteSet(day) /\ day \subseteq Int
    <3>1. \A x \in records : x.level \in Int
      BY ExposureConstants DEF ExposureInv, Ranks
    <3>2. PICK f : f = [x \in records |-> x.level]
      OBVIOUS
    <3>3. IsFiniteSet(records) /\ f \in [records -> Int]
      BY <3>1, <3>2 DEF ExposureInv
    <3>4. \A l \in day : \E x \in records : f[x] = l
      BY <2>2, <3>2
    <3>5. /\ IsFiniteSet(day)
          /\ Cardinality(day) \in Nat /\ Cardinality(records) \in Nat
          /\ Cardinality(day) <= Cardinality(records)
      BY <3>3, <3>4, CountImage
    <3> QED
      BY <2>2, <3>1, <3>5
  <2>5. IsFiniteSet(hour) /\ hour \subseteq Int
    BY <2>3, <2>4, FS_Subset
  <2>6. Max(hour) \in hour
    BY <2>3, <2>5, MaxIs
  <2>7. Max(day) \in day /\ \A x \in day : x <= Max(day)
    BY <2>3, <2>4, MaxIs
  <2>8. Max(hour) <= Max(day) /\ Max(hour) \in Int /\ Max(day) \in Int
    BY <2>3, <2>4, <2>6, <2>7
  <2>9. hourLevel(r.at) = Max(hour)
    BY <2>1, <2>3 DEF hourLevel
  <2>10. dayLevel(kstDayStart(r.at)) = Max(day)
    BY <2>2 DEF dayLevel
  <2> QED
    BY <2>8, <2>9, <2>10
<1> QED
  BY Zenon, <1>1, <1>2, <1>3, <1>4 DEF ExposureAgrees, HalvesOf, Month

\* Whatever the length of the hours, the month, the levels and the rows, the report credits
\* each worker with every half minute of every item he took part in, once and at its level.
THEOREM ExposureAlwaysAgrees == ExposureSpec => []ExposureAgrees
<1>1. ExposureInv => ExposureAgrees
  BY ExposureCounts
<1> QED
  BY <1>1, ExposureAlways, PTL

-----------------------------------------------------------------------------
(* The tables of the dashboard *)

\* The least of finitely many numbers.
LEMMA MinIs ==
    ASSUME NEW S, IsFiniteSet(S), S \subseteq Int, S # {}
    PROVE  Min(S) \in S /\ \A x \in S : Min(S) <= x
<1>1. PICK f : f = [x \in S |-> 0 - x]
  OBVIOUS
<1>2. \A x \in S : x \in Int /\ f[x] = 0 - x
  BY <1>1
<1>3. f \in [S -> Int]
  BY <1>1, <1>2
<1>4. PICK N : N = {f[x] : x \in S}
  OBVIOUS
<1>5. N \subseteq Int /\ N # {} /\ \A y \in N : \E x \in S : f[x] = y
  <2>1. \A y \in N : \E x \in S : f[x] = y
    BY <1>4
  <2>2. \A x \in S : f[x] \in N /\ f[x] \in Int
    BY <1>3, <1>4
  <2> QED
    BY <2>1, <2>2
<1>6. /\ IsFiniteSet(N)
      /\ Cardinality(N) \in Nat /\ Cardinality(S) \in Nat
      /\ Cardinality(N) <= Cardinality(S)
  BY <1>3, <1>5, CountImage
<1>7. PICK y \in N : \A z \in N : y >= z
  BY <1>5, <1>6, HasGreatest
<1>8. PICK x \in S : f[x] = y
  BY <1>5
<1>9. ASSUME NEW z \in S PROVE x <= z
  <2>1. f[z] \in N /\ f[z] = 0 - z /\ z \in Int
    BY <1>2, <1>4
  <2>2. y = 0 - x /\ x \in Int
    BY <1>2, <1>8
  <2>3. y >= f[z]
    BY <1>7, <2>1
  <2> QED
    BY <2>1, <2>2, <2>3
<1> QED
  BY <1>9 DEF Min

\* A sum is at most as many times its greatest part as it has parts.
AtMost(S, w, m) == \A k \in S : w[k] \in Nat /\ w[k] <= m

\* A sum is at most as many times the bound as there are summands.
LEMMA SumAtMost ==
    ASSUME NEW S, IsFiniteSet(S), NEW w, NEW m \in Nat, AtMost(S, w, m),
           NEW total, SetSum(total, S, w)
    PROVE  total \in Nat /\ Cardinality(S) \in Nat /\ total <= m * Cardinality(S)
<1>1. PICK P : P = [k \in S |-> PairsOf(k, 1..w[k])]
  OBVIOUS
<1>2. ASSUME NEW k \in S PROVE IsFiniteSet(P[k]) /\ w[k] = Cardinality(P[k])
  <2>1. PICK n \in Nat : n = w[k]
    BY DEF AtMost
  <2>2. IsFiniteSet(1..n) /\ Cardinality(1..n) = IF 1 > n THEN 0 ELSE n - 1 + 1
    BY FS_Interval
  <2>3. PICK T : T = 1..n /\ IsFiniteSet(T) /\ Cardinality(T) = n
    <3>1. (IF 1 > n THEN 0 ELSE n - 1 + 1) = n
      OBVIOUS
    <3> QED
      BY <2>2, <3>1
  <2>4. IsFiniteSet(PairsOf(k, T)) /\ Cardinality(PairsOf(k, T)) = Cardinality(T)
    BY <2>3, PairCount
  <2> QED
    BY <1>1, <2>1, <2>3, <2>4
<1>3. ASSUME NEW k \in S, NEW j \in S, k # j PROVE P[k] \cap P[j] = {}
  BY <1>1, <1>3 DEF PairsOf
<1>4. Portions(S, P, w)
  BY <1>2, <1>3 DEF Portions
<1>5. /\ IsFiniteSet(Together(S, P)) /\ Cardinality(Together(S, P)) \in Nat
      /\ total = Cardinality(Together(S, P))
  BY <1>4, SetSumIs
<1>6. PICK M : M = 1..m /\ IsFiniteSet(M) /\ Cardinality(M) = m
  <2>1. IsFiniteSet(1..m) /\ Cardinality(1..m) = IF 1 > m THEN 0 ELSE m - 1 + 1
    BY FS_Interval
  <2>2. (IF 1 > m THEN 0 ELSE m - 1 + 1) = m
    OBVIOUS
  <2> QED
    BY <2>1, <2>2
<1>7. IsFiniteSet(S \X M) /\ Cardinality(S \X M) = Cardinality(S) * Cardinality(M)
  BY <1>6, FS_Product
<1>8. Together(S, P) \subseteq S \X M
  <2>1. ASSUME NEW k \in S, NEW x \in P[k] PROVE x \in S \X M
    <3>1. PICK t \in 1..w[k] : x = <<k, t>>
      BY <1>1 DEF PairsOf
    <3>2. w[k] \in Nat /\ w[k] <= m
      BY DEF AtMost
    <3>3. t \in M
      BY <1>6, <3>1, <3>2
    <3> QED
      BY <3>1, <3>3
  <2> QED
    BY <2>1 DEF Together
<1>9. /\ Cardinality(Together(S, P)) \in Nat /\ Cardinality(S \X M) \in Nat
      /\ Cardinality(Together(S, P)) <= Cardinality(S \X M)
  BY <1>7, <1>8, CountPart
<1>10. PICK n \in Nat : n = Cardinality(S)
  BY FS_CardinalityType
<1>11. Cardinality(S \X M) = m * n
  <2>1. n * m = m * n
    OBVIOUS
  <2> QED
    BY <1>6, <1>7, <1>10, <2>1
<1> QED
  BY <1>5, <1>9, <1>10, <1>11

\* The half minute at t is spent on item i under these breaks, as the tables of
\* the dashboard see it.
WorkedOn(i, t, configs) ==
    /\ tasks[i].start <= t /\ t < endOf(tasks[i])
    /\ ~Paused(t, tasks[i]) /\ ~InBreak(t, configs)

\* What the invariant says of one item.
LEMMA TasksAre ==
    ASSUME ExposureInv, NEW i \in DOMAIN tasks
    PROVE  /\ Task(tasks[i]) /\ tasks[i].start \in Nat /\ tasks[i].start < MonthEnd
           /\ tasks[i].end = None \/ tasks[i].end \in Nat
           /\ Until(tasks[i].end) \in Int /\ endOf(tasks[i]) \in Int
<1>1. Task(tasks[i])
  BY DEF ExposureInv
<1>2. /\ tasks[i].start \in Nat /\ tasks[i].start < MonthEnd
      /\ tasks[i].end = None \/ tasks[i].end \in Nat
  BY <1>1 DEF Task, TaskType
<1>3. Now \in Int /\ DayLength \in Nat
  BY ExposureConstants, WorkTimeAssumption DEF Now
<1>4. Until(tasks[i].end) \in Int
  BY <1>2, <1>3 DEF Until
<1>5. endOf(tasks[i]) \in Int
  BY <1>2, <1>3 DEF endOf, Earliest
<1> QED
  BY <1>1, <1>2, <1>4, <1>5

\* Net minutes of several items: their half minutes, each once.
LEMMA NetOf ==
    ASSUME ExposureInv, NEW S, S \subseteq DOMAIN tasks, NEW configs, Configs(configs),
           NEW segments, segments = UNION {segmentsOf(tasks[i]) : i \in S},
           NEW T, \A t : t \in T <=> t \in Int /\ \E i \in S : WorkedOn(i, t, configs)
    PROVE  /\ IsFiniteSet(T)
           /\ netMinutesOfSegments(segments, configs) = (Cardinality(T) + 1) \div 2
<1>1. ASSUME NEW i \in S
      PROVE  /\ IsFiniteSet(segmentsOf(tasks[i])) /\ segmentsOf(tasks[i]) \subseteq Pairs
             /\ \A t \in Int : (\E q \in segmentsOf(tasks[i]) : In(t, q))
                                 <=> tasks[i].start <= t /\ t < endOf(tasks[i]) /\ ~Paused(t, tasks[i])
  <2>1. PICK task, end : task = tasks[i] /\ end = endOf(task) /\ Task(task) /\ end \in Int
    BY TasksAre
  <2>2. PICK v : v = [task EXCEPT !.end = end]
    OBVIOUS
  <2>3. PICK part : part = activeWorkSegments(v)
    OBVIOUS
  <2>4. /\ IsFiniteSet(part) /\ part \subseteq Pairs /\ Disjoint(part)
        /\ \A t \in Int : (\E q \in part : In(t, q))
                            <=> task.start <= t /\ t < end /\ ~Paused(t, task)
    BY <2>1, <2>2, <2>3, ActiveIs
  <2>5. part = segmentsOf(tasks[i])
    BY <2>1, <2>2, <2>3 DEF segmentsOf
  <2> QED
    BY <2>1, <2>4, <2>5
<1>2. PICK parts : parts = {segmentsOf(tasks[i]) : i \in S}
  OBVIOUS
<1>3. IsFiniteSet(segments) /\ segments \subseteq Pairs
  <2>1. PICK n \in Nat : DOMAIN tasks = 1..n
    BY DEF ExposureInv
  <2>2. IsFiniteSet(S)
    <3>1. IsFiniteSet(1..n)
      BY FS_Interval
    <3> QED
      BY <2>1, <3>1, FS_Subset
  <2>3. PICK f : f = [i \in S |-> segmentsOf(tasks[i])]
    OBVIOUS
  <2>4. f \in [S -> parts]
    BY <1>2, <2>3
  <2>5. \A part \in parts : \E i \in S : f[i] = part
    BY <1>2, <2>3
  <2>6. /\ IsFiniteSet(parts)
        /\ Cardinality(parts) \in Nat /\ Cardinality(S) \in Nat
        /\ Cardinality(parts) <= Cardinality(S)
    BY <2>2, <2>4, <2>5, CountImage
  <2>7. \A part \in parts : IsFiniteSet(part) /\ part \subseteq Pairs
    BY <1>1, <1>2
  <2>8. IsFiniteSet(UNION parts)
    BY <2>6, <2>7, FS_UNION
  <2>9. UNION parts \subseteq Pairs
    BY <2>7
  <2> QED
    BY <1>2, <2>8, <2>9
<1>4. ASSUME NEW t \in Int
      PROVE  (\E q \in segments : In(t, q))
               <=> \E i \in S : tasks[i].start <= t /\ t < endOf(tasks[i]) /\ ~Paused(t, tasks[i])
  <2>1. (\E q \in segments : In(t, q)) <=> \E i \in S : \E q \in segmentsOf(tasks[i]) : In(t, q)
    OBVIOUS
  <2> QED
    BY <1>1, <2>1
<1>5. \A t \in Int : (\E q \in segments : In(t, q)) => t \in Nat
  <2>1. ASSUME NEW t \in Int, \E q \in segments : In(t, q) PROVE t \in Nat
    <3>1. PICK i \in S : tasks[i].start <= t
      BY <1>4, <2>1
    <3>2. tasks[i].start \in Nat
      BY TasksAre
    <3> QED
      BY <3>1, <3>2
  <2> QED
    BY <2>1
<1>7. T = {t \in Int : (\E q \in segments : In(t, q)) /\ ~InBreak(t, configs)}
  BY <1>4 DEF WorkedOn
<1> HIDE DEF Pairs
<1> QED
  BY <1>3, <1>5, <1>7, NetIs

\* An item counts in the hours it lasts into, or stands still in, and in no other.
LoadsAgree ==
    \A w \in People, s \in slots :
        /\ (\E i \in DOMAIN tasks, t \in s..(s + HourLength - 1) :
              Spends(w, tasks[i], t) /\ t < endOf(tasks[i])) => w \in load(s)
        /\ w \in load(s) => \E i \in DOMAIN tasks :
              /\ w \in {tasks[i].by} \cup tasks[i].with
              /\ tasks[i].start \in s..(s + HourLength - 1)
                 \/ \E t \in s..(s + HourLength - 1) : t \in tasks[i].start..(endOf(tasks[i]) - 1)

\* With typed rows the hourly load is of the workers whose items last into the hour.
LEMMA Loads == ExposureInv => LoadsAgree
<1> SUFFICES ASSUME ExposureInv, NEW w \in People, NEW s \in slots
             PROVE  /\ (\E i \in DOMAIN tasks, t \in s..(s + HourLength - 1) :
                          Spends(w, tasks[i], t) /\ t < endOf(tasks[i])) => w \in load(s)
                    /\ w \in load(s) => \E i \in DOMAIN tasks :
                          /\ w \in {tasks[i].by} \cup tasks[i].with
                          /\ tasks[i].start \in s..(s + HourLength - 1)
                             \/ \E t \in s..(s + HourLength - 1) :
                                  t \in tasks[i].start..(endOf(tasks[i]) - 1)
  BY DEF LoadsAgree
<1>1. PICK h \in Nat : h = HourLength /\ h > 0
  BY ExposureConstants
<1>2. s \in Nat /\ s \in Int /\ MonthStart <= s /\ MonthStart \in Nat /\ MonthEnd \in Nat
  BY ExposureConstants DEF slots
<1>3. ASSUME NEW i \in DOMAIN tasks
      PROVE  \E start \in Nat, end \in Int : /\ start = tasks[i].start /\ end = endOf(tasks[i])
                                             /\ start < MonthEnd
  BY TasksAre
<1>4. w \in load(s) <=> \E i \in DOMAIN tasks : /\ w \in {tasks[i].by} \cup tasks[i].with
                                                /\ tasks[i].start < MonthEnd
                                                /\ endOf(tasks[i]) >= MonthStart
                                                /\ tasks[i].start < s + h /\ endOf(tasks[i]) > s
  BY <1>1 DEF load, Meets
<1>5. ASSUME NEW i \in DOMAIN tasks, NEW t \in s..(s + HourLength - 1),
             Spends(w, tasks[i], t), t < endOf(tasks[i])
      PROVE  w \in load(s)
  <2>1. PICK start \in Nat, end \in Int : /\ start = tasks[i].start /\ end = endOf(tasks[i])
                                          /\ start < MonthEnd
    BY <1>3
  <2>2. t \in Int /\ s <= t /\ t <= s + h - 1
    BY <1>1, <1>2
  <2>3. t >= start /\ t < end /\ w \in {tasks[i].by} \cup tasks[i].with
    BY <1>5, <2>1 DEF Spends
  <2>4. start < s + h /\ end > s /\ end >= MonthStart
    BY <1>1, <1>2, <2>2, <2>3
  <2> QED
    BY <1>4, <2>1, <2>3, <2>4
<1>6. ASSUME NEW i \in DOMAIN tasks, tasks[i].start < s + h, endOf(tasks[i]) > s
      PROVE  \/ tasks[i].start \in s..(s + HourLength - 1)
             \/ \E t \in s..(s + HourLength - 1) : t \in tasks[i].start..(endOf(tasks[i]) - 1)
  <2>1. PICK start \in Nat, end \in Int : start = tasks[i].start /\ end = endOf(tasks[i])
    BY <1>3
  <2>2. CASE s <= start
    <3>1. start \in s..(s + h - 1)
      BY <1>1, <1>2, <1>6, <2>1, <2>2
    <3> QED
      BY <1>1, <2>1, <3>1
  <2>3. CASE ~(s <= start)
    <3>1. s \in s..(s + h - 1) /\ s \in start..(end - 1)
      BY <1>1, <1>2, <1>6, <2>1, <2>3
    <3> QED
      BY <1>1, <2>1, <3>1
  <2> QED
    BY <2>2, <2>3
<1> QED
  BY <1>4, <1>5, <1>6

\* The half minutes of a worker, of any level.
AllHalves(w) == {x \in (DOMAIN tasks) \X Month : Spends(w, tasks[x[1]], x[2])}

\* The minutes of a ranked worker are a count of pairs of an item and a half minute.
LEMMA TotalIs ==
    ASSUME ExposureInv, NEW w \in People, role[w] # "MASTER"
    PROVE  /\ IsFiniteSet(AllHalves(w))
           /\ (IF w \in DOMAIN workersOut THEN workersOut[w].total ELSE 0)
                = (Cardinality(AllHalves(w)) + 1) \div 2
<1>1. PICK P : P = [l \in Levels |-> HalvesOf(w, l)]
  OBVIOUS
<1>2. PICK v : v = [l \in Levels |-> SpentBy(w, l)]
  OBVIOUS
<1>3. \A l \in Levels : IsFiniteSet(P[l]) /\ v[l] = Cardinality(P[l])
  BY <1>1, <1>2, SpentIs
<1>4. ASSUME NEW t \in Month
      PROVE  \E l \in Levels : LevelAt(t, l) /\ \A k \in Levels : LevelAt(t, k) => k = l
  <2>1. t \in Nat
    BY ExposureConstants
  <2> QED
    BY <2>1, LevelIs
<1>5. ASSUME NEW l \in Levels, NEW k \in Levels, l # k PROVE P[l] \cap P[k] = {}
  <2>1. ASSUME NEW x \in P[l], x \in P[k] PROVE FALSE
    <3>1. x[2] \in Month /\ LevelAt(x[2], l) /\ LevelAt(x[2], k)
      BY <1>1, <2>1 DEF HalvesOf
    <3> QED
      BY <1>4, <1>5, <3>1
  <2> QED
    BY <2>1
<1>6. Portions(Levels, P, v)
  BY <1>3, <1>5 DEF Portions
<1>7. IsFiniteSet(Levels)
  <2>1. IsFiniteSet(0..Danger)
    BY ExposureConstants, FS_Interval
  <2> QED
    BY <2>1, FS_AddElement DEF Levels, Ranks
<1>8. PICK sum : sum = MapThenSumSet(LAMBDA l : SpentBy(w, l), Levels)
  OBVIOUS
<1>9. SetSum(sum, Levels, v)
  <2> DEFINE First(g) == [s \in SUBSET Levels |->
                            IF s = {} THEN 0 ELSE SpentBy(w, Some(s)) + g[s \ {Some(s)}]]
             Second(g) == [s \in SUBSET Levels |-> IF s = {} THEN 0 ELSE v[Some(s)] + g[s \ {Some(s)}]]
  <2>1. MapThenSumSet(LAMBDA l : SpentBy(w, l), Levels) =
          (CHOOSE g : g = [s \in SUBSET Levels |->
             IF s = {} THEN 0 ELSE SpentBy(w, Some(s)) + g[s \ {Some(s)}]])[Levels]
    BY Zenon DEF MapThenSumSet, MapThenFoldSet, Some
  <2>2. sum = (CHOOSE g : g = First(g))[Levels]
    BY <1>8, <2>1
  <2>3. \A g : First(g) = Second(g)
    <3>1. \A s \in SUBSET Levels : s # {} => Some(s) \in Levels
      BY DEF Some
    <3>2. \A s \in SUBSET Levels : s # {} => v[Some(s)] = SpentBy(w, Some(s))
      BY <1>2, <3>1
    <3> QED
      BY <3>2
  <2>4. sum = (CHOOSE g : g = Second(g))[Levels]
    <3> HIDE DEF First, Second
    <3> QED
      BY <2>2, <2>3
  <2> QED
    BY <2>4 DEF SetSum
<1>10. /\ IsFiniteSet(Together(Levels, P)) /\ Cardinality(Together(Levels, P)) \in Nat
       /\ sum = Cardinality(Together(Levels, P))
  BY <1>6, <1>7, <1>9, SetSumIs
<1>11. Together(Levels, P) = AllHalves(w)
  <2>1. \A x : x \in Together(Levels, P) <=> \E l \in Levels : x \in P[l]
    BY DEF Together
  <2>2. ASSUME NEW x \in AllHalves(w) PROVE \E l \in Levels : x \in P[l]
    <3>1. x \in (DOMAIN tasks) \X Month /\ x[2] \in Month /\ Spends(w, tasks[x[1]], x[2])
      BY DEF AllHalves
    <3>2. PICK l \in Levels : LevelAt(x[2], l)
      BY <1>4, <3>1
    <3>3. x \in HalvesOf(w, l)
      BY <3>1, <3>2 DEF HalvesOf
    <3> QED
      BY <1>1, <3>3
  <2>3. ASSUME NEW l \in Levels, NEW x \in P[l] PROVE x \in AllHalves(w)
    BY <1>1 DEF HalvesOf, AllHalves
  <2> QED
    BY <2>1, <2>2, <2>3
<1>12. CASE w \in DOMAIN workersOut
  <2>1. w \in ExposedWorkers \cup AlertedWorkers
    BY <1>12, OutIs
  <2>2. workersOut[w].total = toMin(sum)
    BY <1>8, <2>1, OutIs
  <2> QED
    BY <1>10, <1>11, <1>12, <2>2 DEF toMin
<1>13. CASE w \notin DOMAIN workersOut
  <2>1. \A l \in Levels : HalvesOf(w, l) = {}
    BY <1>13, RowsAre
  <2>2. Together(Levels, P) = {}
    BY <1>1, <2>1 DEF Together
  <2>3. Cardinality(AllHalves(w)) = 0
    BY <1>11, <2>2, FS_EmptySet
  <2>4. (0 + 1) \div 2 = 0
    OBVIOUS
  <2> QED
    BY <1>10, <1>11, <1>13, <2>3, <2>4
<1> QED
  BY <1>12, <1>13

\* The half minutes of a worker's items.
MyTimes(w) == {t \in Int : \E i \in Mine(w) : WorkedOn(i, t, restsFor(w))}

MineWhole(w) == \A i \in DOMAIN tasks : w \in participants(tasks[i]) =>
                  tasks[i].end # None /\ i \in Started /\ tasks[i].end <= MonthEnd

MineAlike(w) == \A i \in DOMAIN tasks : w \in participants(tasks[i]) =>
                  restsFor(tasks[i].by) = restsFor(w)

MineApart(w) == \A i, j \in Mine(w) :
                  i # j => tasks[i].end <= tasks[j].start \/ tasks[j].end <= tasks[i].start

\* The net minutes of a worker are the half minutes of his items outside the breaks.
LEMMA NetIsMine ==
    ASSUME ExposureInv, NEW w
    PROVE  IsFiniteSet(MyTimes(w)) /\ netMinutes(w) = (Cardinality(MyTimes(w)) + 1) \div 2
<1>1. PICK S : S = Mine(w)
  OBVIOUS
<1>2. S \subseteq DOMAIN tasks
  BY <1>1 DEF Mine, Started
<1>3. PICK segments : segments = UNION {segmentsOf(tasks[i]) : i \in S}
  OBVIOUS
<1>0. PICK B : B = restsFor(w) /\ Configs(B)
  BY RestsAre
<1>4. PICK T : T = {t \in Int : \E i \in S : WorkedOn(i, t, B)}
  OBVIOUS
<1>8. \A t : t \in T <=> t \in Int /\ \E i \in S : WorkedOn(i, t, B)
  BY <1>4
<1>5. /\ IsFiniteSet(T)
      /\ netMinutesOfSegments(segments, B) = (Cardinality(T) + 1) \div 2
  BY <1>0, <1>2, <1>3, <1>8, NetOf
<1>6. T = MyTimes(w)
  BY <1>0, <1>1, <1>4 DEF MyTimes
<1>7. netMinutes(w) = netMinutesOfSegments(segments, B)
  BY <1>0, <1>1, <1>3 DEF netMinutes
<1> QED
  BY <1>5, <1>6, <1>7

\* The minutes of a worker and his exposure.
LEMMA WholeIs ==
    ASSUME ExposureInv, NEW w \in TimedWorkers, MineWhole(w), MineAlike(w),
           NEW total, total = IF w \in DOMAIN workersOut THEN workersOut[w].total ELSE 0
    PROVE  netMinutes(w) <= total /\ (MineApart(w) => netMinutes(w) = total)
<1>0. PICK B : B = restsFor(w)
  OBVIOUS
<1>1. w \in People /\ Mine(w) # {}
  BY DEF TimedWorkers
<1>2. role[w] # "MASTER"
  BY <1>1 DEF Mine, participants
<1>3. PICK A : A = AllHalves(w)
  OBVIOUS
<1>4. PICK U : U = MyTimes(w)
  OBVIOUS
<1>5. IsFiniteSet(A) /\ total = (Cardinality(A) + 1) \div 2
  BY <1>1, <1>2, <1>3, TotalIs
<1>6. IsFiniteSet(U) /\ netMinutes(w) = (Cardinality(U) + 1) \div 2
  BY <1>4, NetIsMine
<1>7. ASSUME NEW i \in DOMAIN tasks, NEW t \in Int
      PROVE  (t \in Month /\ Spends(w, tasks[i], t)) <=> (i \in Mine(w) /\ WorkedOn(i, t, B))
  <2>1. PICK start \in Nat, end \in Int : start = tasks[i].start /\ end = Until(tasks[i].end)
    BY TasksAre
  <2>2. w \in participants(tasks[i]) <=> w \in {tasks[i].by} \cup tasks[i].with
    BY <1>2 DEF participants
  <2>3. ASSUME w \in participants(tasks[i])
        PROVE  /\ i \in Mine(w) /\ endOf(tasks[i]) = end /\ end <= MonthEnd
               /\ MonthStart <= start
    <3>1. tasks[i].end # None /\ i \in Started /\ tasks[i].end <= MonthEnd
      BY <2>3 DEF MineWhole
    <3>2. start \in Month
      BY <2>1, <3>1 DEF Started, Month
    <3> QED
      BY <2>1, <2>3, <3>1, <3>2, ExposureConstants DEF Mine, endOf, Until
  <2>0. w \in participants(tasks[i]) => restsFor(tasks[i].by) = B
    BY <1>0 DEF MineAlike
  <2>4. i \in Mine(w) => w \in participants(tasks[i])
    BY DEF Mine
  <2>5. t \in Month => t \in Nat
    BY ExposureConstants
  <2>6. ASSUME t \in Month, Spends(w, tasks[i], t) PROVE i \in Mine(w) /\ WorkedOn(i, t, B)
    <3>1. w \in {tasks[i].by} \cup tasks[i].with /\ Spent(tasks[i], t)
      BY <2>5, <2>6, SpendsIs
    <3> QED
      BY <2>0, <2>1, <2>2, <2>3, <3>1 DEF Spent, WorkedOn
  <2>7. ASSUME i \in Mine(w), WorkedOn(i, t, B) PROVE t \in Month /\ Spends(w, tasks[i], t)
    <3>1. w \in participants(tasks[i])
      BY <2>4, <2>7
    <3>2. endOf(tasks[i]) = end /\ end <= MonthEnd /\ MonthStart <= start
      BY <2>3, <3>1
    <3>3. start <= t /\ t < end /\ Spent(tasks[i], t)
      BY <2>0, <2>1, <2>7, <3>1, <3>2 DEF Spent, WorkedOn
    <3>4. MonthStart \in Nat /\ MonthEnd \in Nat
      BY ExposureConstants
    <3>5. t \in Month
      BY <2>1, <3>2, <3>3, <3>4, ExposureConstants
    <3> QED
      BY <2>2, <2>5, <3>1, <3>3, <3>5, SpendsIs
  <2> QED
    BY <2>6, <2>7
<1>8. \A t \in U : \E i \in Mine(w) : WorkedOn(i, t, B) /\ t \in Int
  BY <1>0, <1>4 DEF MyTimes
<1>9. Mine(w) \subseteq DOMAIN tasks
  BY DEF Mine, Started
<1>10. ASSUME NEW x \in A
       PROVE  /\ x[1] \in DOMAIN tasks /\ x[1] \in Mine(w) /\ x[2] \in Int /\ x[2] \in Month
              /\ x[2] \in U /\ WorkedOn(x[1], x[2], B) /\ x = <<x[1], x[2]>>
  <2>1. PICK i, t : x = <<i, t>> /\ i \in DOMAIN tasks /\ t \in Month
    BY <1>3 DEF AllHalves
  <2>2. x[1] = i /\ x[2] = t
    BY <2>1
  <2>3. Spends(w, tasks[i], t)
    BY <1>3, <2>2 DEF AllHalves
  <2>4. t \in Int
    BY <2>1, ExposureConstants
  <2>5. i \in Mine(w) /\ WorkedOn(i, t, B)
    BY <1>7, <2>1, <2>3, <2>4
  <2>6. t \in U
    BY <1>0, <1>4, <2>4, <2>5 DEF MyTimes
  <2> QED
    BY <2>1, <2>2, <2>4, <2>5, <2>6
<1>11. ASSUME NEW t \in U PROVE \E x \in A : x[2] = t
  <2>1. PICK i \in Mine(w) : WorkedOn(i, t, B) /\ t \in Int
    BY <1>8
  <2>2. i \in DOMAIN tasks
    BY <1>9
  <2>3. t \in Month /\ Spends(w, tasks[i], t)
    BY <1>7, <2>1, <2>2
  <2>4. PICK x : x = <<i, t>>
    OBVIOUS
  <2>5. x \in (DOMAIN tasks) \X Month /\ x[1] = i /\ x[2] = t
    BY <2>2, <2>3, <2>4
  <2>6. x \in A
    BY <1>3, <2>3, <2>5 DEF AllHalves
  <2> QED
    BY <2>5, <2>6
<1>12. /\ Cardinality(U) \in Nat /\ Cardinality(A) \in Nat
       /\ Cardinality(U) <= Cardinality(A)
  <2>1. PICK f : f = [x \in A |-> x[2]]
    OBVIOUS
  <2>2. f \in [A -> U]
    BY <1>10, <2>1
  <2>3. \A t \in U : \E x \in A : f[x] = t
    BY <1>11, <2>1
  <2>4. /\ IsFiniteSet(U)
        /\ Cardinality(U) \in Nat /\ Cardinality(A) \in Nat
        /\ Cardinality(U) <= Cardinality(A)
    BY <1>5, <2>2, <2>3, CountImage
  <2> QED
    BY <2>4
<1>13. ASSUME MineApart(w) PROVE Cardinality(A) <= Cardinality(U)
  <2>1. ASSUME NEW x \in A, NEW y \in A, x[2] = y[2] PROVE x = y
    <3>1. PICK i, j, t : i = x[1] /\ j = y[1] /\ t = x[2] /\ x = <<i, t>> /\ y = <<j, t>>
      BY <1>10, <2>1
    <3>2. i \in Mine(w) /\ j \in Mine(w) /\ WorkedOn(i, t, B) /\ WorkedOn(j, t, B) /\ t \in Int
      BY <1>10, <2>1, <3>1
    <3>3. ASSUME i # j PROVE FALSE
      <4>1. tasks[i].end <= tasks[j].start \/ tasks[j].end <= tasks[i].start
        BY <1>13, <3>2, <3>3 DEF MineApart
      <4>2. \A k \in Mine(w) : tasks[k].end # None /\ endOf(tasks[k]) = tasks[k].end
        BY <1>9 DEF MineWhole, Mine, endOf
      <4>3. /\ tasks[i].start <= t /\ t < endOf(tasks[i])
            /\ tasks[j].start <= t /\ t < endOf(tasks[j])
        BY <3>2 DEF WorkedOn
      <4>4. /\ tasks[i].start \in Int /\ endOf(tasks[i]) \in Int
            /\ tasks[j].start \in Int /\ endOf(tasks[j]) \in Int
        BY <1>9, <3>2, TasksAre
      <4> QED
        BY <3>2, <4>1, <4>2, <4>3, <4>4
    <3> QED
      BY <3>1, <3>3
  <2>2. PICK g : g = [t \in U |-> CHOOSE x \in A : x[2] = t]
    OBVIOUS
  <2>3. \A t \in U : g[t] \in A /\ g[t][2] = t
    BY <1>11, <2>2
  <2>4. g \in [U -> A]
    BY <2>2, <2>3
  <2>5. \A x \in A : \E t \in U : g[t] = x
    <3>1. ASSUME NEW x \in A PROVE \E t \in U : g[t] = x
      <4>1. PICK t : t = x[2] /\ t \in U
        BY <1>10
      <4>2. g[t] = x
        BY <2>1, <2>3, <4>1
      <4> QED
        BY <4>1, <4>2
    <3> QED
      BY <3>1
  <2>6. /\ IsFiniteSet(A)
        /\ Cardinality(A) \in Nat /\ Cardinality(U) \in Nat
        /\ Cardinality(A) <= Cardinality(U)
    BY <1>6, <2>4, <2>5, CountImage
  <2> QED
    BY <2>6
<1>14. PICK a, b : a = Cardinality(A) /\ b = Cardinality(U) /\ a \in Nat /\ b \in Nat /\ b <= a
  BY <1>12
<1>15. (b + 1) \div 2 <= (a + 1) \div 2
  BY <1>14
<1>16. MineApart(w) => a = b
  BY <1>13, <1>14
<1> QED
  BY <1>5, <1>6, <1>14, <1>15, <1>16

\* What a worker spent on an item, by his own breaks.
AtWorkOn(w, i) == {t \in tasks[i].start..(endOf(tasks[i]) - 1) :
                     /\ \A p \in tasks[i].pauses : ~(t >= p.from /\ (p.to = None \/ t < p.to))
                     /\ \A r \in restsFor(w) :
                          ~((t + KstOffset) % DayLength \in r.from..(r.to - 1))}

\* The net minutes of a worker are counted from the rows themselves.
LEMMA NetIsCounted ==
    ASSUME ExposureInv, NEW w
    PROVE  netMinutes(w) = toMin(Cardinality(UNION {AtWorkOn(w, i) : i \in Mine(w)}))
<1>1. PICK B : B = restsFor(w) /\ Configs(B) /\ \A r \in B : r.to <= DayLength
  BY RestsAre
<1>2. PICK U : U = UNION {AtWorkOn(w, i) : i \in Mine(w)}
  OBVIOUS
<1>3. Mine(w) \subseteq DOMAIN tasks
  BY DEF Mine, Started
<1>4. DayLength \in Nat /\ DayLength > 0 /\ KstOffset \in Nat
  BY WorkTimeAssumption
<1>5. ASSUME NEW t \in Nat
      PROVE  InBreak(t, B) <=> \E b \in B : (t + KstOffset) % DayLength \in b.from..(b.to - 1)
  <2>1. PICK r \in Nat : r = (t + KstOffset) % DayLength
    BY <1>4
  <2>2. ASSUME NEW b \in B
        PROVE  (b.to <= DayLength /\ b.from <= r /\ r < b.to) <=> r \in b.from..(b.to - 1)
    <3>1. b.from \in Nat /\ b.to \in Nat /\ b.to <= DayLength
      BY <1>1 DEF Configs
    <3> QED
      BY <3>1
  <2> QED
    BY <2>1, <2>2 DEF InBreak
<1>6. ASSUME NEW i \in Mine(w), NEW t
      PROVE  t \in AtWorkOn(w, i) <=> t \in Int /\ WorkedOn(i, t, B)
  <2>1. PICK start \in Nat, end \in Int : start = tasks[i].start /\ end = endOf(tasks[i])
    BY <1>3, TasksAre
  <2>2. t \in start..(end - 1) <=> t \in Int /\ start <= t /\ t < end
    BY <2>1
  <2>3. t \in start..(end - 1) => t \in Nat
    BY <2>1
  <2>4. (\A p \in tasks[i].pauses : ~(t >= p.from /\ (p.to = None \/ t < p.to)))
          <=> ~Paused(t, tasks[i])
    BY DEF Paused
  <2> QED
    BY <1>1, <1>5, <2>1, <2>2, <2>3, <2>4 DEF AtWorkOn, WorkedOn
<1>7. U = MyTimes(w)
  <2>1. \A t : t \in U <=> \E i \in Mine(w) : t \in AtWorkOn(w, i)
    BY <1>2
  <2>2. \A t : t \in MyTimes(w) <=> t \in Int /\ \E i \in Mine(w) : WorkedOn(i, t, B)
    BY <1>1 DEF MyTimes
  <2> QED
    BY <1>6, <2>1, <2>2
<1> QED
  BY <1>2, <1>7, NetIsMine DEF toMin

\* The mean of a set of items of a worker is at most his time.
LEMMA AverageIs ==
    ASSUME ExposureInv, NEW w, NEW items, items \subseteq Mine(w), items # {},
           \A i \in items : restsFor(tasks[i].by) = restsFor(w)
    PROVE  Average(items) <= netMinutes(w)
<1>0. PICK B : B = restsFor(w) /\ Configs(B)
  BY RestsAre
<1>1. items \subseteq DOMAIN tasks /\ IsFiniteSet(items)
  <2>1. items \subseteq DOMAIN tasks
    BY DEF Mine, Started
  <2>2. PICK n \in Nat : DOMAIN tasks = 1..n
    BY DEF ExposureInv
  <2>3. IsFiniteSet(1..n)
    BY FS_Interval
  <2> QED
    BY <2>1, <2>2, <2>3, FS_Subset
<1>2. PICK U : U = MyTimes(w) /\ IsFiniteSet(U) /\ netMinutes(w) = (Cardinality(U) + 1) \div 2
  BY NetIsMine
<1>3. PICK c \in Nat : c = Cardinality(U)
  BY <1>2, FS_CardinalityType
<1>4. PICK m \in Nat : m = netMinutes(w) /\ m = (c + 1) \div 2
  BY <1>2, <1>3
<1>5. ASSUME NEW i \in items PROVE itemMinutes(i) \in Nat /\ itemMinutes(i) <= m
  <2>1. PICK S : S = {i}
    OBVIOUS
  <2>2. PICK segments : segments = UNION {segmentsOf(tasks[j]) : j \in S}
    OBVIOUS
  <2>3. PICK T : T = {t \in Int : \E j \in S : WorkedOn(j, t, B)}
    OBVIOUS
  <2>10. \A t : t \in T <=> t \in Int /\ \E j \in S : WorkedOn(j, t, B)
    BY <2>3
  <2>4. S \subseteq DOMAIN tasks
    BY <1>1, <2>1
  <2>5. /\ IsFiniteSet(T)
        /\ netMinutesOfSegments(segments, B) = (Cardinality(T) + 1) \div 2
    BY <1>0, <2>2, <2>4, <2>10, NetOf
  <2>6. segments = segmentsOf(tasks[i])
    BY <2>1, <2>2
  <2>7. T \subseteq U
    BY <1>0, <1>2, <2>1, <2>3 DEF MyTimes
  <2>8. PICK d \in Nat : d = Cardinality(T) /\ d <= c
    BY <1>2, <1>3, <2>7, CountPart
  <2>9. itemMinutes(i) = (d + 1) \div 2
    BY <1>0, <2>5, <2>6, <2>8 DEF itemMinutes
  <2> QED
    BY <1>4, <2>8, <2>9
<1>6. PICK v : v = [i \in items |-> itemMinutes(i)]
  OBVIOUS
<1>7. AtMost(items, v, m)
  BY <1>5, <1>6 DEF AtMost
<1>8. PICK sum : sum = MapThenSumSet(itemMinutes, items)
  OBVIOUS
<1>9. SetSum(sum, items, v)
  <2> DEFINE First(g) == [s \in SUBSET items |->
                            IF s = {} THEN 0 ELSE itemMinutes(Some(s)) + g[s \ {Some(s)}]]
             Second(g) == [s \in SUBSET items |-> IF s = {} THEN 0 ELSE v[Some(s)] + g[s \ {Some(s)}]]
  <2>1. MapThenSumSet(itemMinutes, items) =
          (CHOOSE g : g = [s \in SUBSET items |->
             IF s = {} THEN 0 ELSE itemMinutes(Some(s)) + g[s \ {Some(s)}]])[items]
    BY Zenon DEF MapThenSumSet, MapThenFoldSet, Some
  <2>2. sum = (CHOOSE g : g = First(g))[items]
    BY <1>8, <2>1
  <2>3. \A g : First(g) = Second(g)
    <3>1. \A s \in SUBSET items : s # {} => Some(s) \in items
      BY DEF Some
    <3>2. \A s \in SUBSET items : s # {} => v[Some(s)] = itemMinutes(Some(s))
      BY <1>6, <3>1
    <3> QED
      BY <3>2
  <2>4. sum = (CHOOSE g : g = Second(g))[items]
    <3> HIDE DEF First, Second
    <3> QED
      BY <2>2, <2>3
  <2> QED
    BY <2>4 DEF SetSum
<1>10. sum \in Nat /\ Cardinality(items) \in Nat /\ sum <= m * Cardinality(items)
  BY <1>1, <1>7, <1>9, SumAtMost
<1>11. PICK n \in Nat : n = Cardinality(items) /\ n > 0
  <2>1. Cardinality(items) # 0
    BY <1>1, FS_EmptySet
  <2> QED
    BY <1>10, <2>1
<1>12. PICK d \in Nat, x \in Nat : d = 2 * n /\ d > 0 /\ x = 2 * sum + n
  BY <1>10, <1>11
<1>13. PICK q \in Nat, r \in Nat : q = x \div d /\ x = d * q + r
  <2>1. (x % d) \in Nat
    BY <1>12
  <2>2. x = d * (x \div d) + (x % d)
    BY <1>12
  <2>3. (x \div d) \in Nat
    BY <1>12
  <2> QED
    BY <2>1, <2>2, <2>3
<1>14. Average(items) = q
  BY <1>8, <1>11, <1>12, <1>13 DEF Average
<1>15. x < d * (m + 1)
  <2>1. PICK y \in Nat : y = m * n /\ sum <= y
    BY <1>10, <1>11
  <2>2. d * (m + 1) = 2 * y + 2 * n
    <3>1. d * (m + 1) = d * m + d
      BY <1>12
    <3>2. d * m = 2 * y
      BY <1>12, <2>1
    <3> QED
      BY <1>12, <3>1, <3>2
  <2> QED
    BY <1>10, <1>11, <1>12, <2>1, <2>2
<1>16. ASSUME ~(q <= m) PROVE FALSE
  <2>1. m + 1 <= q
    BY <1>16
  <2>2. d * (m + 1) <= d * q
    BY <1>12, <2>1
  <2>3. d * (m + 1) \in Nat /\ d * q \in Nat
    BY <1>12
  <2> QED
    BY <1>12, <1>13, <1>15, <2>2, <2>3
<1> QED
  BY <1>4, <1>14, <1>16

\* What the invariant says of an item the dashboard reads.
LEMMA StartedAre ==
    ASSUME ExposureInv, NEW i \in Started
    PROVE  /\ i \in DOMAIN tasks /\ tasks[i].start \in 0..MonthEnd /\ tasks[i].start \in Nat
           /\ endOf(tasks[i]) \in Int
<1>1. i \in DOMAIN tasks /\ tasks[i].start \in Month
  BY DEF Started, Month
<1>2. tasks[i].start \in Nat /\ tasks[i].start < MonthEnd
  BY <1>1, ExposureConstants
<1>3. MonthEnd \in Nat
  BY ExposureConstants
<1> QED
  BY <1>1, <1>2, <1>3, TasksAre

\* The days of the tables that the property looks at.
TableDays == {kstDayStart(t) : t \in 0..MonthEnd} \cup {trendDay(t) : t \in 0..MonthEnd}

\* The days of a worker are those of the pivot with an item of his; none ends before it begins.
DaysAgree ==
    \A w \in TimedWorkers :
        /\ workDays(w) = {d \in TableDays : pivotOf(d) \cap Mine(w) # {}}
        /\ \A d \in workDays(w) : daySpan(w, d)[1] <= daySpan(w, d)[2]

\* With typed rows the day tables agree with the items.
LEMMA DayCounts == ExposureInv => DaysAgree
<1> SUFFICES ASSUME ExposureInv, NEW w \in TimedWorkers
             PROVE  /\ workDays(w) = {d \in TableDays : pivotOf(d) \cap Mine(w) # {}}
                    /\ \A d \in workDays(w) : daySpan(w, d)[1] <= daySpan(w, d)[2]
  BY DEF DaysAgree
<1>1. Mine(w) \subseteq Started
  BY DEF Mine
<1>2. ASSUME NEW i \in Mine(w)
      PROVE  /\ kstDayStart(tasks[i].start) \in TableDays
             /\ i \in pivotOf(kstDayStart(tasks[i].start))
  <2>1. tasks[i].start \in 0..MonthEnd
    BY <1>1, StartedAre
  <2> QED
    BY <1>1, <2>1 DEF TableDays, pivotOf
<1>3. workDays(w) = {d \in TableDays : pivotOf(d) \cap Mine(w) # {}}
  <2>1. \A d \in TableDays : \A i \in pivotOf(d) \cap Mine(w) : kstDayStart(tasks[i].start) = d
    BY DEF pivotOf
  <2> QED
    BY <1>2, <2>1 DEF workDays
<1>4. ASSUME NEW d \in workDays(w) PROVE daySpan(w, d)[1] <= daySpan(w, d)[2]
  <2>1. PICK here : here = {i \in Mine(w) : kstDayStart(tasks[i].start) = d}
    OBVIOUS
  <2>2. PICK j \in here : TRUE
    BY <2>1 DEF workDays
  <2>3. IsFiniteSet(here) /\ here \subseteq Started
    <3>1. PICK n \in Nat : DOMAIN tasks = 1..n
      BY DEF ExposureInv
    <3>2. here \subseteq Started /\ here \subseteq 1..n
      BY <1>1, <2>1, <3>1 DEF Started
    <3>3. IsFiniteSet(1..n)
      BY FS_Interval
    <3> QED
      BY <3>2, <3>3, FS_Subset
  <2>4. PICK A : A = {tasks[i].start : i \in here}
    OBVIOUS
  <2>5. PICK B : B = {Latest(tasks[i].start, endOf(tasks[i])) : i \in here}
    OBVIOUS
  <2>6. \A i \in here : /\ tasks[i].start \in Int
                        /\ Latest(tasks[i].start, endOf(tasks[i])) \in Int
                        /\ tasks[i].start <= Latest(tasks[i].start, endOf(tasks[i]))
    <3>1. \A i \in here : tasks[i].start \in Int /\ endOf(tasks[i]) \in Int
      BY <2>3, StartedAre
    <3> QED
      BY <3>1 DEF Latest
  <2>7. IsFiniteSet(A) /\ A \subseteq Int /\ A # {}
    <3>1. PICK f : f = [i \in here |-> tasks[i].start]
      OBVIOUS
    <3>2. f \in [here -> Int]
      BY <2>6, <3>1
    <3>3. \A a \in A : \E i \in here : f[i] = a
      BY <2>4, <3>1
    <3>4. /\ IsFiniteSet(A)
          /\ Cardinality(A) \in Nat /\ Cardinality(here) \in Nat
          /\ Cardinality(A) <= Cardinality(here)
      BY <2>3, <3>2, <3>3, CountImage
    <3> QED
      BY <2>2, <2>4, <2>6, <3>4
  <2>8. IsFiniteSet(B) /\ B \subseteq Int /\ B # {}
    <3>1. PICK f : f = [i \in here |-> Latest(tasks[i].start, endOf(tasks[i]))]
      OBVIOUS
    <3>2. f \in [here -> Int]
      BY <2>6, <3>1
    <3>3. \A a \in B : \E i \in here : f[i] = a
      BY <2>5, <3>1
    <3>4. /\ IsFiniteSet(B)
          /\ Cardinality(B) \in Nat /\ Cardinality(here) \in Nat
          /\ Cardinality(B) <= Cardinality(here)
      BY <2>3, <3>2, <3>3, CountImage
    <3> QED
      BY <2>2, <2>5, <2>6, <3>4
  <2>9. PICK a \in Int, b \in Int : a = tasks[j].start /\ b = Latest(tasks[j].start, endOf(tasks[j])) /\ a <= b
    BY <2>2, <2>6
  <2>10. a \in A /\ b \in B
    BY <2>2, <2>4, <2>5, <2>9
  <2>11. Min(A) <= a /\ Min(A) \in Int
    BY <2>7, <2>10, MinIs
  <2>12. b <= Max(B) /\ Max(B) \in Int
    BY <2>8, <2>10, MaxIs
  <2>13. daySpan(w, d) = <<Min(A), Max(B)>>
    BY <2>1, <2>4, <2>5 DEF daySpan
  <2> QED
    BY <2>9, <2>11, <2>12, <2>13
<1> QED
  BY <1>3, <1>4

\* The pivot and the trend have each item on one day, the trend on no later one.
SpreadAgrees ==
    \A i \in Started :
        /\ Cardinality({d \in TableDays : i \in pivotOf(d)}) = 1
        /\ Cardinality({d \in TableDays : i \in trendOf(d)}) = 1
        /\ trendDay(tasks[i].start) <= kstDayStart(tasks[i].start)

\* With typed rows the hours a span is spread over agree with the span.
LEMMA SpreadCounts == ExposureInv => SpreadAgrees
<1> SUFFICES ASSUME ExposureInv, NEW i \in Started
             PROVE  /\ Cardinality({d \in TableDays : i \in pivotOf(d)}) = 1
                    /\ Cardinality({d \in TableDays : i \in trendOf(d)}) = 1
                    /\ trendDay(tasks[i].start) <= kstDayStart(tasks[i].start)
  BY DEF SpreadAgrees
<1>1. PICK t \in Nat : t = tasks[i].start /\ t \in 0..MonthEnd
  BY StartedAre
<1>2. Cardinality({d \in TableDays : i \in pivotOf(d)}) = 1
  <2>1. PICK x : x = kstDayStart(t)
    OBVIOUS
  <2>2. x \in TableDays /\ \A d : i \in pivotOf(d) <=> d = x
    BY <1>1, <2>1 DEF TableDays, pivotOf
  <2>3. {d \in TableDays : i \in pivotOf(d)} = {x}
    BY <2>2
  <2> QED
    BY <2>3, FS_Singleton
<1>3. Cardinality({d \in TableDays : i \in trendOf(d)}) = 1
  <2>1. PICK x : x = trendDay(t)
    OBVIOUS
  <2>2. x \in TableDays /\ \A d : i \in trendOf(d) <=> d = x
    BY <1>1, <2>1 DEF TableDays, trendOf
  <2>3. {d \in TableDays : i \in trendOf(d)} = {x}
    BY <2>2
  <2> QED
    BY <2>3, FS_Singleton
<1>4. trendDay(t) <= kstDayStart(t)
  <2>1. PICK h \in Nat, k \in Nat : h = DayLength /\ k = KstOffset /\ h > 0
    BY WorkTimeAssumption
  <2>2. PICK x \in Int, y \in Int : x = (t - 2 * k) + k /\ y = t + k /\ x <= y
    BY <2>1
  <2>3. PICK p \in Int, r \in Nat : p = x \div h /\ x = h * p + r /\ r < h
    <3>1. (x % h) \in Nat /\ (x % h) < h
      BY <2>1
    <3>2. x = h * (x \div h) + (x % h)
      BY <2>1
    <3>3. (x \div h) \in Int
      BY <2>1
    <3> QED
      BY <3>1, <3>2, <3>3
  <2>4. PICK q \in Int, u \in Nat : q = y \div h /\ y = h * q + u /\ u < h
    <3>1. (y % h) \in Nat /\ (y % h) < h
      BY <2>1
    <3>2. y = h * (y \div h) + (y % h)
      BY <2>1
    <3>3. (y \div h) \in Int
      BY <2>1
    <3> QED
      BY <3>1, <3>2, <3>3
  <2>5. ASSUME ~(p <= q) PROVE FALSE
    <3>1. q + 1 <= p
      BY <2>5
    <3>2. h * (q + 1) <= h * p
      BY <2>1, <3>1
    <3>3. h * (q + 1) = h * q + h
      BY <2>1
    <3>4. h * q \in Int /\ h * p \in Int
      BY <2>1
    <3> QED
      BY <2>1, <2>2, <2>3, <2>4, <3>2, <3>3, <3>4
  <2>6. p * h <= q * h
    BY <2>1, <2>5
  <2>7. p * h \in Int /\ q * h \in Int
    BY <2>1
  <2>8. trendDay(t) = p * h - k /\ kstDayStart(t) = q * h - k
    BY <2>1, <2>2, <2>3, <2>4 DEF trendDay, kstDayStart
  <2> QED
    BY <2>1, <2>6, <2>7, <2>8
<1> QED
  BY <1>1, <1>2, <1>3, <1>4

\* The counts of all starters are those of the summary.
SummaryAgrees ==
    /\ summary.totalWorkers = Cardinality(DOMAIN workerStats)
    /\ summary.totalCount = MapThenSumSet(LAMBDA w : workerStats[w].count, DOMAIN workerStats)

\* What the invariant says of an item that has ended.
LEMMA EndedAre ==
    ASSUME ExposureInv
    PROVE  /\ IsFiniteSet(Ended) /\ Ended \subseteq DOMAIN tasks /\ Ended \subseteq Started
           /\ \A i \in Ended : tasks[i].by \in People /\ tasks[i].with \subseteq People
<1>1. Ended \subseteq DOMAIN tasks /\ Ended \subseteq Started
  BY DEF Ended, Started
<1>2. PICK n \in Nat : DOMAIN tasks = 1..n
  BY DEF ExposureInv
<1>3. IsFiniteSet(1..n)
  BY FS_Interval
<1>4. IsFiniteSet(Ended)
  BY <1>1, <1>2, <1>3, FS_Subset
<1>5. \A i \in Ended : tasks[i].by \in People /\ tasks[i].with \subseteq People
  BY <1>1 DEF ExposureInv, Task, TaskType
<1> QED
  BY <1>1, <1>4, <1>5

\* With typed rows the summary agrees with the items.
LEMMA SummaryCounts == ExposureInv => SummaryAgrees
<1> SUFFICES ASSUME ExposureInv PROVE SummaryAgrees
  OBVIOUS
<1>1. PICK S : S = DOMAIN workerStats
  OBVIOUS
<1>2. /\ S = {v \in People : startedBy(v) # {}}
      /\ \A w \in S : workerStats[w].count = Cardinality(startedBy(w))
  BY <1>1 DEF workerStats
<1>3. S = {tasks[i].by : i \in Ended}
  BY <1>2, EndedAre DEF startedBy
<1>4. IsFiniteSet(S)
  <2>1. PICK f : f = [i \in Ended |-> tasks[i].by]
    OBVIOUS
  <2>2. IsFiniteSet(Ended) /\ f \in [Ended -> People]
    BY <2>1, EndedAre
  <2>3. \A w \in S : \E i \in Ended : f[i] = w
    BY <1>3, <2>1
  <2>4. /\ IsFiniteSet(S)
        /\ Cardinality(S) \in Nat /\ Cardinality(Ended) \in Nat
        /\ Cardinality(S) <= Cardinality(Ended)
    BY <2>2, <2>3, CountImage
  <2> QED
    BY <2>4
<1>5. PICK P : P = [w \in S |-> startedBy(w)]
  OBVIOUS
<1>6. PICK v : v = [w \in S |-> workerStats[w].count]
  OBVIOUS
<1>7. \A w \in S : IsFiniteSet(P[w]) /\ v[w] = Cardinality(P[w])
  <2>1. \A w : startedBy(w) \subseteq Ended
    BY DEF startedBy
  <2>2. \A w : IsFiniteSet(startedBy(w))
    BY <2>1, EndedAre, FS_Subset
  <2> QED
    BY <1>2, <1>5, <1>6, <2>2
<1>8. ASSUME NEW w \in S, NEW u \in S, w # u PROVE P[w] \cap P[u] = {}
  BY <1>5, <1>8 DEF startedBy
<1>9. Portions(S, P, v)
  BY <1>7, <1>8 DEF Portions
<1>10. PICK sum : sum = MapThenSumSet(LAMBDA w : workerStats[w].count, DOMAIN workerStats)
  OBVIOUS
<1>11. SetSum(sum, S, v)
  <2> DEFINE First(g) == [s \in SUBSET S |->
                            IF s = {} THEN 0 ELSE workerStats[Some(s)].count + g[s \ {Some(s)}]]
             Second(g) == [s \in SUBSET S |-> IF s = {} THEN 0 ELSE v[Some(s)] + g[s \ {Some(s)}]]
  <2>1. MapThenSumSet(LAMBDA w : workerStats[w].count, DOMAIN workerStats) =
          (CHOOSE g : g = [s \in SUBSET DOMAIN workerStats |->
             IF s = {} THEN 0 ELSE workerStats[Some(s)].count + g[s \ {Some(s)}]])[DOMAIN workerStats]
    BY Zenon DEF MapThenSumSet, MapThenFoldSet, Some
  <2>2. sum = (CHOOSE g : g = First(g))[S]
    BY <1>1, <1>10, <2>1
  <2>3. \A g : First(g) = Second(g)
    <3>1. \A s \in SUBSET S : s # {} => Some(s) \in S
      BY DEF Some
    <3>2. \A s \in SUBSET S : s # {} => v[Some(s)] = workerStats[Some(s)].count
      BY <1>6, <3>1
    <3> QED
      BY <3>2
  <2>4. sum = (CHOOSE g : g = Second(g))[S]
    <3> HIDE DEF First, Second
    <3> QED
      BY <2>2, <2>3
  <2> QED
    BY <2>4 DEF SetSum
<1>12. /\ IsFiniteSet(Together(S, P)) /\ Cardinality(Together(S, P)) \in Nat
       /\ sum = Cardinality(Together(S, P))
  BY <1>4, <1>9, <1>11, SetSumIs
<1>13. Together(S, P) = Ended
  <2>1. \A x : x \in Together(S, P) <=> \E w \in S : x \in P[w]
    BY DEF Together
  <2>2. \A i \in Ended : tasks[i].by \in S /\ i \in P[tasks[i].by]
    BY <1>3, <1>5 DEF startedBy
  <2>3. \A w \in S : P[w] \subseteq Ended
    BY <1>5 DEF startedBy
  <2> QED
    BY <2>1, <2>2, <2>3
<1>14. summary.totalCount = Cardinality(Ended) /\ summary.totalWorkers = Cardinality(S)
  BY <1>3 DEF summary
<1> QED
  BY <1>1, <1>10, <1>12, <1>13, <1>14 DEF SummaryAgrees

\* A ranking counts the items of a worker once, and his mean is no longer than his time.
RankAgrees(w) ==
    LET rank == rankings[w]
        part == {i \in Ended : w \in {tasks[i].by} \cup tasks[i].with} IN
    /\ rank.completedCount = Cardinality(part)
    /\ rank.totalVolume = Cardinality(part)
    /\ rank.coWorkCount = 0 =>
        /\ workerStats[w].count = rank.completedCount
        /\ workerStats[w].avgDuration = rank.avgDuration
    /\ role[w] # "MASTER" /\ MineAlike(w) => rank.avgDuration <= netMinutes(w)

\* With typed rows the line of a ranked worker agrees with his items.
LEMMA RankCounts == ASSUME ExposureInv, NEW w \in DOMAIN rankings PROVE RankAgrees(w)
<1>1. PICK A : A = startedBy(w)
  OBVIOUS
<1>2. PICK B : B = coWork(w)
  OBVIOUS
<1>3. PICK rank : rank = rankings[w]
  OBVIOUS
<1>4. /\ w \in People /\ A \cup B # {}
      /\ rank.completedCount = Cardinality(A \cup B)
      /\ rank.totalVolume = Cardinality(A) + Cardinality(B)
      /\ rank.coWorkCount = Cardinality(B) /\ rank.avgDuration = Average(A \cup B)
  BY <1>1, <1>2, <1>3 DEF rankings
<1>5. PICK part : part = {i \in Ended : w \in {tasks[i].by} \cup tasks[i].with}
  OBVIOUS
<1>6. part = A \cup B /\ A \subseteq part /\ B = part \ A
  BY <1>1, <1>2, <1>5 DEF startedBy, coWork
<1>7. IsFiniteSet(part)
  <2>1. part \subseteq Ended
    BY <1>5
  <2> QED
    BY <2>1, EndedAre, FS_Subset
<1>8. /\ Cardinality(A) \in Nat /\ Cardinality(B) \in Nat /\ IsFiniteSet(B)
      /\ Cardinality(part) = Cardinality(A) + Cardinality(B)
  <2>1. /\ IsFiniteSet(A) /\ IsFiniteSet(part \ A)
        /\ Cardinality(A) \in Nat /\ Cardinality(part \ A) \in Nat
        /\ Cardinality(part) = Cardinality(A) + Cardinality(part \ A)
    BY <1>6, <1>7, CountRest
  <2> QED
    BY <1>6, <2>1
<1>9. ASSUME rank.coWorkCount = 0
      PROVE  /\ workerStats[w].count = rank.completedCount
             /\ workerStats[w].avgDuration = rank.avgDuration
  <2>1. B = {}
    BY <1>4, <1>8, <1>9, FS_EmptySet
  <2>2. A \cup B = A /\ A # {}
    BY <1>4, <2>1
  <2>3. workerStats[w].count = Cardinality(A) /\ workerStats[w].avgDuration = Average(A)
    BY <1>1, <1>4, <2>2 DEF workerStats
  <2> QED
    BY <1>4, <2>2, <2>3
<1>10. ASSUME role[w] # "MASTER", MineAlike(w) PROVE rank.avgDuration <= netMinutes(w)
  <2>1. part \subseteq Mine(w)
    BY <1>5, <1>10 DEF Mine, Ended, participants
  <2>4. \A i \in part : restsFor(tasks[i].by) = restsFor(w)
    BY <1>10, <2>1 DEF MineAlike, Mine, Started
  <2>2. part # {}
    BY <1>4, <1>6
  <2>3. Average(part) <= netMinutes(w)
    BY <2>1, <2>2, <2>4, AverageIs
  <2> QED
    BY <1>4, <1>6, <2>3
<1> QED
  BY <1>3, <1>4, <1>5, <1>6, <1>8, <1>9, <1>10 DEF RankAgrees

\* With typed rows every table of the dashboard agrees with the items.
LEMMA DashboardCounts == ExposureInv => DashboardAgrees
<1> SUFFICES ASSUME ExposureInv PROVE DashboardAgrees
  OBVIOUS
<1>1. LoadsAgree /\ DaysAgree /\ SpreadAgrees /\ SummaryAgrees
  BY Loads, DayCounts, SpreadCounts, SummaryCounts
<1>2. \A w \in DOMAIN rankings : RankAgrees(w)
  BY RankCounts
<1>3. ASSUME NEW w \in TimedWorkers, MineWhole(w), MineAlike(w)
      PROVE  LET total == IF w \in DOMAIN workersOut THEN workersOut[w].total ELSE 0
             IN  netMinutes(w) <= total /\ (MineApart(w) => netMinutes(w) = total)
  BY <1>3, WholeIs
<1>4. \A w \in TimedWorkers :
        netMinutes(w) = toMin(Cardinality(UNION {AtWorkOn(w, i) : i \in Mine(w)}))
  BY NetIsCounted
<1> QED
  BY Zenon, <1>1, <1>2, <1>3, <1>4 DEF DashboardAgrees, LoadsAgree, DaysAgree, SpreadAgrees,
     SummaryAgrees, RankAgrees, MineWhole, MineApart, MineAlike, AtWorkOn, TableDays

\* Whatever the rows, the tables of the dashboard agree with one another and with the report.
THEOREM DashboardAlwaysAgrees == ExposureSpec => []DashboardAgrees
<1>1. ExposureInv => DashboardAgrees
  BY DashboardCounts
<1> QED
  BY <1>1, ExposureAlways, PTL
=============================================================================
