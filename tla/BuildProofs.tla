------------------------------ MODULE BuildProofs ------------------------------
(***************************************************************************)
(* Every property of Build, for every text, manifest and answer, any       *)
(* policies and any number of crashes and sessions.                        *)
(*                                                                         *)
(* The book does not move once its chunks have ended, so what a commit     *)
(* writes is a function of the book and of the chunks (WritesStay): the    *)
(* first half of the module says what is in that list and in which order   *)
(* (RegistryIs, PlanIs, AllocationIs, WritesAre).  The second half is the  *)
(* invariant.  WorldIs says where genesis, the session and the verdicts    *)
(* stand.  CommitIs says how far a commit is: what is left to write is the *)
(* end of the list, all before it has landed, and the log holds nothing    *)
(* that is not in the list, however often it was begun.                    *)
(***************************************************************************)
EXTENDS Build, Numbers, FiniteSetTheorems, SequenceTheorems

-----------------------------------------------------------------------------
(* Lists.                                                                  *)

\* A list of blocks, laid end to end: block i ends where off[i] says.
Laid(flat, b, off) ==
  /\ IsList(flat) /\ Len(flat) = off[Len(b)]
  /\ off \in [0..Len(b) -> Nat] /\ off[0] = 0
  /\ \A i \in 1..Len(b) : off[i] = off[i - 1] + Len(b[i])
  /\ \A i, j \in 0..Len(b) : i <= j => off[i] <= off[j]
  /\ \A i \in 1..Len(b) : \A q \in 1..Len(b[i]) : flat[off[i - 1] + q] = b[i][q]
  /\ \A p \in 1..Len(flat) : \E i \in 1..Len(b) : \E q \in 1..Len(b[i]) : p = off[i - 1] + q

\* What comes of laying blocks end to end, one by one.
Chained(fl, b, n) == fl[1] = b[1] /\ \A i \in 2..n : fl[i] = fl[i - 1] \o b[i]

\* Lists laid end to end lie where they were laid.
LEMMA LaidOut ==
  ASSUME NEW b, IsList(b), NEW n \in Nat \ {0}, n = Len(b), \A i \in 1..n : IsList(b[i]),
         NEW fl, Chained(fl, b, n)
  PROVE  \E off : Laid(fl[n], b, off)
<1> DEFINE off == [i \in 0..n |-> IF i = 0 THEN 0 ELSE Len(fl[i])]
           Steps(i) == /\ IsList(fl[i]) /\ \A j \in 1..i : off[j] = off[j - 1] + Len(b[j])
                       /\ \A j \in 0..i : off[j] \in Nat /\ off[j] <= off[i]
           Holds(i) == /\ \A j \in 1..i : \A q \in 1..Len(b[j]) : fl[i][off[j - 1] + q] = b[j][q]
                       /\ \A p \in 1..Len(fl[i]) : \E j \in 1..i : \E q \in 1..Len(b[j]) :
                            p = off[j - 1] + q
           Good(i) == Steps(i) /\ Holds(i)
           Worse == {i \in 1..n : ~Good(i)}
<1>4. \A i \in 1..n : off[i] = Len(fl[i])
  OBVIOUS
<1>5. off[0] = 0 /\ \A i \in 1..n : IsList(b[i]) /\ Len(b[i]) \in Nat
  BY DEF IsList
<1>6. off = [i \in 0..n |-> off[i]]
  OBVIOUS
<1> HIDE DEF off
<1>7. Good(1)
  <2>1. fl[1] = b[1] /\ 1 \in 1..n /\ off[1] = Len(b[1])
    BY <1>4 DEF Chained
  <2>2. \A j \in 0..1 : off[j] \in Nat /\ off[j] <= off[1]
    <3>1. off[0] <= off[1] /\ off[1] <= off[1] /\ off[0] \in Nat /\ off[1] \in Nat
      BY <1>5, <2>1
    <3>2. \A j \in 0..1 : j = 0 \/ j = 1
      OBVIOUS
    <3> QED
      BY <3>1, <3>2
  <2>3. Steps(1)
    BY <1>5, <2>1, <2>2
  <2>4. \A j \in 1..1 : j = 1 /\ j - 1 = 0
    OBVIOUS
  <2>5. \A q \in 1..Len(b[1]) : 0 + q = q /\ off[1 - 1] + q = q
    BY <1>5, <2>1
  <2>6. \A j \in 1..1 : \A q \in 1..Len(b[j]) : fl[1][off[j - 1] + q] = b[j][q]
    BY <2>1, <2>4, <2>5
  <2>7. ASSUME NEW p \in 1..Len(fl[1])
        PROVE  \E j \in 1..1 : \E q \in 1..Len(b[j]) : p = off[j - 1] + q
    <3>1. p \in 1..Len(b[1]) /\ p = off[1 - 1] + p /\ 1 \in 1..1
      BY <2>1, <2>5
    <3> QED
      BY <3>1
  <2> QED
    BY <2>3, <2>6, <2>7
<1>8. ASSUME NEW i \in 2..n, Good(i - 1) PROVE Good(i)
  <2>1. PICK h \in 1..n : i \in 1..n /\ i = h + 1 /\ h = i - 1
    OBVIOUS
  <2>2. Good(h)
    <3> HIDE DEF Good
    <3> QED
      BY <1>8, <2>1
  <2>3. fl[i] = fl[h] \o b[i]
    BY <2>1 DEF Chained
  <2> DEFINE c == b[i]
             d == fl[h]
             e == d \o c
  <2>4. IsList(c) /\ IsList(d) /\ fl[i] = e /\ e = d \o c
    BY <1>5, <2>1, <2>2, <2>3
  <2>5. c = b[i] /\ d = fl[h]
    OBVIOUS
  <2> HIDE DEF c, d, e
  <2>6. IsList(e) /\ Len(e) = Len(d) + Len(c) /\ Len(c) \in Nat /\ Len(d) \in Nat
    BY <2>4, Joined
  <2>7. /\ \A p \in 1..Len(d) : e[p] = d[p]
        /\ \A q \in 1..Len(c) : e[Len(d) + q] = c[q]
    BY <2>4, Joined
  <2>8. off[i] = Len(e) /\ off[h] = Len(d) /\ off[i - 1] = Len(d)
    BY <1>4, <2>1, <2>4, <2>5
  <2>9. Steps(i)
    <3>1. \A j \in 0..h : off[j] \in Nat /\ off[j] <= Len(d)
      BY <2>2, <2>8
    <3>2. ASSUME NEW j \in 0..i PROVE off[j] \in Nat /\ off[j] <= Len(e)
      <4>1. CASE j = i
        BY <2>6, <2>8, <4>1
      <4>2. CASE j # i
        <5>1. j \in 0..h
          BY <2>1, <4>2
        <5> QED
          BY <2>6, <3>1, <5>1
      <4> QED
        BY <4>1, <4>2
    <3>3. \A j \in 1..i : j = i \/ j \in 1..h
      BY <2>1
    <3>4. off[i] = off[i - 1] + Len(c)
      BY <2>6, <2>8
    <3>5. \A j \in 1..h : off[j] = off[j - 1] + Len(b[j])
      BY <2>2
    <3>6. \A j \in 1..i : off[j] = off[j - 1] + Len(b[j])
      BY <2>5, <3>3, <3>4, <3>5
    <3> QED
      BY <2>4, <2>6, <2>8, <3>2, <3>6
  <2>10. ASSUME NEW j \in 1..i, NEW q \in 1..Len(b[j]) PROVE fl[i][off[j - 1] + q] = b[j][q]
    <3>1. CASE j = i
      BY <2>4, <2>5, <2>7, <2>8, <3>1
    <3>2. CASE j # i
      <4>1. j \in 1..h /\ j \in 1..n /\ j \in 0..h /\ j - 1 \in 0..h
        BY <2>1, <3>2
      <4>2. d[off[j - 1] + q] = b[j][q]
        BY <2>2, <2>5, <4>1
      <4>3. off[j] = off[j - 1] + Len(b[j]) /\ off[j] <= Len(d) /\ off[j - 1] \in Nat
        BY <2>2, <2>8, <4>1
      <4>4. off[j - 1] + q \in 1..Len(d)
        <5>1. Len(b[j]) \in Nat
          BY <1>5, <4>1
        <5> QED
          BY <2>6, <4>3, <5>1
      <4> QED
        BY <2>4, <2>7, <4>2, <4>4
    <3> QED
      BY <3>1, <3>2
  <2>11. ASSUME NEW p \in 1..Len(fl[i])
         PROVE  \E j \in 1..i : \E q \in 1..Len(b[j]) : p = off[j - 1] + q
    <3>0. p \in 1..Len(e)
      BY <2>4
    <3>1. CASE p <= Len(d)
      <4>1. p \in 1..Len(fl[h])
        BY <2>5, <2>6, <3>0, <3>1
      <4>2. PICK j \in 1..h : \E q \in 1..Len(b[j]) : p = off[j - 1] + q
        BY <2>2, <4>1
      <4>3. j \in 1..i
        BY <2>1
      <4> QED
        BY <4>2, <4>3
    <3>2. CASE p > Len(d)
      <4>1. p - Len(d) \in 1..Len(c) /\ p = Len(d) + (p - Len(d))
        BY <2>6, <3>0, <3>2
      <4>2. i \in 1..i
        BY <2>1
      <4> QED
        BY <2>5, <2>8, <4>1, <4>2
    <3> QED
      BY <2>6, <3>0, <3>1, <3>2
  <2> QED
    BY <2>9, <2>10, <2>11
<1>9. ASSUME Worse # {} PROVE FALSE
  <2>1. PICK i \in Worse : \A j \in Worse : i <= j
    <3>1. Worse \in SUBSET Nat
      OBVIOUS
    <3> HIDE DEF Worse
    <3> QED
      BY <1>9, <3>1, LeastOf
  <2>2. i \in 1..n /\ ~Good(i)
    OBVIOUS
  <2> HIDE DEF Good
  <2>3. i # 1
    BY <1>7, <2>2
  <2>4. i \in 2..n /\ i - 1 \in 1..n
    BY <2>2, <2>3
  <2>5. Good(i - 1)
    BY <2>1, <2>4
  <2> QED
    BY <1>8, <2>2, <2>4, <2>5
<1>10. \A i \in 1..n : Good(i)
  <2> HIDE DEF Good
  <2> QED
    BY <1>9
<1>11. Laid(fl[n], b, off)
  <2>1. Good(n) /\ n \in 1..n
    <3>1. n \in 1..n
      OBVIOUS
    <3> QED
      BY <1>10, <3>1
  <2>2. \A i \in 1..n : off[i] = off[i - 1] + Len(b[i])
    BY <1>10
  <2>3. \A i, j \in 0..n : i <= j => off[i] <= off[j]
    <3>1. ASSUME NEW i \in 0..n, NEW j \in 0..n, i <= j PROVE off[i] <= off[j]
      <4>1. CASE j = 0
        BY <1>5, <3>1, <4>1
      <4>2. CASE j # 0
        <5>1. j \in 1..n /\ i \in 0..j
          BY <3>1, <4>2
        <5> QED
          BY <1>10, <5>1
      <4> QED
        BY <4>1, <4>2
    <3> QED
      BY <3>1
  <2>4. off \in [0..n -> Nat]
    BY <1>6, <2>1
  <2>5. Len(fl[n]) = off[n]
    BY <1>4, <2>1
  <2> QED
    BY <1>5, <2>1, <2>2, <2>3, <2>4, <2>5 DEF Laid
<1> QED
  BY <1>11

\* A list of lists, flattened, holds each in its place.
LEMMA Flattened ==
  ASSUME NEW b, IsList(b), \A i \in 1..Len(b) : IsList(b[i])
  PROVE  \E off : Laid(FlattenSeq(b), b, off)
<1> DEFINE n == Len(b)
           Step(g, i) == IF i = 1 THEN b[i] ELSE g[i - 1] \o b[i]
           Is(g, m) == g = [i \in 1..m |-> Step(g, i)]
           Bad == {m \in Nat : ~\E g : Is(g, m)}
<1>0. n \in Nat /\ DOMAIN b = 1..n /\ b \in Seq(Range(b))
  BY DEF IsList
<1>1. ASSUME NEW m \in Nat \ {0}, NEW g, Is(g, m - 1) PROVE \E f : Is(f, m)
  <2> DEFINE f == [i \in 1..m |-> IF i = m THEN Step(g, m) ELSE g[i]]
  <2>1. \A i \in 1..(m - 1) : f[i] = g[i]
    OBVIOUS
  <2>2. ASSUME NEW i \in 1..m PROVE f[i] = Step(f, i)
    <3>1. i # 1 => f[i - 1] = g[i - 1]
      BY <2>1
    <3>2. CASE i = m
      BY <3>1, <3>2
    <3>3. CASE i # m
      <4>1. i \in 1..(m - 1)
        BY <3>3
      <4>2. g[i] = Step(g, i)
        BY <1>1, <4>1
      <4> QED
        BY <2>1, <3>1, <4>1, <4>2
    <3> QED
      BY <3>2, <3>3
  <2>3. f = [i \in 1..m |-> f[i]]
    OBVIOUS
  <2> HIDE DEF f, Step
  <2>4. Is(f, m)
    BY <2>2, <2>3
  <2> QED
    BY <2>4
<1>2. \E g : Is(g, 0)
  <2>1. Is([i \in 1..0 |-> 0], 0)
    OBVIOUS
  <2> QED
    BY <2>1
<1>3. ASSUME Bad # {} PROVE FALSE
  <2> HIDE DEF Is
  <2>1. PICK m \in Bad : \A l \in Bad : m <= l
    <3>1. Bad \in SUBSET Nat
      OBVIOUS
    <3> HIDE DEF Bad
    <3> QED
      BY <1>3, <3>1, LeastOf
  <2>2. m # 0 /\ m - 1 \in Nat /\ m - 1 \notin Bad
    BY <1>2, <2>1
  <2> QED
    BY <1>1, <2>1, <2>2
<1>4. \E g : Is(g, n)
  BY <1>0, <1>3
<1>5. CASE n = 0
  <2>1. FlattenSeq(b) = b /\ b = <<>>
    BY <1>0, <1>5 DEF FlattenSeq
  <2>2. Laid(<<>>, b, [i \in 0..0 |-> 0])
    <3>1. IsList(<<>>)
      BY ListOf, EmptySeq
    <3> QED
      BY <1>0, <1>5, <3>1 DEF Laid
  <2> QED
    BY <2>1, <2>2
<1>6. CASE n # 0
  <2> DEFINE fl == CHOOSE g : Is(g, n)
  <2>1. FlattenSeq(b) = fl[n]
    BY <1>0, <1>6 DEF FlattenSeq
  <2>2. Is(fl, n)
    BY <1>4
  <2> HIDE DEF fl
  <2>3. /\ fl[1] = b[1]
        /\ \A i \in 2..n : fl[i] = fl[i - 1] \o b[i]
    <3>1. \A i \in 1..n : fl[i] = Step(fl, i)
      BY <2>2
    <3>2. 1 \in 1..n /\ \A i \in 2..n : i \in 1..n /\ i # 1
      BY <1>0, <1>6
    <3> QED
      BY <3>1, <3>2
  <2> HIDE DEF Is, Step, Bad
  <2>4. n \in Nat \ {0} /\ \A i \in 1..n : IsList(b[i])
    BY <1>0, <1>6
  <2>5. \E off : Laid(fl[n], b, off)
    <3> HIDE DEF n
    <3>1. n = Len(b)
      BY DEF n
    <3> QED
      BY <2>3, <2>4, <3>1, LaidOut DEF Chained
  <2> QED
    BY <2>1, <2>5
<1> QED
  BY <1>5, <1>6

\* A flattened list holds what its blocks hold.
LEMMA FlatHolds ==
  ASSUME NEW b, IsList(b), \A i \in 1..Len(b) : IsList(b[i])
  PROVE  /\ IsList(FlattenSeq(b))
         /\ \A x : x \in Range(FlattenSeq(b)) <=> \E i \in 1..Len(b) : x \in Range(b[i])
<1>1. PICK off : Laid(FlattenSeq(b), b, off)
  BY Flattened
<1> DEFINE flat == FlattenSeq(b)
<1> HIDE DEF flat
<1>2. /\ IsList(flat) /\ Len(flat) = off[Len(b)] /\ DOMAIN flat = 1..Len(flat)
      /\ Len(b) \in Nat /\ off \in [0..Len(b) -> Nat]
      /\ \A i \in 1..Len(b) : DOMAIN b[i] = 1..Len(b[i]) /\ Len(b[i]) \in Nat
  BY <1>1 DEF Laid, IsList, flat
<1>3. ASSUME NEW i \in 1..Len(b), NEW q \in 1..Len(b[i]) PROVE b[i][q] \in Range(flat)
  <2>1. flat[off[i - 1] + q] = b[i][q] /\ off[i] = off[i - 1] + Len(b[i]) /\ off[i] <= off[Len(b)]
    BY <1>1, <1>2 DEF Laid, flat
  <2>2. off[i - 1] \in Nat /\ off[i] \in Nat /\ off[Len(b)] \in Nat /\ Len(b[i]) \in Nat
    BY <1>2
  <2>3. off[i - 1] + q \in 1..Len(flat)
    BY <1>2, <2>1, <2>2
  <2> QED
    BY <1>2, <2>1, <2>3 DEF Range
<1>4. ASSUME NEW p \in 1..Len(flat) PROVE \E i \in 1..Len(b) : flat[p] \in Range(b[i])
  <2>1. PICK i \in 1..Len(b) : \E q \in 1..Len(b[i]) : p = off[i - 1] + q
    BY <1>1 DEF Laid, flat
  <2>2. PICK q \in 1..Len(b[i]) : p = off[i - 1] + q
    BY <2>1
  <2>3. flat[p] = b[i][q]
    BY <1>1, <2>2 DEF Laid, flat
  <2> QED
    BY <1>2, <2>3 DEF Range
<1>5. ASSUME NEW i \in 1..Len(b), NEW x \in Range(b[i]) PROVE x \in Range(flat)
  BY <1>2, <1>3 DEF Range
<1>6. ASSUME NEW x \in Range(flat) PROVE \E i \in 1..Len(b) : x \in Range(b[i])
  <2>1. PICK p \in 1..Len(flat) : x = flat[p]
    BY <1>2 DEF Range
  <2> QED
    BY <1>4, <2>1
<1> QED
  BY <1>2, <1>5, <1>6 DEF flat

-----------------------------------------------------------------------------
(* Sets in order, and numbers that are free.                               *)

\* A finite set by rank is listed once each, in the order of the ranks.
LEMMA RankedIs ==
  ASSUME NEW S, IsFiniteSet(S), NEW rank, \A x \in S : rank[x] \in Int,
         \A x, y \in S : rank[x] = rank[y] => x = y
  PROVE  /\ IsList(Ranked(S, rank)) /\ Len(Ranked(S, rank)) = Cardinality(S)
         /\ Cardinality(S) \in Nat /\ Range(Ranked(S, rank)) = S
         /\ \A i, j \in 1..Cardinality(S) :
              i < j => rank[Ranked(S, rank)[i]] < rank[Ranked(S, rank)[j]]
<1> DEFINE n == Cardinality(S)
           Upto(x) == {y \in S : rank[y] <= rank[x]}
           c == [x \in S |-> Cardinality(Upto(x))]
           r == Ranked(S, rank)
<1>1. n \in Nat /\ IsFiniteSet(1..n) /\ Cardinality(1..n) = n
  BY FS_CardinalityType, FS_Interval
<1>2. \A x \in S : Upto(x) \subseteq S /\ x \in Upto(x) /\ IsFiniteSet(Upto(x))
  BY FS_Subset
<1>3. \A x \in S : c[x] \in 1..n
  <2>1. ASSUME NEW x \in S PROVE Cardinality(Upto(x)) \in 1..n
    <3> DEFINE U == Upto(x)
    <3>1. IsFiniteSet(U) /\ U # {} /\ U \in SUBSET S
      BY <1>2
    <3> HIDE DEF U
    <3>2. Cardinality(U) \in Nat /\ Cardinality(U) <= n /\ Cardinality(U) # 0
      BY <3>1, FS_CardinalityType, FS_Subset, FS_EmptySet
    <3>3. Cardinality(U) \in 1..n
      BY <1>1, <3>2
    <3> QED
      BY <3>3 DEF U
  <2> QED
    BY <2>1
<1>4. \A x, y \in S : rank[x] < rank[y] => c[x] < c[y]
  <2>1. ASSUME NEW x \in S, NEW y \in S, rank[x] < rank[y]
        PROVE  Cardinality(Upto(x)) < Cardinality(Upto(y))
    <3> DEFINE U == Upto(x)
               V == Upto(y)
    <3>1. U \subseteq V /\ y \in V /\ y \notin U /\ IsFiniteSet(U) /\ IsFiniteSet(V)
      <4>1. rank[x] \in Int /\ rank[y] \in Int /\ \A z \in S : rank[z] \in Int
        OBVIOUS
      <4> QED
        BY <1>2, <2>1, <4>1
    <3> HIDE DEF U, V
    <3>2. Cardinality(U) \in Nat /\ Cardinality(V) \in Nat
      BY <3>1, FS_CardinalityType
    <3>3. Cardinality(U) <= Cardinality(V) /\ Cardinality(U) # Cardinality(V)
      BY <3>1, FS_Subset
    <3>4. Cardinality(U) < Cardinality(V)
      BY <3>2, <3>3
    <3> QED
      BY <3>4 DEF U, V
  <2> QED
    BY <2>1
<1> HIDE DEF c, Upto
<1>5. c \in Injection(S, 1..n)
  <2>1. c \in [S -> 1..n]
    BY <1>3 DEF c
  <2>2. \A x, y \in S : c[x] = c[y] => x = y
    <3>1. ASSUME NEW x \in S, NEW y \in S, c[x] = c[y] PROVE x = y
      <4>1. ~(rank[x] < rank[y]) /\ ~(rank[y] < rank[x])
        <5>1. c[x] \in Int /\ c[y] \in Int
          BY <1>3
        <5> QED
          BY <1>4, <3>1, <5>1
      <4>2. rank[x] \in Int /\ rank[y] \in Int
        OBVIOUS
      <4> QED
        BY <4>1, <4>2
    <3> QED
      BY <3>1
  <2> QED
    BY <2>1, <2>2 DEF Injection, IsInjective
<1>6. c \in Surjection(S, 1..n)
  BY <1>1, <1>5, FS_Injection
<1>7. \A k \in 1..n : \E x \in S : c[x] = k
  BY <1>6 DEF Surjection
<1>8. r = [k \in 1..n |-> r[k]]
  <2> DEFINE at(k) == CHOOSE x \in S : Cardinality({y \in S : rank[y] <= rank[x]}) = k
  <2>1. r = [k \in 1..n |-> at(k)]
    BY DEF Ranked
  <2> HIDE DEF r, at
  <2> QED
    BY <2>1
<1>9. ASSUME NEW k \in 1..n PROVE r[k] \in S /\ c[r[k]] = k
  <2>1. r[k] = CHOOSE x \in S : Cardinality({y \in S : rank[y] <= rank[x]}) = k
    BY DEF Ranked
  <2>2. \E x \in S : Cardinality({y \in S : rank[y] <= rank[x]}) = k
    BY <1>7 DEF c, Upto
  <2> HIDE DEF r
  <2>3. r[k] \in S /\ Cardinality({y \in S : rank[y] <= rank[r[k]]}) = k
    BY <2>1, <2>2
  <2> QED
    BY <2>3 DEF c, Upto
<1> HIDE DEF r
<1>10. IsList(r) /\ Len(r) = n /\ Range(r) = {r[k] : k \in 1..n}
  BY <1>1, <1>8, Numbered
<1>11. S \subseteq Range(r)
  <2>1. ASSUME NEW x \in S PROVE r[c[x]] = x
    <3>1. c[x] \in 1..n
      BY <1>3
    <3>2. r[c[x]] \in S /\ c[r[c[x]]] = c[x]
      BY <1>9, <3>1
    <3> QED
      BY <1>5, <3>2 DEF Injection, IsInjective
  <2> QED
    BY <1>3, <1>10, <2>1
<1>12. \A i, j \in 1..n : i < j => rank[r[i]] < rank[r[j]]
  <2>1. ASSUME NEW i \in 1..n, NEW j \in 1..n, i < j PROVE rank[r[i]] < rank[r[j]]
    <3>1. r[i] \in S /\ r[j] \in S /\ c[r[i]] = i /\ c[r[j]] = j
      BY <1>9
    <3>2. ~(rank[r[j]] < rank[r[i]]) /\ r[i] # r[j]
      BY <1>4, <2>1, <3>1
    <3>3. rank[r[i]] \in Int /\ rank[r[j]] \in Int /\ rank[r[i]] # rank[r[j]]
      BY <3>1, <3>2
    <3> QED
      BY <3>2, <3>3
  <2> QED
    BY <2>1
<1> QED
  BY <1>1, <1>9, <1>10, <1>11, <1>12 DEF r

\* A set written as a list.
LEMMA SetListed ==
  ASSUME NEW S, IsFiniteSet(S)
  PROVE  /\ IsList(SetToSeq(S)) /\ Len(SetToSeq(S)) = Cardinality(S)
         /\ Cardinality(S) \in Nat /\ Range(SetToSeq(S)) = S
         /\ \A i, j \in 1..Cardinality(S) : SetToSeq(S)[i] = SetToSeq(S)[j] => i = j
<1> DEFINE n == Cardinality(S)
           f == SetToSeq(S)
<1>1. n \in Nat /\ IsFiniteSet(1..n) /\ Cardinality(1..n) = n
  BY FS_CardinalityType, FS_Interval
<1>2. \E g \in [1..n -> S] : IsInjective(g)
  <2>1. PICK g : g \in Bijection(1..n, S)
    BY FS_CardinalityType DEF ExistsBijection
  <2> QED
    BY <2>1 DEF Bijection, Injection
<1>3. f \in [1..n -> S] /\ IsInjective(f)
  BY <1>2 DEF SetToSeq
<1> HIDE DEF f
<1>4. f \in Injection(1..n, S)
  BY <1>3 DEF Injection
<1>5. f \in Surjection(1..n, S)
  BY <1>1, <1>4, FS_Injection
<1>6. \A x \in S : \E i \in 1..n : f[i] = x
  BY <1>5 DEF Surjection
<1>7. f = [i \in 1..n |-> f[i]]
  BY <1>3
<1>8. IsList(f) /\ Len(f) = n /\ Range(f) = {f[i] : i \in 1..n}
  BY <1>1, <1>7, Numbered
<1>9. Range(f) = S
  BY <1>3, <1>6, <1>8
<1>10. \A i, j \in 1..n : f[i] = f[j] => i = j
  BY <1>3 DEF IsInjective
<1> QED
  BY <1>1, <1>8, <1>9, <1>10 DEF f

\* The allocator finds a number that is free.
LEMMA MintIsFree ==
  ASSUME NEW taken, IsFiniteSet(taken), NEW space, NEW name
  PROVE  /\ Mint(taken, space, name) \notin taken
         /\ Mint(taken, space, name)[1] = space /\ Mint(taken, space, name)[3] \in Nat \ {0}
<1> DEFINE n == Cardinality(taken) + 1
           Free(k) == /\ <<space, name, k>> \notin taken
                      /\ \A m \in 1..(k - 1) : <<space, name, m>> \in taken
           U == {k \in 1..n : <<space, name, k>> \notin taken}
<1>1. n \in Nat /\ Cardinality(taken) \in Nat /\ Cardinality(taken) < n
  BY FS_CardinalityType
<1>2. U # {}
  <2> SUFFICES ASSUME U = {} PROVE FALSE
    OBVIOUS
  <2> DEFINE f == [k \in 1..n |-> <<space, name, k>>]
  <2>1. f \in [1..n -> taken]
    OBVIOUS
  <2>2. \A i, j \in 1..n : f[i] = f[j] => i = j
    OBVIOUS
  <2>3. IsFiniteSet(1..n) /\ Cardinality(1..n) = n
    BY <1>1, FS_Interval
  <2> HIDE DEF f, n, U
  <2> QED
    BY <1>1, <2>1, <2>2, <2>3, FS_PigeonHole
<1>3. PICK k \in U : \A m \in U : k <= m
  <2>1. U \in SUBSET Nat
    OBVIOUS
  <2> HIDE DEF U
  <2> QED
    BY <1>2, <2>1, LeastOf
<1>4. k \in 1..n /\ Free(k)
  <2>1. k \in 1..n /\ <<space, name, k>> \notin taken
    BY <1>3
  <2>2. \A m \in 1..(k - 1) : m \in 1..n /\ m < k
    BY <1>1, <2>1
  <2> QED
    BY <1>3, <2>1, <2>2
<1> DEFINE x == CHOOSE i \in 1..n : Free(i)
<1>5. x \in 1..n /\ Free(x)
  <2> HIDE DEF Free
  <2> QED
    BY <1>4
<1>6. Mint(taken, space, name) = <<space, name, x>>
  BY DEF Mint
<1> HIDE DEF x, n
<1> QED
  BY <1>1, <1>5, <1>6

\* A list holds finitely many things, and so do the names they go by.
LEMMA ListIsFinite ==
  ASSUME NEW s, IsList(s)
  PROVE  IsFiniteSet(Range(s))
<1>1. /\ Len(s) \in Nat /\ s \in [1..Len(s) -> Range(s)] /\ DOMAIN s = 1..Len(s)
  BY DEF IsList
<1>2. s \in Surjection(1..Len(s), Range(s))
  BY <1>1 DEF Surjection, Range
<1>3. IsFiniteSet(1..Len(s))
  BY <1>1, FS_Interval
<1> QED
  BY <1>2, <1>3, FS_Surjection

-----------------------------------------------------------------------------
(* The registry.                                                           *)

Entered(m) == Len(m.entries)
Posing(m) == Len(m.personas)
Listed(m) == Entered(m) + Posing(m)

\* What a manifest that is taken has.
LEMMA ManifestIs ==
  ASSUME NEW m \in Manifests
  PROVE  /\ Entered(m) \in Nat /\ DOMAIN m.entries = 1..Entered(m)
         /\ Posing(m) \in Nat /\ DOMAIN m.personas = 1..Posing(m) /\ Listed(m) \in Nat
         /\ \A n \in 1..Entered(m) : /\ m.entries[n].type \in DOMAIN Namespace
                                      /\ m.entries[n].anchor \in Sentences
         /\ \A n \in 1..Posing(m) : /\ m.personas[n].of \in 1..Entered(m)
                                     /\ m.personas[n].intro \in Sentences
                                     /\ m.personas[n].reveal \in Sentences
         /\ IsFiniteSet(m.namesakes)
<1>1. /\ m.entries \in Seq(Range(m.entries)) /\ m.personas \in Seq(Range(m.personas))
      /\ \A e \in Range(m.entries) : e.type \in DOMAIN Namespace /\ e.anchor \in Sentences
      /\ \A p \in Range(m.personas) : p.of \in DOMAIN m.entries /\ {p.intro, p.reveal} \subseteq Sentences
      /\ IsFiniteSet(m.namesakes)
  BY ManifestsAreFormed
<1>2. /\ Entered(m) \in Nat /\ DOMAIN m.entries = 1..Entered(m)
      /\ Posing(m) \in Nat /\ DOMAIN m.personas = 1..Posing(m)
  BY <1>1 DEF Entered, Posing
<1>3. /\ \A n \in 1..Entered(m) : m.entries[n] \in Range(m.entries)
      /\ \A n \in 1..Posing(m) : m.personas[n] \in Range(m.personas)
  BY <1>2 DEF Range
<1>4. Listed(m) \in Nat
  BY <1>2 DEF Listed
<1>5. \A n \in 1..Entered(m) : m.entries[n].type \in DOMAIN Namespace /\ m.entries[n].anchor \in Sentences
  BY <1>1, <1>3
<1>6. \A n \in 1..Posing(m) : /\ m.personas[n].of \in 1..Entered(m)
                               /\ m.personas[n].intro \in Sentences
                               /\ m.personas[n].reveal \in Sentences
  BY <1>1, <1>2, <1>3
<1> QED
  BY <1>1, <1>2, <1>4, <1>5, <1>6

\* Each identity comes after those before it.
LEMMA RegisteringIs ==
  ASSUME NEW m \in Manifests
  PROVE  /\ Registering(m)[0] = <<>>
         /\ \A n \in 1..Entered(m) :
              Registering(m)[n] = AddEntry(Registering(m)[n - 1], m.entries[n])
         /\ \A n \in (Entered(m) + 1)..Listed(m) :
              Registering(m)[n] = AddPersona(Registering(m)[n - 1], m.personas[n - Entered(m)])
<1> DEFINE Step(g, n) ==
             IF n = 0 THEN <<>>
             ELSE IF n \in DOMAIN m.entries THEN AddEntry(g[n - 1], m.entries[n])
             ELSE AddPersona(g[n - 1], m.personas[n - Entered(m)])
           Is(g, k) == g = [n \in 0..k |-> Step(g, n)]
           Bad == {k \in Nat : ~\E g : Is(g, k)}
<1>1. ASSUME NEW k \in Nat \ {0}, NEW g, Is(g, k - 1) PROVE \E f : Is(f, k)
  <2> DEFINE f == [n \in 0..k |-> IF n = k THEN Step(g, k) ELSE g[n]]
  <2>1. \A n \in 0..(k - 1) : f[n] = g[n]
    OBVIOUS
  <2>2. ASSUME NEW n \in 0..k PROVE f[n] = Step(f, n)
    <3>1. n # 0 => f[n - 1] = g[n - 1]
      BY <2>1
    <3> HIDE DEF f
    <3>2. CASE n = k
      <4>1. f[n] = Step(g, n)
        BY <3>2 DEF f
      <4>2. n # 0
        BY <3>2
      <4> QED
        BY <3>1, <4>1, <4>2
    <3>3. CASE n # k
      <4>1. n \in 0..(k - 1)
        BY <3>3
      <4>2. g[n] = Step(g, n)
        BY <1>1, <4>1
      <4>3. CASE n = 0
        <5>1. Step(f, 0) = <<>> /\ Step(g, 0) = <<>>
          OBVIOUS
        <5> HIDE DEF Step
        <5> QED
          BY <2>1, <4>1, <4>2, <4>3, <5>1
      <4>4. CASE n # 0
        BY <2>1, <3>1, <4>1, <4>2, <4>4
      <4> QED
        BY <4>3, <4>4
    <3> QED
      BY <3>2, <3>3
  <2>3. f = [n \in 0..k |-> f[n]]
    OBVIOUS
  <2> HIDE DEF f, Step
  <2>4. Is(f, k)
    BY <2>2, <2>3
  <2> QED
    BY <2>4
<1>2. \E g : Is(g, 0)
  <2>1. Is([n \in 0..0 |-> <<>>], 0)
    <3>1. \A n \in 0..0 : n = 0
      OBVIOUS
    <3> QED
      BY <3>1
  <2> QED
    BY <2>1
<1>3. ASSUME Bad # {} PROVE FALSE
  <2> HIDE DEF Is
  <2>1. PICK k \in Bad : \A l \in Bad : k <= l
    <3>1. Bad \in SUBSET Nat
      OBVIOUS
    <3> HIDE DEF Bad
    <3> QED
      BY <1>3, <3>1, LeastOf
  <2>2. k # 0 /\ k - 1 \in Nat /\ k - 1 \notin Bad
    BY <1>2, <2>1
  <2> QED
    BY <1>1, <2>1, <2>2
<1>4. /\ Listed(m) \in Nat /\ Entered(m) \in Nat /\ DOMAIN m.entries = 1..Entered(m)
      /\ Posing(m) \in Nat /\ Listed(m) = Entered(m) + Posing(m)
  BY ManifestIs DEF Listed
<1>5. \E g : Is(g, Listed(m))
  BY <1>3, <1>4
<1> DEFINE r == Registering(m)
<1>6. Is(r, Listed(m))
  BY <1>5 DEF Registering, Listed, Entered, Posing
<1> HIDE DEF r
<1>7. \A n \in 0..Listed(m) : r[n] = Step(r, n)
  <2> HIDE DEF Step
  <2> QED
    BY <1>6
<1>8. r[0] = <<>>
  <2>1. 0 \in 0..Listed(m)
    BY <1>4
  <2>2. Step(r, 0) = <<>>
    OBVIOUS
  <2> HIDE DEF Step
  <2> QED
    BY <1>7, <2>1, <2>2
<1>9. ASSUME NEW n \in 1..Entered(m) PROVE r[n] = AddEntry(r[n - 1], m.entries[n])
  <2>1. n \in 0..Listed(m)
    <3> HIDE DEF Step
    <3> QED
      BY <1>4
  <2>2. n # 0 /\ n \in DOMAIN m.entries
    <3> HIDE DEF Step
    <3> QED
      BY <1>4
  <2>3. Step(r, n) = AddEntry(r[n - 1], m.entries[n])
    BY <2>2
  <2> HIDE DEF Step
  <2> QED
    BY <1>7, <2>1, <2>3
<1>10. ASSUME NEW n \in (Entered(m) + 1)..Listed(m)
       PROVE  r[n] = AddPersona(r[n - 1], m.personas[n - Entered(m)])
  <2>1. n \in 0..Listed(m)
    <3> HIDE DEF Step
    <3> QED
      BY <1>4
  <2>2. n # 0 /\ n \notin DOMAIN m.entries
    <3> HIDE DEF Step
    <3> QED
      BY <1>4
  <2>3. Step(r, n) = AddPersona(r[n - 1], m.personas[n - Entered(m)])
    BY <2>2
  <2> HIDE DEF Step
  <2> QED
    BY <1>7, <2>1, <2>3
<1> QED
  BY <1>8, <1>9, <1>10 DEF r

\* Sentences are numbered from one.
LEMMA TheText == Len(Chapter) \in Nat /\ Sentences = 1..Len(Chapter) /\ Sentences \subseteq Nat
<1>1. Chapter \in Seq(Nat)
  BY BuildConstants
<1> QED
  BY <1>1 DEF Sentences

\* A gate is a sentence.
LEMMA GateIs ==
  ASSUME NEW anchor \in Sentences, NEW names
  PROVE  Gate(anchor, names) \in Sentences /\ Gate(anchor, names) <= anchor
<1> DEFINE S == {anchor} \union {s \in Sentences : Text[s] \intersect names # {}}
<1>1. S \in SUBSET Sentences /\ S \in SUBSET Nat /\ S # {} /\ anchor \in S
  BY TheText
<1>2. Gate(anchor, names) = Min(S)
  BY DEF Gate
<1> HIDE DEF S
<1>3. Min(S) \in S /\ \A y \in S : Min(S) <= y
  BY <1>1, MinIs
<1> QED
  BY <1>1, <1>2, <1>3

\* The ids of a list of identities are finitely many.
LEMMA TakenIsFinite ==
  ASSUME NEW idents, IsList(idents)
  PROVE  /\ IsFiniteSet(TakenIn(idents))
         /\ TakenIn(idents) = {idents[k].id : k \in 1..Len(idents)}
<1> DEFINE ids == [k \in 1..Len(idents) |-> idents[k].id]
<1>1. Len(idents) \in Nat /\ DOMAIN idents = 1..Len(idents)
  BY DEF IsList
<1>2. IsList(ids) /\ Range(ids) = {ids[k] : k \in 1..Len(idents)}
  BY <1>1, Numbered
<1>3. IsFiniteSet(Range(ids))
  BY <1>2, ListIsFinite
<1>4. TakenIn(idents) = {idents[k].id : k \in 1..Len(idents)}
  BY <1>1 DEF TakenIn, Range
<1>5. Range(ids) = {idents[k].id : k \in 1..Len(idents)}
  BY <1>2
<1> QED
  BY <1>3, <1>4, <1>5

\* What an identity has of its manifest.
IdentOf(m, idents, k) ==
  /\ idents[k].type \in DOMAIN Namespace /\ idents[k].id[1] = Namespace[idents[k].type]
  /\ idents[k].gate \in Sentences
  /\ k <= Entered(m) => idents[k].entry = NoId /\ idents[k].reveal = 0
  /\ k > Entered(m) =>
       /\ k - Entered(m) \in 1..Posing(m) /\ m.personas[k - Entered(m)].of \in 1..Entered(m)
       /\ idents[k].entry = idents[m.personas[k - Entered(m)].of].id
       /\ idents[k].reveal = m.personas[k - Entered(m)].reveal

RegistryOf(m, idents, n) ==
  /\ IsList(idents) /\ Len(idents) = n
  /\ \A j, k \in 1..n : idents[j].id = idents[k].id => j = k
  /\ \A k \in 1..n : IdentOf(m, idents, k)

\* One identity more, under an id of its own.
LEMMA OneMore ==
  ASSUME NEW m \in Manifests, NEW n \in Nat, NEW idents, RegistryOf(m, idents, n), n < Listed(m),
         NEW x, x.id \notin TakenIn(idents), IdentOf(m, Append(idents, x), n + 1)
  PROVE  RegistryOf(m, Append(idents, x), n + 1)
<1> DEFINE a == Append(idents, x)
<1>1. /\ IsList(a) /\ Len(a) = n + 1 /\ Len(idents) = n
      /\ \A i \in 1..n : a[i] = idents[i]
      /\ a[n + 1] = x
  BY Appended DEF RegistryOf
<1>2. \A i \in 1..n : idents[i].id # x.id
  <2>1. TakenIn(idents) = {idents[k].id : k \in 1..n}
    BY <1>1, TakenIsFinite DEF RegistryOf
  <2> QED
    BY <2>1
<1> HIDE DEF a
<1>3. \A k \in 1..(n + 1) : k \in 1..n \/ k = n + 1
  OBVIOUS
<1>4. \A j, k \in 1..(n + 1) : a[j].id = a[k].id => j = k
  <2>1. \A j, k \in 1..n : a[j].id = a[k].id => j = k
    BY <1>1 DEF RegistryOf
  <2>2. \A j \in 1..n : a[j].id # a[n + 1].id
    BY <1>1, <1>2
  <2> QED
    BY <1>3, <2>1, <2>2
<1>5. ASSUME NEW k \in 1..(n + 1) PROVE IdentOf(m, a, k)
  <2>1. CASE k = n + 1
    BY <2>1 DEF a
  <2>2. CASE k # n + 1
    <3>1. k \in 1..n /\ a[k] = idents[k] /\ IdentOf(m, idents, k)
      BY <1>1, <1>3, <2>2 DEF RegistryOf
    <3>2. Entered(m) \in Nat
      BY ManifestIs
    <3>3. k > Entered(m) => /\ m.personas[k - Entered(m)].of \in 1..n
                            /\ a[m.personas[k - Entered(m)].of] = idents[m.personas[k - Entered(m)].of]
      <4>1. ASSUME k > Entered(m) PROVE m.personas[k - Entered(m)].of \in 1..n
        <5>1. m.personas[k - Entered(m)].of \in 1..Entered(m)
          BY <3>1, <4>1 DEF IdentOf
        <5> QED
          BY <3>1, <3>2, <4>1, <5>1
      <4> QED
        BY <1>1, <4>1
    <3> QED
      BY <3>1, <3>3 DEF IdentOf
  <2> QED
    BY <2>1, <2>2
<1> QED
  BY <1>1, <1>4, <1>5 DEF RegistryOf, a

\* The registry has an identity for each entry and each persona, each under an id of its own.
LEMMA RegistryIs ==
  ASSUME NEW m \in Manifests
  PROVE  RegistryOf(m, FromManifest(m), Listed(m))
<1> DEFINE r == Registering(m)
           N == Listed(m)
           E == Entered(m)
           Bad == {n \in 0..N : ~RegistryOf(m, r[n], n)}
<1>1. /\ E \in Nat /\ Posing(m) \in Nat /\ N \in Nat /\ N = E + Posing(m)
      /\ \A n \in 1..E : m.entries[n].type \in DOMAIN Namespace /\ m.entries[n].anchor \in Sentences
      /\ \A n \in 1..Posing(m) : /\ m.personas[n].of \in 1..E
                                 /\ m.personas[n].intro \in Sentences
                                 /\ m.personas[n].reveal \in Sentences
  BY ManifestIs DEF Listed
<1>2. /\ r[0] = <<>>
      /\ \A n \in 1..E : r[n] = AddEntry(r[n - 1], m.entries[n])
      /\ \A n \in (E + 1)..N : r[n] = AddPersona(r[n - 1], m.personas[n - E])
  BY RegisteringIs
<1>3. FromManifest(m) = r[N]
  BY DEF FromManifest, Listed, Entered, Posing
<1>4. E = Entered(m)
  OBVIOUS
<1> HIDE DEF r, E, N
<1>5. RegistryOf(m, r[0], 0)
  <2>1. IsList(<<>>) /\ Len(<<>>) = 0
    BY ListOf, EmptySeq
  <2> QED
    BY <1>2, <2>1 DEF RegistryOf
<1>6. ASSUME NEW n \in 0..(N - 1), RegistryOf(m, r[n], n) PROVE RegistryOf(m, r[n + 1], n + 1)
  <2> DEFINE s == r[n]
  <2>0. n \in Nat /\ n < Listed(m) /\ RegistryOf(m, s, n)
    BY <1>1, <1>6 DEF N
  <2> HIDE DEF s
  <2>1. IsList(s) /\ IsFiniteSet(TakenIn(s)) /\ Len(s) = n
    BY <2>0, TakenIsFinite DEF RegistryOf
  <2>2. CASE n < E
    <3> DEFINE e == m.entries[n + 1]
               x == [id |-> Mint(TakenIn(s), Namespace[e.type], e.names[1]), type |-> e.type,
                     names |-> e.names, gate |-> Gate(e.anchor, Range(e.names)),
                     fixture |-> e.fixture, entry |-> NoId, reveal |-> 0]
    <3>1. n + 1 \in 1..E /\ n = (n + 1) - 1
      BY <1>1, <2>0, <2>2
    <3>2. r[n + 1] = Append(s, x)
      BY <1>2, <3>1 DEF AddEntry, s
    <3>3. x.id \notin TakenIn(s) /\ x.id[1] = Namespace[x.type]
      BY <2>1, MintIsFree
    <3>4. x.type \in DOMAIN Namespace /\ x.gate \in Sentences /\ x.entry = NoId /\ x.reveal = 0
      BY <1>1, <3>1, GateIs
    <3> HIDE DEF x
    <3>5. Append(s, x)[n + 1] = x
      BY <2>1, Appended
    <3>6. n + 1 <= Entered(m) /\ ~(n + 1 > Entered(m))
      BY <1>1, <1>4, <3>1
    <3>7. IdentOf(m, Append(s, x), n + 1)
      BY <3>3, <3>4, <3>5, <3>6 DEF IdentOf
    <3> QED
      BY <2>0, <3>2, <3>3, <3>7, OneMore
  <2>3. CASE ~(n < E)
    <3> DEFINE p == m.personas[(n + 1) - E]
               x == [id |-> Mint(TakenIn(s), Namespace[s[p.of].type], p.name),
                     type |-> s[p.of].type, names |-> <<p.name>>,
                     gate |-> Gate(p.intro, {p.name}), fixture |-> FALSE,
                     entry |-> s[p.of].id, reveal |-> p.reveal]
    <3>1. n + 1 \in (E + 1)..N /\ n = (n + 1) - 1 /\ (n + 1) - E \in 1..Posing(m)
      BY <1>1, <2>0, <2>3
    <3>2. r[n + 1] = Append(s, x)
      BY <1>2, <3>1 DEF AddPersona, s
    <3>3. p.of \in 1..E /\ p.intro \in Sentences
      BY <1>1, <3>1
    <3>4. p.of \in 1..n
      BY <1>1, <2>0, <2>3, <3>3
    <3>5. s[p.of].type \in DOMAIN Namespace
      BY <2>0, <3>4 DEF RegistryOf, IdentOf
    <3>6. x.id \notin TakenIn(s) /\ x.id[1] = Namespace[x.type]
      BY <2>1, MintIsFree
    <3>7. x.gate \in Sentences /\ x.type = s[p.of].type /\ x.entry = s[p.of].id /\ x.reveal = p.reveal
      BY <3>3, GateIs
    <3> HIDE DEF x
    <3>8. Append(s, x)[n + 1] = x /\ Append(s, x)[p.of] = s[p.of]
      BY <2>1, <3>4, Appended
    <3>9. n + 1 > Entered(m) /\ ~(n + 1 <= Entered(m))
      BY <1>1, <1>4, <3>1
    <3>10. IdentOf(m, Append(s, x), n + 1)
      BY <1>4, <3>1, <3>3, <3>5, <3>6, <3>7, <3>8, <3>9 DEF IdentOf
    <3> QED
      BY <2>0, <3>2, <3>6, <3>10, OneMore
  <2> QED
    BY <2>2, <2>3
<1>7. ASSUME Bad # {} PROVE FALSE
  <2>1. PICK n \in Bad : \A k \in Bad : n <= k
    <3>1. Bad \in SUBSET Nat
      OBVIOUS
    <3> HIDE DEF Bad
    <3> QED
      BY <1>7, <3>1, LeastOf
  <2>2. n # 0
    BY <1>5, <2>1
  <2>3. n - 1 \in 0..(N - 1) /\ (n - 1) + 1 = n /\ n - 1 \in 0..N /\ n - 1 \notin Bad
    BY <1>1, <2>1, <2>2
  <2>4. RegistryOf(m, r[n - 1], n - 1)
    BY <2>3
  <2> QED
    BY <1>6, <2>1, <2>3, <2>4
<1>8. N \in 0..N
  BY <1>1
<1>9. RegistryOf(m, r[N], N)
  BY <1>7, <1>8
<1> QED
  BY <1>3, <1>9 DEF N

\* A finite set of numbers in order.
LEMMA InOrderIs ==
  ASSUME NEW S \in SUBSET Int, IsFiniteSet(S)
  PROVE  /\ IsList(InOrder(S)) /\ Len(InOrder(S)) = Cardinality(S) /\ Cardinality(S) \in Nat
         /\ DOMAIN InOrder(S) = 1..Cardinality(S)
         /\ Range(InOrder(S)) = S /\ \A i \in 1..Cardinality(S) : InOrder(S)[i] \in S
         /\ \A x \in S : \E i \in 1..Cardinality(S) : InOrder(S)[i] = x
         /\ \A i, j \in 1..Cardinality(S) : i < j => InOrder(S)[i] < InOrder(S)[j]
<1> DEFINE rank == [x \in S |-> x]
           r == Ranked(S, rank)
<1>1. r = InOrder(S)
  BY DEF InOrder
<1>2. \A x \in S : rank[x] = x /\ rank[x] \in Int
  OBVIOUS
<1>3. \A x, y \in S : rank[x] = rank[y] => x = y
  BY <1>2
<1> HIDE DEF rank
<1>4. /\ IsList(r) /\ Len(r) = Cardinality(S) /\ Cardinality(S) \in Nat /\ Range(r) = S
      /\ \A i, j \in 1..Cardinality(S) : i < j => rank[r[i]] < rank[r[j]]
  BY <1>2, <1>3, RankedIs
<1> HIDE DEF r
<1>5. DOMAIN r = 1..Cardinality(S)
  BY <1>4 DEF IsList
<1>6. /\ \A i \in 1..Cardinality(S) : r[i] \in S
      /\ \A x \in S : \E i \in 1..Cardinality(S) : r[i] = x
  BY <1>4, <1>5 DEF Range
<1>7. \A i, j \in 1..Cardinality(S) : i < j => r[i] < r[j]
  BY <1>2, <1>4, <1>6
<1> QED
  BY <1>1, <1>4, <1>5, <1>6, <1>7

-----------------------------------------------------------------------------
(* The plan.                                                               *)

PlanOf(idents, chunks) ==
  /\ IsList(chunks) /\ Len(chunks) \in Nat /\ DOMAIN chunks = 1..Len(chunks)
  /\ \A k \in 1..Len(chunks) : /\ chunks[k].first \in Sentences /\ chunks[k].last \in Sentences
                               /\ chunks[k].first <= chunks[k].last
  /\ \A j, k \in 1..Len(chunks) : j < k => chunks[j].last < chunks[k].first
  /\ \A i \in Range(idents) : i.reveal # 0 => \E k \in 1..Len(chunks) : chunks[k].first = i.reveal

\* Chunks follow one another through the text, and a reveal opens one.
LEMMA PlanIs ==
  ASSUME NEW idents, \A i \in Range(idents) : i.reveal \in Sentences \union {0}
  PROVE  PlanOf(idents, PlanFrom(idents))
<1> DEFINE S == Breaks \union ({i.reveal : i \in Range(idents)} \ {0})
           starts == InOrder(S)
           n == Cardinality(S)
           T == Len(Chapter)
           c == PlanFrom(idents)
<1>1. S \in SUBSET Sentences /\ S \in SUBSET Int /\ S \in SUBSET (1..T) /\ T \in Nat
  <2>1. Breaks \subseteq Sentences /\ Sentences \subseteq Int /\ Sentences = 1..T /\ T \in Nat
    BY BuildConstants, TheText
  <2>2. S \subseteq Sentences
    <3>1. \A i \in Range(idents) : i.reveal # 0 => i.reveal \in Sentences
      OBVIOUS
    <3> QED
      BY <2>1, <3>1
  <2> HIDE DEF S, T
  <2> QED
    BY <2>1, <2>2
<1>2. IsFiniteSet(S)
  <2> HIDE DEF S, T
  <2>1. IsFiniteSet(1..T)
    BY <1>1, FS_Interval
  <2> QED
    BY <1>1, <2>1, FS_Subset
<1>3. \A i \in Range(idents) : i.reveal # 0 => i.reveal \in S
  OBVIOUS
<1>4. c = [k \in DOMAIN starts |->
             [first |-> starts[k],
              last |-> IF k = Len(starts) THEN T ELSE starts[k + 1] - 1]]
  BY DEF PlanFrom
<1> HIDE DEF S, c
<1>5. /\ IsList(starts) /\ Len(starts) = n /\ n \in Nat /\ DOMAIN starts = 1..n
      /\ \A i \in 1..n : starts[i] \in S
      /\ \A x \in S : \E i \in 1..n : starts[i] = x
      /\ \A i, j \in 1..n : i < j => starts[i] < starts[j]
  BY <1>1, <1>2, InOrderIs
<1> HIDE DEF starts, n, T
<1>6. \A k \in 1..n : /\ c[k].first = starts[k]
                      /\ c[k].last = IF k = n THEN T ELSE starts[k + 1] - 1
  BY <1>4, <1>5
<1>7. IsList(c) /\ Len(c) = n /\ DOMAIN c = 1..n
  <2>1. c = [k \in 1..n |-> c[k]]
    BY <1>4, <1>5
  <2> QED
    BY <1>5, <2>1, Numbered
<1>8. \A k \in 1..n : starts[k] \in 1..T
  BY <1>1, <1>5
<1>9. ASSUME NEW k \in 1..n PROVE c[k].last \in 1..T /\ c[k].first <= c[k].last
  <2>1. CASE k = n
    BY <1>1, <1>6, <1>8, <2>1
  <2>2. CASE k # n
    <3>1. k + 1 \in 1..n /\ k < k + 1
      BY <1>5, <2>2
    <3>2. starts[k] < starts[k + 1] /\ starts[k] \in 1..T /\ starts[k + 1] \in 1..T
      BY <1>5, <1>8, <3>1
    <3>3. c[k].first = starts[k] /\ c[k].last = starts[k + 1] - 1
      BY <1>6, <2>2
    <3> QED
      BY <1>1, <3>2, <3>3
  <2> QED
    BY <2>1, <2>2
<1>10. ASSUME NEW j \in 1..n, NEW k \in 1..n, j < k PROVE c[j].last < c[k].first
  <2>1. j + 1 \in 1..n /\ j # n /\ (j + 1 = k \/ j + 1 < k)
    BY <1>5, <1>10
  <2>2. starts[j + 1] \in 1..T /\ starts[k] \in 1..T /\ (starts[j + 1] = starts[k] \/ starts[j + 1] < starts[k])
    BY <1>5, <1>8, <2>1
  <2>3. c[j].last = starts[j + 1] - 1 /\ c[k].first = starts[k]
    BY <1>6, <2>1
  <2> QED
    BY <2>2, <2>3
<1>11. Sentences = 1..T
  BY TheText DEF T
<1>12. ASSUME NEW i \in Range(idents), i.reveal # 0 PROVE \E k \in 1..n : c[k].first = i.reveal
  <2>1. i.reveal \in S
    BY <1>3, <1>12
  <2>2. PICK k \in 1..n : starts[k] = i.reveal
    BY <1>5, <2>1
  <2> QED
    BY <1>6, <2>2
<1> QED
  BY <1>5, <1>6, <1>7, <1>8, <1>9, <1>10, <1>11, <1>12 DEF PlanOf, c

-----------------------------------------------------------------------------
(* The book as it is from the first state on, and what extraction gives.   *)

BookIs ==
  /\ manifest \in Manifests /\ ~Problematic(manifest)
  /\ registry = FromManifest(manifest) /\ plan = PlanFrom(registry)

ReadAs(k, r) == r = Failed \/ \E out \in Answers[plan[k].first] : r = ReadOutput(plan[k], out)
ResultsAre == DOMAIN results \subseteq DOMAIN plan /\ \A k \in DOMAIN results : ReadAs(k, results[k])

\* What the book has in any state.
LEMMA BookHas ==
  ASSUME BookIs
  PROVE  /\ RegistryOf(manifest, registry, Listed(manifest)) /\ PlanOf(registry, plan)
         /\ DOMAIN registry = 1..Listed(manifest) /\ Listed(manifest) \in Nat
         /\ Entered(manifest) \in Nat /\ Posing(manifest) \in Nat
         /\ Listed(manifest) = Entered(manifest) + Posing(manifest)
         /\ IsFiniteSet(manifest.namesakes)
<1>1. /\ Entered(manifest) \in Nat /\ Posing(manifest) \in Nat /\ Listed(manifest) \in Nat
      /\ Listed(manifest) = Entered(manifest) + Posing(manifest)
      /\ \A n \in 1..Posing(manifest) : manifest.personas[n].reveal \in Sentences
      /\ IsFiniteSet(manifest.namesakes)
  BY ManifestIs DEF BookIs, Listed
<1>2. RegistryOf(manifest, registry, Listed(manifest))
  BY RegistryIs DEF BookIs
<1>3. DOMAIN registry = 1..Listed(manifest)
  BY <1>2 DEF RegistryOf, IsList
<1>4. ASSUME NEW i \in Range(registry) PROVE i.reveal \in Sentences \union {0}
  <2>1. PICK k \in 1..Listed(manifest) : i = registry[k]
    BY <1>3 DEF Range
  <2>2. IdentOf(manifest, registry, k)
    BY <1>2 DEF RegistryOf
  <2>3. k <= Entered(manifest) \/ k > Entered(manifest)
    BY <1>1
  <2> QED
    BY <1>1, <2>1, <2>2, <2>3 DEF IdentOf
<1>5. PlanOf(registry, plan)
  BY <1>4, PlanIs DEF BookIs
<1> QED
  BY <1>1, <1>2, <1>3, <1>5

\* A reading turns on the registry and the plan alone.
LEMMA ReadingStays ==
  ASSUME UNCHANGED <<registry, plan>>
  PROVE  \A k, out : ReadOutput(plan[k], out)' = ReadOutput(plan[k], out)
<1> SUFFICES ASSUME NEW k, NEW out PROVE ReadOutput(plan[k], out)' = ReadOutput(plan[k], out)
  OBVIOUS
<1> QED
  BY DEF ReadOutput, PickStands, LineStands, Candidates, LocalGate, SourceStands, Ident, Idents,
         Minted

\* No chunk has ended at first.
LEMMA BookInit == ASSUME Init PROVE BookIs /\ ResultsAre
<1>1. BookIs
  BY DEF Init, BookIs
<1>2. DOMAIN results = {}
  BY DEF Init
<1> QED
  BY <1>1, <1>2 DEF ResultsAre

\* The book changes by what extraction gives, and by nothing else.
LEMMA BookStep ==
  ASSUME BookIs, ResultsAre, [Next]_vars
  PROVE  BookIs' /\ ResultsAre' /\ UNCHANGED <<manifest, registry, plan>>
<1>1. UNCHANGED <<manifest, registry, plan>> /\
        (\/ UNCHANGED results
         \/ \E k \in DOMAIN plan : \E r : ReadAs(k, r) /\ End(k, r))
  <2>1. CASE UNCHANGED vars
    BY <2>1 DEF vars, book
  <2>2. ASSUME NEW k \in DOMAIN plan, CallFails(k)
        PROVE  UNCHANGED <<manifest, registry, plan>> /\ ReadAs(k, Failed) /\ End(k, Failed)
    BY <2>2 DEF CallFails, End, ReadAs
  <2>3. ASSUME NEW k \in DOMAIN plan, NEW out \in Answers[plan[k].first], Answer(k, out)
        PROVE  UNCHANGED <<manifest, registry, plan>> /\
                 (UNCHANGED results \/ \E r : ReadAs(k, r) /\ End(k, r))
    <3> DEFINE r == ReadOutput(plan[k], out)
    <3>1. ReadAs(k, r)
      BY DEF ReadAs
    <3> HIDE DEF r
    <3>2. UNCHANGED <<manifest, registry, plan>> /\ (UNCHANGED results \/ End(k, r))
      BY <2>3 DEF Answer, End, r
    <3> QED
      BY <3>1, <3>2
  <2>4. ASSUME \/ \E p \in Policies \union {NoPolicy} : Open(p)
               \/ Found \/ Crash \/ Close \/ BeginBuild \/ AbortBuild
               \/ \E scope \in {"session", "all"} : SealBuild(scope) \/ SealRaises(scope)
               \/ \E S \in SUBSET DOMAIN plan : Commit(S)
               \/ WriteRow \/ Judge
        PROVE  UNCHANGED book
    BY <2>4 DEF Open, Found, Crash, Close, Down, BeginBuild, AbortBuild, SealBuild, SealRaises,
                EndSession, Commit, WriteRow, Judge
  <2> QED
    BY <2>1, <2>2, <2>3, <2>4 DEF Next, book
<1>2. BookIs'
  BY <1>1 DEF BookIs
<1>3. ASSUME UNCHANGED results PROVE ResultsAre'
  <2>1. DOMAIN results' \subseteq DOMAIN plan'
    BY <1>1, <1>3 DEF ResultsAre
  <2>2. ASSUME NEW k \in DOMAIN results PROVE ReadAs(k, results[k])
    BY DEF ResultsAre
  <2> QED
    BY <1>1, <1>3, <2>1, <2>2, ReadingStays DEF ResultsAre, ReadAs
<1>4. ASSUME NEW k \in DOMAIN plan, NEW r, ReadAs(k, r), End(k, r) PROVE ResultsAre'
  <2>1. results' = [j \in {k} \union DOMAIN results |-> IF j = k THEN r ELSE results[j]]
    BY <1>4 DEF End
  <2>2. DOMAIN results' = {k} \union DOMAIN results
    BY <2>1
  <2>3. ASSUME NEW j \in DOMAIN results' PROVE ReadAs(j, results'[j])
    <3>1. CASE j = k
      <4>1. results'[j] = r
        BY <2>1, <3>1
      <4> QED
        BY <1>4, <3>1, <4>1
    <3>2. CASE j # k
      <4>1. j \in DOMAIN results /\ results'[j] = results[j]
        BY <2>1, <2>2, <3>2
      <4> QED
        BY <4>1 DEF ResultsAre
    <3> QED
      BY <3>1, <3>2
  <2> QED
    BY <1>1, <2>2, <2>3, ReadingStays DEF ResultsAre, ReadAs
<1> QED
  BY <1>1, <1>2, <1>3, <1>4

\* A result holds lines and declarations of an answer.
LEMMA ResultHas ==
  ASSUME BookIs, ResultsAre, NEW k \in DOMAIN results
  PROVE  /\ IsFiniteSet(results[k].items) /\ IsFiniteSet(results[k].decls)
         /\ \A d \in results[k].decls : d.handle[3] \in Nat /\ d.handle = <<"new", "", d.handle[3]>>
         /\ \A l \in results[k].items : l.source = NoId \/ l.source[1] \in {"new", "person", "doc"}
         /\ k \in 1..Len(plan)
<1>1. k \in 1..Len(plan) /\ plan[k].first \in Sentences
  BY BookHas DEF ResultsAre, PlanOf
<1>2. ReadAs(k, results[k])
  BY DEF ResultsAre
<1>3. CASE results[k] = Failed
  BY <1>1, <1>3, FS_EmptySet DEF Failed
<1>4. ASSUME results[k] # Failed,
             NEW out \in Answers[plan[k].first], results[k] = ReadOutput(plan[k], out)
      PROVE  /\ IsFiniteSet(results[k].items) /\ IsFiniteSet(results[k].decls)
             /\ results[k].items \subseteq out.lines /\ results[k].decls \subseteq out.decls
  <2>1. IsFiniteSet(out.lines) /\ IsFiniteSet(out.decls)
    BY <1>1, AnswersAreFormed
  <2>2. results[k].items \subseteq out.lines /\ results[k].decls \subseteq out.decls
    BY <1>4 DEF ReadOutput, Keep
  <2> QED
    BY <2>1, <2>2, FS_Subset
<1>5. ASSUME NEW out \in Answers[plan[k].first]
      PROVE  /\ \A d \in out.decls : d.handle[3] \in Nat /\ d.handle = <<"new", "", d.handle[3]>>
             /\ \A l \in out.lines : l.source = NoId \/ l.source[1] \in {"new", "person", "doc"}
  BY <1>1, AnswersAreFormed
<1> QED
  BY <1>1, <1>2, <1>3, <1>4, <1>5 DEF ReadAs

-----------------------------------------------------------------------------
(* What a commit declares, and the allocator's walk over it.               *)

\* The chunks of a commit, each with what extraction kept of it.
Chunks(S) ==
  /\ S \in SUBSET (1..Len(plan)) /\ Len(plan) \in Nat /\ IsFiniteSet(S)
  /\ \A k \in S : /\ IsFiniteSet(results[k].decls) /\ ~Twice(results[k].decls)
                  /\ \A d \in results[k].decls :
                       d.handle[3] \in Nat /\ d.handle = <<"new", "", d.handle[3]>>
                  /\ IsFiniteSet(results[k].items)

\* What a commit accepts is fit to be told.
LEMMA ChunksAre ==
  ASSUME BookIs, ResultsAre, NEW S \in SUBSET DOMAIN plan, DOMAIN results = DOMAIN plan, Accepted(S)
  PROVE  Chunks(S)
<1>1. DOMAIN plan = 1..Len(plan) /\ Len(plan) \in Nat
  BY BookHas DEF PlanOf
<1>2. IsFiniteSet(S)
  <2>1. IsFiniteSet(1..Len(plan))
    BY <1>1, FS_Interval
  <2> QED
    BY <1>1, <2>1, FS_Subset
<1>3. ASSUME NEW k \in S
      PROVE  /\ IsFiniteSet(results[k].decls) /\ ~Twice(results[k].decls)
             /\ \A d \in results[k].decls :
                  d.handle[3] \in Nat /\ d.handle = <<"new", "", d.handle[3]>>
             /\ IsFiniteSet(results[k].items)
  BY ResultHas DEF Accepted, ResultAccepted
<1> QED
  BY <1>1, <1>2, <1>3 DEF Chunks

\* The declarations of a chunk, by their handles' numbers.
LEMMA DeclaredInIs ==
  ASSUME NEW S, Chunks(S), NEW k \in S
  PROVE  /\ IsList(DeclaredIn(k))
         /\ Range(DeclaredIn(k)) = {[chunk |-> k, of |-> d] : d \in results[k].decls}
<1> DEFINE T == results[k].decls
           rank == [d \in T |-> d.handle[3]]
           r == Ranked(T, rank)
<1>1. IsFiniteSet(T) /\ \A d \in T : rank[d] = d.handle[3] /\ rank[d] \in Int
  <2>1. IsFiniteSet(T) /\ \A d \in T : d.handle[3] \in Nat
    BY DEF Chunks
  <2> HIDE DEF T
  <2>2. \A d \in T : rank[d] = d.handle[3]
    OBVIOUS
  <2> HIDE DEF rank
  <2> QED
    BY <2>1, <2>2
<1>2. \A d, e \in T : rank[d] = rank[e] => d = e
  <2>1. \A d, e \in T : d.handle = e.handle => d = e
    BY DEF Chunks, Twice
  <2>2. \A d \in T : d.handle = <<"new", "", rank[d]>>
    BY <1>1 DEF Chunks
  <2> HIDE DEF T, rank
  <2>3. ASSUME NEW d \in T, NEW e \in T, rank[d] = rank[e] PROVE d = e
    <3>1. d.handle = <<"new", "", rank[d]>> /\ e.handle = <<"new", "", rank[e]>>
      BY <2>2
    <3>2. d.handle = e.handle
      BY <2>3, <3>1
    <3> QED
      BY <2>1, <3>2
  <2> QED
    BY <2>3
<1>3. DeclaredIn(k) = [n \in DOMAIN r |-> [chunk |-> k, of |-> r[n]]]
  BY DEF DeclaredIn
<1> HIDE DEF T, rank
<1>4. IsList(r) /\ Range(r) = T
  BY <1>1, <1>2, RankedIs
<1> HIDE DEF r
<1> DEFINE n == Len(r)
           f == DeclaredIn(k)
<1>5. n \in Nat /\ DOMAIN r = 1..n
  BY <1>4 DEF IsList
<1>6. f = [i \in 1..n |-> f[i]] /\ \A i \in 1..n : f[i] = [chunk |-> k, of |-> r[i]]
  BY <1>3, <1>5
<1> HIDE DEF f, n
<1>7. IsList(f) /\ Range(f) = {f[i] : i \in 1..n}
  BY <1>5, <1>6, Numbered
<1>8. Range(f) = {[chunk |-> k, of |-> d] : d \in T}
  BY <1>4, <1>5, <1>6, <1>7 DEF Range
<1> QED
  BY <1>7, <1>8 DEF f, T

\* Every declaration of the chunks committed is declared, chunk after chunk.
LEMMA DeclaredIs ==
  ASSUME NEW S, Chunks(S)
  PROVE  /\ IsList(Declared(S)) /\ DOMAIN Declared(S) = 1..Len(Declared(S))
         /\ Len(Declared(S)) \in Nat
         /\ \A k \in S : \A d \in results[k].decls :
              \E i \in 1..Len(Declared(S)) : Declared(S)[i] = [chunk |-> k, of |-> d]
         /\ \A i \in 1..Len(Declared(S)) :
              /\ Declared(S)[i].chunk \in S
              /\ Declared(S)[i].of \in results[Declared(S)[i].chunk].decls
         /\ \A i, j \in 1..Len(Declared(S)) : i < j => Declared(S)[i].chunk <= Declared(S)[j].chunk
<1> DEFINE n == Cardinality(S)
           s == InOrder(S)
           b == [i \in 1..n |-> DeclaredIn(s[i])]
           D == Declared(S)
<1>1. S \in SUBSET Int /\ IsFiniteSet(S)
  <2>1. S \in SUBSET (1..Len(plan)) /\ Len(plan) \in Nat /\ IsFiniteSet(S)
    BY DEF Chunks
  <2> QED
    BY <2>1
<1>2. /\ n \in Nat /\ \A i \in 1..n : s[i] \in S
      /\ \A x \in S : \E i \in 1..n : s[i] = x
      /\ \A i, j \in 1..n : i < j => s[i] < s[j]
  BY <1>1, InOrderIs
<1>3. D = FlattenSeq(b)
  BY DEF Declared
<1> HIDE DEF s, n, D
<1>4. \A i \in 1..n : b[i] = DeclaredIn(s[i])
  OBVIOUS
<1>5. b = [i \in 1..n |-> b[i]]
  OBVIOUS
<1> HIDE DEF b
<1>6. IsList(b) /\ Len(b) = n
  BY <1>2, <1>5, Numbered
<1>7. ASSUME NEW i \in 1..n
      PROVE  /\ IsList(b[i])
             /\ Range(b[i]) = {[chunk |-> s[i], of |-> d] : d \in results[s[i]].decls}
  BY <1>2, <1>4, DeclaredInIs
<1>8. IsList(D) /\ \A x : x \in Range(D) <=> \E i \in 1..n : x \in Range(b[i])
  BY <1>3, <1>6, <1>7, FlatHolds
<1>9. DOMAIN D = 1..Len(D) /\ Len(D) \in Nat
  BY <1>8 DEF IsList
<1>10. ASSUME NEW k \in S, NEW d \in results[k].decls
       PROVE  \E i \in 1..Len(D) : D[i] = [chunk |-> k, of |-> d]
  <2>1. PICK i \in 1..n : s[i] = k
    BY <1>2
  <2>2. [chunk |-> k, of |-> d] \in Range(b[i])
    BY <1>7, <2>1
  <2>3. [chunk |-> k, of |-> d] \in Range(D)
    BY <1>8, <2>2
  <2> QED
    BY <1>9, <2>3 DEF Range
<1>11. PICK off : Laid(D, b, off)
  BY <1>3, <1>6, <1>7, Flattened
<1>12. ASSUME NEW p \in 1..Len(D)
       PROVE  \E i \in 1..n : \E q \in 1..Len(b[i]) : /\ p = off[i - 1] + q /\ D[p] = b[i][q]
                                                      /\ b[i][q] \in Range(b[i])
  <2>1. PICK i \in 1..n : \E q \in 1..Len(b[i]) : p = off[i - 1] + q
    BY <1>6, <1>11 DEF Laid
  <2>2. PICK q \in 1..Len(b[i]) : p = off[i - 1] + q
    BY <2>1
  <2>3. D[p] = b[i][q]
    BY <1>6, <1>11, <2>2 DEF Laid
  <2>4. b[i][q] \in Range(b[i])
    BY <1>7 DEF IsList, Range
  <2> QED
    BY <2>2, <2>3, <2>4
<1>13. ASSUME NEW p \in 1..Len(D)
       PROVE  \E i \in 1..n : \E q \in 1..Len(b[i]) : \E d \in results[s[i]].decls :
                p = off[i - 1] + q /\ D[p] = [chunk |-> s[i], of |-> d]
  <2>0. PICK i \in 1..n : \E q \in 1..Len(b[i]) : p = off[i - 1] + q /\ D[p] \in Range(b[i])
    BY <1>12
  <2>1. PICK q \in 1..Len(b[i]) : p = off[i - 1] + q /\ D[p] \in Range(b[i])
    BY <2>0
  <2>2. PICK d \in results[s[i]].decls : D[p] = [chunk |-> s[i], of |-> d]
    BY <1>7, <2>1
  <2> QED
    BY <2>1, <2>2
<1>14. ASSUME NEW p \in 1..Len(D) PROVE D[p].chunk \in S /\ D[p].of \in results[D[p].chunk].decls
  <2>1. PICK i \in 1..n : \E d \in results[s[i]].decls : D[p] = [chunk |-> s[i], of |-> d]
    BY <1>13
  <2>2. PICK d \in results[s[i]].decls : D[p] = [chunk |-> s[i], of |-> d]
    BY <2>1
  <2>3. D[p].chunk = s[i] /\ D[p].of = d
    BY <2>2
  <2> QED
    BY <1>2, <2>2, <2>3
<1>15. ASSUME NEW p \in 1..Len(D), NEW r \in 1..Len(D), p < r PROVE D[p].chunk <= D[r].chunk
  <2>a. ASSUME NEW u \in 1..Len(D)
        PROVE  \E i \in 1..n : \E q \in 1..Len(b[i]) : u = off[i - 1] + q /\ D[u].chunk = s[i]
    <3>1. PICK i \in 1..n : \E q \in 1..Len(b[i]) : \E d \in results[s[i]].decls :
                u = off[i - 1] + q /\ D[u] = [chunk |-> s[i], of |-> d]
      BY <1>13
    <3>2. PICK q \in 1..Len(b[i]) : \E d \in results[s[i]].decls :
                u = off[i - 1] + q /\ D[u] = [chunk |-> s[i], of |-> d]
      BY <3>1
    <3>3. D[u].chunk = s[i]
      BY <3>2
    <3> QED
      BY <3>2, <3>3
  <2>b. PICK i \in 1..n : \E q \in 1..Len(b[i]) : p = off[i - 1] + q /\ D[p].chunk = s[i]
    BY <2>a
  <2>1. PICK q \in 1..Len(b[i]) : p = off[i - 1] + q /\ D[p].chunk = s[i]
    BY <2>b
  <2>c. PICK j \in 1..n : \E t \in 1..Len(b[j]) : r = off[j - 1] + t /\ D[r].chunk = s[j]
    BY <2>a
  <2>2. PICK t \in 1..Len(b[j]) : r = off[j - 1] + t /\ D[r].chunk = s[j]
    BY <2>c
  <2>3. ~(j < i)
    <3> SUFFICES ASSUME j < i PROVE FALSE
      OBVIOUS
    <3>1. j \in 0..n /\ i - 1 \in 0..n /\ j <= i - 1 /\ j - 1 \in 0..n
      BY <1>2
    <3>2. /\ off[j] = off[j - 1] + Len(b[j]) /\ off[j] <= off[i - 1]
          /\ off[j] \in Nat /\ off[j - 1] \in Nat /\ off[i - 1] \in Nat
      BY <1>6, <1>11, <3>1 DEF Laid
    <3>3. Len(b[j]) \in Nat /\ Len(b[i]) \in Nat
      BY <1>7 DEF IsList
    <3>4. p > off[i - 1]
      <4>1. q \in Nat /\ q >= 1
        BY <3>3
      <4> QED
        BY <2>1, <3>2, <4>1
    <3>5. r <= off[j]
      <4>1. t \in Nat /\ t <= Len(b[j])
        BY <3>3
      <4> QED
        BY <2>2, <3>2, <3>3, <4>1
    <3> QED
      BY <1>9, <1>15, <3>2, <3>4, <3>5
  <2>4. s[i] \in Int /\ s[j] \in Int
    BY <1>1, <1>2
  <2>5. i = j \/ i < j
    BY <1>2, <2>3
  <2>6. s[i] <= s[j]
    BY <1>2, <2>4, <2>5
  <2> QED
    BY <2>1, <2>2, <2>6
<1> QED
  BY <1>8, <1>9, <1>10, <1>14, <1>15 DEF D

-----------------------------------------------------------------------------
(* Extraction and commit say the same of a line.                           *)

\* An identity is who its id says, and gated at a sentence.
LEMMA IdentIs ==
  ASSUME BookIs
  PROVE  /\ \A i \in Idents : i.gate \in Sentences /\ i.id \in Minted
         /\ \A i, j \in Idents : i.id = j.id => i = j
         /\ \A x \in Minted : Ident(x) \in Idents /\ Ident(x).id = x
         /\ \A i \in Idents : Ident(i.id) = i
<1> DEFINE N == Listed(manifest)
<1>1. RegistryOf(manifest, registry, N) /\ DOMAIN registry = 1..N
  BY BookHas
<1> HIDE DEF N
<1>2. \A i \in Idents : \E k \in 1..N : i = registry[k]
  BY <1>1 DEF Idents, Range
<1>3. \A i \in Idents : i.gate \in Sentences
  BY <1>1, <1>2 DEF RegistryOf, IdentOf
<1>4. \A i, j \in Idents : i.id = j.id => i = j
  <2>1. \A j, k \in 1..N : registry[j].id = registry[k].id => j = k
    BY <1>1 DEF RegistryOf
  <2> QED
    BY <1>2, <2>1
<1>5. \A i \in Idents : i.id \in Minted
  BY DEF Minted
<1>6. ASSUME NEW x \in Minted PROVE Ident(x) \in Idents /\ Ident(x).id = x
  <2>1. \E i \in Idents : i.id = x
    BY DEF Minted
  <2> QED
    BY <2>1 DEF Ident
<1> QED
  BY <1>3, <1>4, <1>5, <1>6

\* A chunk lies within the text.
LEMMA ChunkIs ==
  ASSUME BookIs, NEW k \in DOMAIN plan
  PROVE  /\ plan[k].first \in Nat /\ plan[k].last \in Nat /\ plan[k].first <= plan[k].last
         /\ plan[k].first \in Sentences /\ plan[k].last \in Sentences /\ k \in Nat
<1>1. k \in 1..Len(plan) /\ PlanOf(registry, plan)
  BY BookHas DEF PlanOf
<1>2. Sentences \subseteq Nat
  BY TheText
<1>3. k \in Nat
  BY <1>1 DEF PlanOf
<1> QED
  BY <1>1, <1>2, <1>3 DEF PlanOf

\* Extraction's check of a line, in the chunk's numbers, is commit's, in the book's, but
\* for what the world takes for a fixture.
LEMMA SameVerdict ==
  ASSUME BookIs, NEW k \in DOMAIN plan, NEW l
  PROVE  ItemAccepted(plan[k], l) <=> LineStands(plan[k], l) /\ l.attribute \notin Fixtures
<1> DEFINE c == plan[k]
<1>1. c.first \in Nat /\ c.last \in Nat /\ c.first <= c.last
  BY ChunkIs
<1> HIDE DEF c
<1>2. Sentences \subseteq Nat
  BY TheText
<1>3. ASSUME NEW x, l.cites \in 1..Size(c)
      PROVE  x \in {i.id : i \in Candidates(c)} /\ l.cites >= LocalGate(c, x)
               <=> x \in Minted /\ Ident(x).gate <= Absolute(c, l)
  <2> DEFINE g == Ident(x).gate
  <2>1. l.cites \in Int /\ 1 <= l.cites /\ l.cites <= c.last - c.first + 1
    BY <1>1, <1>3 DEF Size
  <2>2. CASE x \in Minted
    <3>1. g \in Nat /\ Ident(x) \in Idents /\ Ident(x).id = x
      BY <1>2, <2>2, IdentIs
    <3>2. \A i \in Idents : i.id = x => i = Ident(x)
      BY <3>1, IdentIs
    <3>3. x \in {i.id : i \in Candidates(c)} <=> g <= c.last
      BY <3>1, <3>2 DEF Candidates
    <3> HIDE DEF g
    <3>4. l.cites >= Max({1, g - c.first + 1}) <=> l.cites >= g - c.first + 1
      <4> DEFINE a == g - c.first + 1
                 S == {1, a}
      <4>1. a \in Int
        BY <1>1, <3>1
      <4>2. Max(S) = CHOOSE y \in S : \A z \in S : y >= z
        BY DEF Max
      <4>3. \E y \in S : \A z \in S : y >= z
        <5>1. 1 >= 1 /\ a >= a /\ (1 >= a \/ a >= 1)
          BY <4>1
        <5> HIDE DEF a
        <5> QED
          BY <5>1
      <4> HIDE DEF S
      <4>4. Max(S) \in S /\ \A z \in S : Max(S) >= z
        BY <4>2, <4>3
      <4>5. l.cites >= Max(S) <=> l.cites >= a
        <5> HIDE DEF a
        <5>1. (Max(S) = 1 \/ Max(S) = a) /\ Max(S) >= a /\ Max(S) >= 1
          BY <4>4 DEF S
        <5>2. CASE Max(S) = 1
          BY <2>1, <4>1, <5>1, <5>2
        <5>3. CASE Max(S) = a
          BY <5>3
        <5> QED
          BY <5>1, <5>2, <5>3
      <4> QED
        BY <4>5 DEF S
    <3>5. LocalGate(c, x) = Max({1, g - c.first + 1})
      BY DEF LocalGate, g
    <3>6. Absolute(c, l) = c.first + l.cites - 1
      BY DEF Absolute
    <3>7. g <= c.last /\ l.cites >= g - c.first + 1 <=> g <= c.first + l.cites - 1
      BY <1>1, <2>1, <3>1
    <3> QED
      BY <2>2, <3>3, <3>4, <3>5, <3>6, <3>7 DEF g
  <2>3. CASE x \notin Minted
    BY <2>3, IdentIs DEF Candidates
  <2> QED
    BY <2>2, <2>3
<1>4. ItemAccepted(c, l) <=> LineStands(c, l) /\ l.attribute \notin Fixtures
  BY <1>3, BuildConstants DEF LineStands, Parses, ItemAccepted
<1> QED
  BY <1>4 DEF c

\* Nothing extraction passes is refused, but for what the world takes for a fixture.
LEMMA PassedIsAccepted ==
  ASSUME BookIs, NEW k \in DOMAIN plan, NEW out, NEW r, r = ReadOutput(plan[k], out)
  PROVE  r.error \/ (ResultAccepted(plan[k], r) <=> \A l \in r.items : l.attribute \notin Fixtures)
<1> DEFINE c == plan[k]
           wrong == {d \in out.decls : d.pick /\ ~PickStands(c, d)}
           lost == {d.handle : d \in wrong}
           items == {l \in out.lines : LineStands(c, l) /\ Handles(l) \intersect lost = {}}
<1>1. CASE \/ Twice(out.decls)
           \/ ~(Used({l \in out.lines : Parses(c, l)}) \subseteq {d.handle : d \in out.decls})
  BY <1>1 DEF ReadOutput, Failed
<1>2. CASE ~Twice(out.decls) /\
           Used({l \in out.lines : Parses(c, l)}) \subseteq {d.handle : d \in out.decls}
  <2>1. r = Keep(items, out.decls \ wrong)
    BY <1>2 DEF ReadOutput
  <2>2. /\ r.error = FALSE /\ r.items = items
        /\ r.decls = {d \in out.decls \ wrong : d.handle \in Used(items)}
    <3> HIDE DEF items, wrong
    <3> QED
      BY <2>1 DEF Keep
  <2>3. ~Twice(r.decls)
    BY <1>2, <2>2 DEF Twice
  <2>4. \A l \in r.items : ItemAccepted(c, l) <=> l.attribute \notin Fixtures
    BY <2>2, SameVerdict
  <2>5. ASSUME NEW d \in r.decls PROVE DeclAccepted(c, d)
    <3>1. d.pick => PickStands(c, d)
      BY <2>2
    <3>2. ASSUME d.pick, NEW x \in d.among PROVE x \in Minted /\ Ident(x).gate <= c.last
      <4>1. PICK i \in Idents : i.id = x /\ i.gate <= c.last
        BY <3>1, <3>2 DEF PickStands, Candidates
      <4> QED
        BY <4>1, IdentIs
    <3> QED
      BY <3>1, <3>2 DEF DeclAccepted, PickStands
  <2>6. ASSUME NEW x \in Used(items) PROVE \E d \in r.decls : d.handle = x
    <3>1. PICK l \in items : x \in Handles(l)
      BY DEF Used
    <3>2. l \in out.lines /\ Parses(c, l) /\ x \notin lost
      BY <3>1 DEF LineStands
    <3>3. x \in Used({m \in out.lines : Parses(c, m)})
      BY <3>1, <3>2 DEF Used
    <3>4. PICK d \in out.decls : d.handle = x
      BY <1>2, <3>3
    <3>5. d \notin wrong
      BY <3>2, <3>4
    <3> QED
      BY <2>2, <3>4, <3>5
  <2>7. Used(r.items) = {d.handle : d \in r.decls}
    <3> HIDE DEF items, wrong
    <3> QED
      BY <2>2, <2>6
  <2> QED
    BY <2>2, <2>3, <2>4, <2>5, <2>7 DEF ResultAccepted
<1> QED
  BY <1>1, <1>2

\* What extraction lets pass, commit takes, but for what the world takes for a fixture.
LEMMA Agreeing ==
  ASSUME BookIs, ResultsAre, NEW k \in DOMAIN results
  PROVE  results[k].error \/ (ResultAccepted(plan[k], results[k])
                                <=> \A l \in results[k].items : l.attribute \notin Fixtures)
<1>1. ReadAs(k, results[k]) /\ k \in DOMAIN plan
  BY DEF ResultsAre
<1>2. CASE results[k] = Failed
  BY <1>2 DEF Failed
<1>3. CASE results[k] # Failed
  <2>1. PICK out \in Answers[plan[k].first] : results[k] = ReadOutput(plan[k], out)
    BY <1>1, <1>3 DEF ReadAs
  <2> QED
    BY <1>1, <2>1, PassedIsAccepted
<1> QED
  BY <1>2, <1>3

-----------------------------------------------------------------------------
(* The allocator, one declaration after another.                           *)

SlotAt(S, i) == SlotOf(Declared(S)[i].chunk, Declared(S)[i].of)
Given0(S) == Allocating(Declared(S), Unallocated)

\* Each declaration is allocated after those before it.
LEMMA AllocatingIs ==
  ASSUME NEW S, Chunks(S)
  PROVE  /\ Given0(S)[0] = Unallocated
         /\ \A n \in 1..Len(Declared(S)) :
              Given0(S)[n] = Allocate(Given0(S)[n - 1], Declared(S)[n])
<1> DEFINE D == Declared(S)
           N == Len(D)
           none == Unallocated
           Step(g, n) == IF n = 0 THEN none ELSE Allocate(g[n - 1], D[n])
           Is(g, k) == g = [n \in 0..k |-> Step(g, n)]
           Bad == {k \in Nat : ~\E g : Is(g, k)}
           r == Given0(S)
<1>0. N \in Nat
  BY DeclaredIs
<1>1. r = CHOOSE g : Is(g, N)
  BY DEF Given0, Allocating
<1> HIDE DEF D, none, r
<1>2. ASSUME NEW k \in Nat \ {0}, NEW g, Is(g, k - 1) PROVE \E f : Is(f, k)
  <2> DEFINE f == [n \in 0..k |-> IF n = k THEN Step(g, k) ELSE g[n]]
  <2>1. \A n \in 0..(k - 1) : f[n] = g[n]
    OBVIOUS
  <2>2. ASSUME NEW n \in 0..k PROVE f[n] = Step(f, n)
    <3>1. n # 0 => f[n - 1] = g[n - 1]
      BY <2>1
    <3> HIDE DEF f
    <3>2. CASE n = k
      <4>1. f[n] = Step(g, n)
        BY <3>2 DEF f
      <4>2. n # 0
        BY <3>2
      <4> QED
        BY <3>1, <4>1, <4>2
    <3>3. CASE n # k
      <4>1. n \in 0..(k - 1)
        BY <3>3
      <4>2. g[n] = Step(g, n)
        BY <1>2, <4>1
      <4>3. CASE n = 0
        <5>1. Step(f, 0) = none /\ Step(g, 0) = none
          OBVIOUS
        <5> HIDE DEF Step
        <5> QED
          BY <2>1, <4>1, <4>2, <4>3, <5>1
      <4>4. CASE n # 0
        BY <2>1, <3>1, <4>1, <4>2, <4>4
      <4> QED
        BY <4>3, <4>4
    <3> QED
      BY <3>2, <3>3
  <2>3. f = [n \in 0..k |-> f[n]]
    OBVIOUS
  <2> HIDE DEF f, Step
  <2>4. Is(f, k)
    BY <2>2, <2>3
  <2> QED
    BY <2>4
<1>3. \E g : Is(g, 0)
  <2>1. Is([n \in 0..0 |-> none], 0)
    <3>1. \A n \in 0..0 : n = 0
      OBVIOUS
    <3> QED
      BY <3>1
  <2> QED
    BY <2>1
<1>4. ASSUME Bad # {} PROVE FALSE
  <2> HIDE DEF Is
  <2>1. PICK k \in Bad : \A l \in Bad : k <= l
    <3>1. Bad \in SUBSET Nat
      OBVIOUS
    <3> HIDE DEF Bad
    <3> QED
      BY <1>4, <3>1, LeastOf
  <2>2. k # 0 /\ k - 1 \in Nat /\ k - 1 \notin Bad
    BY <1>3, <2>1
  <2> QED
    BY <1>2, <2>1, <2>2
<1> HIDE DEF N
<1>5. \E g : Is(g, N)
  <2> HIDE DEF Is
  <2> QED
    BY <1>0, <1>4
<1>6. Is(r, N)
  <2> HIDE DEF Is
  <2> QED
    BY <1>1, <1>5
<1>7. \A n \in 0..N : r[n] = Step(r, n)
  <2> HIDE DEF Step
  <2> QED
    BY <1>6
<1>8. r[0] = none
  <2>1. 0 \in 0..N
    BY <1>0
  <2>2. Step(r, 0) = none
    OBVIOUS
  <2> HIDE DEF Step
  <2> QED
    BY <1>7, <2>1, <2>2
<1>9. ASSUME NEW n \in 1..N PROVE r[n] = Allocate(r[n - 1], D[n])
  <2>1. n \in 0..N /\ n # 0
    BY <1>0
  <2>2. Step(r, n) = Allocate(r[n - 1], D[n])
    BY <2>1
  <2> HIDE DEF Step
  <2> QED
    BY <1>7, <2>1, <2>2
<1> QED
  BY <1>8, <1>9 DEF D, N, none, r

\* What a declaration stands for is told by its slot.
Things == {"pick", "described", "proper"}
SlotHas(s) == s[1] \in Things /\ (s[1] # "pick" => s[3] \in DOMAIN Namespace)
\* What a slot tells of its declaration.
LEMMA SlotIs ==
  ASSUME NEW k, NEW d
  PROVE  /\ SlotHas(SlotOf(k, d)) /\ SlotOf(k, d)[4] = d.name
         /\ SlotOf(k, d)[1] = "pick" <=> d.pick
         /\ ~d.pick => SlotOf(k, d)[3] = CoerceType(d.type)
<1>1. CoerceType(d.type) \in DOMAIN Namespace
  BY DEF CoerceType, Namespace
<1>2. CASE d.pick
  BY <1>2 DEF SlotOf, Thing, SlotHas, Things
<1>3. CASE ~d.pick
  <2>1. CASE d.name \in Descriptions
    BY <1>1, <1>3, <2>1 DEF SlotOf, Thing, SlotHas, Things
  <2>2. CASE d.name \notin Descriptions
    BY <1>1, <1>3, <2>2 DEF SlotOf, Thing, SlotHas, Things
  <2> QED
    BY <2>1, <2>2
<1> QED
  BY <1>2, <1>3

\* Two declarations stand for the same when the text means the same by them.
LEMMA SlotsAreThings ==
  ASSUME NEW S, Chunks(S), NEW j \in S, NEW d \in results[j].decls,
         NEW k \in S, NEW e \in results[k].decls
  PROVE  SlotOf(j, d) = SlotOf(k, e) <=> SameThing(j, d, k, e)
<1>1. CASE d.pick /\ e.pick
  <2>1. /\ d.handle = <<"new", "", d.handle[3]>> /\ e.handle = <<"new", "", e.handle[3]>>
        /\ j = k => (d.handle = e.handle => d = e)
    BY DEF Chunks, Twice
  <2>2. /\ SlotOf(j, d) = <<"pick", <<j, d.handle[3]>>, "", d.name>>
        /\ SlotOf(k, e) = <<"pick", <<k, e.handle[3]>>, "", e.name>>
    BY <1>1 DEF SlotOf, Thing
  <2>3. ASSUME SlotOf(j, d) = SlotOf(k, e) PROVE j = k /\ d = e
    <3> DEFINE a == <<j, d.handle[3]>>
               b == <<k, e.handle[3]>>
    <3>0. a = b
      <4>1. <<"pick", a, "", d.name>> = <<"pick", b, "", e.name>>
        BY <2>2, <2>3
      <4> HIDE DEF a, b
      <4> QED
        BY <4>1
    <3>1. j = k /\ d.handle[3] = e.handle[3]
      BY <3>0
    <3>2. d.handle = e.handle
      BY <2>1, <3>1
    <3> QED
      BY <2>1, <3>1, <3>2
  <2> QED
    BY <1>1, <2>3 DEF SameThing
<1>2. CASE ~(d.pick <=> e.pick)
  <2>1. SlotOf(j, d) # SlotOf(k, e)
    BY <1>2, SlotIs
  <2> QED
    BY <1>2, <2>1 DEF SameThing
<1>3. CASE ~d.pick /\ ~e.pick
  <2>1. CASE d.name \in Descriptions /\ e.name \in Descriptions
    BY <1>3, <2>1 DEF SameThing, SlotOf, Thing
  <2>2. CASE d.name \notin Descriptions /\ e.name \notin Descriptions
    BY <1>3, <2>2 DEF SameThing, SlotOf, Thing
  <2>3. CASE ~(d.name \in Descriptions <=> e.name \in Descriptions)
    BY <1>3, <2>3 DEF SameThing, SlotOf, Thing
  <2> QED
    BY <2>1, <2>2, <2>3
<1> QED
  BY <1>1, <1>2, <1>3

\* What has been given after n declarations: an id of its own for each slot, none of
\* the registry's, and a row for each thing that is no pick, as early as it was told of.
TakenFits(a) == IsFiniteSet(a.taken) /\ Minted \subseteq a.taken /\ IsFiniteSet(a.proposed)
GivenFits(S, a, n) ==
  /\ \A g \in a.given :
       /\ g = [slot |-> g.slot, id |-> g.id]
       /\ g.id \in a.taken /\ g.id \notin Minted /\ SlotHas(g.slot)
       /\ g.slot[1] = "pick" => g.id[1] = "mention"
       /\ \E i \in 1..n : SlotAt(S, i) = g.slot
  /\ \A g, h \in a.given : g.id = h.id <=> g.slot = h.slot
HandleOf(S, i, g) == [chunk |-> Declared(S)[i].chunk, handle |-> Declared(S)[i].of.handle, id |-> g.id]
HandlesFit(S, a, n) ==
  /\ \A i \in 1..n : \E g \in a.given : SlotAt(S, i) = g.slot /\ HandleOf(S, i, g) \in a.handles
  /\ \A h \in a.handles : \E i \in 1..n : \E g \in a.given :
       SlotAt(S, i) = g.slot /\ h = HandleOf(S, i, g)
Early(S, slot, c, n) == \A i \in 1..n : SlotAt(S, i) = slot => c <= Declared(S)[i].chunk
IdentityRow(S, a, row) ==
  \E g \in a.given : \E c \in S : \E kind \in {"shape", "name"} :
    row = Put(kind, {g.id}, c, g.slot, 0)
RowsFit(S, a, n) ==
  /\ IsList(a.rows) /\ \A row \in Range(a.rows) : IdentityRow(S, a, row)
  /\ \A g \in a.given : g.slot[1] # "pick" =>
       \E c \in S : Put("shape", {g.id}, c, g.slot, 0) \in Range(a.rows) /\ Early(S, g.slot, c, n)
AllocOf(S, a, n) == TakenFits(a) /\ GivenFits(S, a, n) /\ HandlesFit(S, a, n) /\ RowsFit(S, a, n)

\* Pairs of one thing with finitely many are finitely many.
LEMMA PairsAreFinite ==
  ASSUME NEW x, NEW M, IsFiniteSet(M)
  PROVE  IsFiniteSet({<<x, y>> : y \in M})
<1> DEFINE P == {<<x, y>> : y \in M}
           f == [y \in M |-> <<x, y>>]
<1>1. f \in [M -> P] /\ \A p \in P : \E y \in M : f[y] = p
  OBVIOUS
<1> HIDE DEF f, P
<1>2. f \in Surjection(M, P)
  BY <1>1 DEF Surjection
<1>3. IsFiniteSet(P)
  BY <1>2, FS_Surjection
<1> QED
  BY <1>3 DEF P

\* The registry's ids are finitely many.
LEMMA MintedIsFinite == ASSUME BookIs PROVE IsFiniteSet(Minted)
<1>1. IsList(registry)
  BY BookHas DEF RegistryOf
<1>2. Minted = TakenIn(registry)
  BY DEF Minted, Idents, TakenIn
<1> QED
  BY <1>1, <1>2, TakenIsFinite

\* The empty list.
LEMMA NoRows == IsList(<<>>) /\ Len(<<>>) = 0 /\ Range(<<>>) = {} /\ \A s : IsList(s) => s \o <<>> = s
<1>1. IsList(<<>>) /\ Len(<<>>) = 0
  BY ListOf, EmptySeq
<1>2. Range(<<>>) = {}
  BY DEF Range
<1>3. ASSUME NEW s, IsList(s) PROVE s \o <<>> = s
  BY <1>3 DEF IsList
<1> QED
  BY <1>1, <1>2, <1>3

\* Before the first declaration nothing is given.
LEMMA AllocNone == ASSUME BookIs, NEW S PROVE AllocOf(S, Unallocated, 0)
<1>1. /\ Unallocated.taken = Minted /\ Unallocated.given = {} /\ Unallocated.handles = {}
      /\ Unallocated.proposed = {} /\ Unallocated.rows = <<>>
  BY DEF Unallocated
<1>2. TakenFits(Unallocated)
  BY <1>1, MintedIsFinite, FS_EmptySet DEF TakenFits
<1>3. GivenFits(S, Unallocated, 0)
  BY <1>1 DEF GivenFits
<1>4. HandlesFit(S, Unallocated, 0)
  BY <1>1 DEF HandlesFit
<1>5. RowsFit(S, Unallocated, 0)
  BY <1>1, NoRows DEF RowsFit
<1> QED
  BY <1>2, <1>3, <1>4, <1>5 DEF AllocOf

\* Who a declaration may be told of again are finitely many.
LEMMA MayBeIsFinite ==
  ASSUME BookIs, NEW a, IsFiniteSet(a.taken), \A g \in a.given : g.id \in a.taken,
         NEW k, NEW d, NEW slot
  PROVE  IsFiniteSet(MayBe(a, k, d, slot))
<1>1. CASE d.pick
  <2>1. MayBe(a, k, d, slot) = {d.choice}
    BY <1>1 DEF MayBe
  <2> QED
    BY <2>1, FS_Singleton
<1>2. CASE ~d.pick
  <2> DEFINE E == IF Given(a, slot) = {} THEN Earlier(a, slot) ELSE {}
             R == Resolve(d.name, plan[k].last, CoerceType(d.type))
  <2>1. MayBe(a, k, d, slot) = E \union R
    BY <1>2 DEF MayBe
  <2>2. Earlier(a, slot) \subseteq a.taken
    BY DEF Earlier
  <2>3. E \subseteq a.taken
    BY <2>2
  <2>4. R \subseteq Minted
    BY IdentIs DEF Resolve
  <2> HIDE DEF E, R
  <2>5. IsFiniteSet(E) /\ IsFiniteSet(R)
    BY <2>3, <2>4, MintedIsFinite, FS_Subset
  <2> QED
    BY <2>1, <2>5, FS_Union
<1> QED
  BY <1>1, <1>2

\* A list of one row, and of two.
LEMMA RowsOfOne ==
  ASSUME NEW r, NEW q
  PROVE  /\ IsList(<<r>>) /\ Range(<<r>>) = {r} /\ Len(<<r>>) = 1 /\ <<r>>[1] = r
         /\ IsList(<<r, q>>) /\ Range(<<r, q>>) = {r, q} /\ Len(<<r, q>>) = 2
         /\ <<r, q>>[1] = r /\ <<r, q>>[2] = q
<1>1. <<r>> \in Seq({r}) /\ Len(<<r>>) = 1 /\ <<r>>[1] = r /\ DOMAIN <<r>> = 1..1
  OBVIOUS
<1>2. <<r, q>> \in Seq({r, q}) /\ Len(<<r, q>>) = 2 /\ <<r, q>>[1] = r /\ <<r, q>>[2] = q
      /\ DOMAIN <<r, q>> = 1..2
  OBVIOUS
<1>3. IsList(<<r>>) /\ IsList(<<r, q>>)
  BY <1>1, <1>2, ListOf
<1>4. Range(<<r>>) = {r}
  <2>1. \A i \in 1..1 : i = 1
    OBVIOUS
  <2>2. 1 \in 1..1
    OBVIOUS
  <2> QED
    BY <1>1, <2>1, <2>2 DEF Range
<1>5. Range(<<r, q>>) = {r, q}
  <2>1. \A i \in 1..2 : i = 1 \/ i = 2
    OBVIOUS
  <2>2. 1 \in 1..2 /\ 2 \in 1..2
    OBVIOUS
  <2> QED
    BY <1>2, <2>1, <2>2 DEF Range
<1> QED
  BY <1>1, <1>2, <1>3, <1>4, <1>5

\* One declaration more.
LEMMA AllocStep ==
  ASSUME BookIs, NEW S, Chunks(S), NEW n \in 1..Len(Declared(S)),
         NEW a, AllocOf(S, a, n - 1), NEW b, b = Allocate(a, Declared(S)[n])
  PROVE  AllocOf(S, b, n)
<1> DEFINE D == Declared(S)
           k == D[n].chunk
           d == D[n].of
           slot == SlotAt(S, n)
           x == NewId(a, d, slot)
           new == [slot |-> slot, id |-> x]
<1>1. /\ n \in Nat /\ n - 1 \in Nat /\ \A i \in 1..n : i \in 1..(n - 1) \/ i = n
      /\ \A i \in 1..(n - 1) : i \in 1..n /\ i # n
      /\ n \in 1..n
  OBVIOUS
<1>2. k \in S /\ d \in results[k].decls /\ k \in Int
      /\ \A i \in 1..n : D[i].chunk <= k /\ D[i].chunk \in Int
  <2>1. S \in SUBSET Int
    <3>1. S \in SUBSET (1..Len(plan)) /\ Len(plan) \in Nat
      BY DEF Chunks
    <3> QED
      BY <3>1
  <2>2. k \in S /\ d \in results[k].decls
    BY DeclaredIs
  <2>3. ASSUME NEW i \in 1..n PROVE D[i].chunk <= k /\ D[i].chunk \in S
    <3>1. i \in 1..Len(D) /\ (i = n \/ i < n)
      <4>1. Len(D) \in Nat
        BY DeclaredIs
      <4> QED
        BY <4>1
    <3>2. i < n => D[i].chunk <= D[n].chunk
      BY <3>1, DeclaredIs
    <3>3. D[i].chunk \in S
      BY <3>1, DeclaredIs
    <3>4. k <= k
      <4>1. k \in Int
        BY <2>1, <2>2
      <4> HIDE DEF k
      <4> QED
        BY <4>1
    <3> QED
      BY <3>1, <3>2, <3>3, <3>4
  <2> QED
    BY <2>1, <2>2, <2>3
<1>3. slot = SlotOf(k, d)
  BY DEF SlotAt
<1>4. b = Record(a, k, d, slot, x)
  BY <1>3 DEF Allocate, AllocateIn
<1>5. /\ TakenFits(a) /\ GivenFits(S, a, n - 1) /\ HandlesFit(S, a, n - 1) /\ RowsFit(S, a, n - 1)
  BY DEF AllocOf
<1>6. /\ SlotHas(slot)
      /\ slot[1] = "pick" <=> d.pick
  BY <1>3, SlotIs
<1>7. \A i \in 1..n : \A g : HandleOf(S, i, g) = [chunk |-> D[i].chunk, handle |-> D[i].of.handle, id |-> g.id]
  BY DEF HandleOf
<1> HIDE DEF D, k, d, slot, x
<1>8. /\ b.taken = a.taken \union {x}
      /\ b.given = a.given \union {new}
      /\ b.handles = a.handles \union {[chunk |-> k, handle |-> d.handle, id |-> x]}
      /\ b.proposed = a.proposed \union {<<x, y>> : y \in MayBe(a, k, d, slot) \ {x}}
      /\ b.rows = a.rows \o FirstRows(a, k, d, slot, x)
  <2>1. b.taken = a.taken \union {x}
    BY <1>4 DEF Record
  <2>2. b.given = a.given \union {new}
    BY <1>4 DEF Record
  <2>3. b.handles = a.handles \union {[chunk |-> k, handle |-> d.handle, id |-> x]}
    BY <1>4 DEF Record
  <2>4. b.proposed = a.proposed \union {<<x, y>> : y \in MayBe(a, k, d, slot) \ {x}}
    BY <1>4 DEF Record
  <2>5. b.rows = a.rows \o FirstRows(a, k, d, slot, x)
    BY <1>4 DEF Record
  <2> QED
    BY <2>1, <2>2, <2>3, <2>4, <2>5
<1>9. new = [slot |-> new.slot, id |-> new.id] /\ new.slot = slot /\ new.id = x
  OBVIOUS
<1> HIDE DEF new
<1>10. TakenFits(b)
  <2>1. IsFiniteSet(b.taken)
    <3>1. IsFiniteSet(a.taken)
      BY <1>5 DEF TakenFits
    <3>2. IsFiniteSet(a.taken \union {x})
      BY <3>1, FS_AddElement
    <3> QED
      BY <1>8, <3>2
  <2>2. IsFiniteSet(b.proposed)
    <3> DEFINE M == MayBe(a, k, d, slot) \ {x}
               P == {<<x, y>> : y \in M}
    <3>1. IsFiniteSet(MayBe(a, k, d, slot))
      BY <1>5, MayBeIsFinite DEF TakenFits, GivenFits
    <3>2. M \subseteq MayBe(a, k, d, slot)
      OBVIOUS
    <3> HIDE DEF M
    <3>3. IsFiniteSet(M)
      BY <3>1, <3>2, FS_Subset
    <3>4. IsFiniteSet(P)
      BY <3>3, PairsAreFinite
    <3>5. b.proposed = a.proposed \union P
      BY <1>8 DEF M
    <3> HIDE DEF P
    <3> QED
      BY <1>5, <3>4, <3>5, FS_Union DEF TakenFits
  <2> QED
    BY <1>5, <1>8, <2>1, <2>2 DEF TakenFits
<1>11. HandleOf(S, n, new) = [chunk |-> k, handle |-> d.handle, id |-> x]
  BY <1>1, <1>7, <1>9 DEF k, d
<1>12. SlotAt(S, n) = slot /\ new \in b.given /\ a.given \subseteq b.given
  BY <1>8 DEF slot
<1>13. HandlesFit(S, b, n)
  <2>1. ASSUME NEW i \in 1..n
        PROVE  \E g \in b.given : SlotAt(S, i) = g.slot /\ HandleOf(S, i, g) \in b.handles
    <3>1. CASE i = n
      BY <1>8, <1>9, <1>11, <1>12, <3>1
    <3>2. CASE i # n
      <4>1. i \in 1..(n - 1)
        BY <1>1, <3>2
      <4>2. PICK g \in a.given : SlotAt(S, i) = g.slot /\ HandleOf(S, i, g) \in a.handles
        BY <1>5, <4>1 DEF HandlesFit
      <4> QED
        BY <1>8, <1>12, <4>2
    <3> QED
      BY <3>1, <3>2
  <2>2. ASSUME NEW h \in b.handles
        PROVE  \E i \in 1..n : \E g \in b.given : SlotAt(S, i) = g.slot /\ h = HandleOf(S, i, g)
    <3>1. CASE h \in a.handles
      <4>1. PICK i \in 1..(n - 1) : \E g \in a.given : SlotAt(S, i) = g.slot /\ h = HandleOf(S, i, g)
        BY <1>5, <3>1 DEF HandlesFit
      <4> QED
        BY <1>1, <1>12, <4>1
    <3>2. CASE h \notin a.handles
      <4>1. h = HandleOf(S, n, new)
        BY <1>8, <1>11, <3>2
      <4> QED
        BY <1>1, <1>9, <1>12, <4>1
    <3> QED
      BY <3>1, <3>2
  <2> QED
    BY <2>1, <2>2 DEF HandlesFit
<1>14. CASE Given(a, slot) # {}
  <2>1. PICK g0 \in a.given : g0.slot = slot /\ x = g0.id
    <3>1. (CHOOSE g \in Given(a, slot) : TRUE) \in Given(a, slot)
      BY <1>14
    <3>2. x = (CHOOSE g \in Given(a, slot) : TRUE).id
      BY <1>14 DEF NewId, x
    <3> QED
      BY <3>1, <3>2 DEF Given
  <2>2. new = g0
    <3>1. g0 = [slot |-> g0.slot, id |-> g0.id]
      BY <1>5 DEF GivenFits
    <3> QED
      BY <2>1, <3>1 DEF new
  <2>3. b.given = a.given /\ b.taken = a.taken
    <3>1. x \in a.taken
      BY <1>5, <2>1 DEF GivenFits
    <3> QED
      BY <1>8, <2>2, <3>1
  <2>4. b.rows = a.rows
    <3>1. FirstRows(a, k, d, slot, x) = <<>>
      BY <1>14 DEF FirstRows
    <3> QED
      BY <1>5, <1>8, <3>1, NoRows DEF RowsFit
  <2>5. GivenFits(S, b, n)
    <3>1. ASSUME NEW g \in b.given
          PROVE  /\ g = [slot |-> g.slot, id |-> g.id]
                 /\ g.id \in b.taken /\ g.id \notin Minted /\ SlotHas(g.slot)
                 /\ g.slot[1] = "pick" => g.id[1] = "mention"
                 /\ \E i \in 1..n : SlotAt(S, i) = g.slot
      BY <1>1, <1>5, <2>3 DEF GivenFits
    <3>2. \A g, h \in b.given : g.id = h.id <=> g.slot = h.slot
      BY <1>5, <2>3 DEF GivenFits
    <3> QED
      BY <3>1, <3>2 DEF GivenFits
  <2>6. RowsFit(S, b, n)
    <3>1. ASSUME NEW row \in Range(b.rows) PROVE IdentityRow(S, b, row)
      BY <1>5, <2>3, <2>4 DEF RowsFit, IdentityRow
    <3>2. ASSUME NEW g \in b.given, g.slot[1] # "pick"
          PROVE  \E c \in S : Put("shape", {g.id}, c, g.slot, 0) \in Range(b.rows)
                                /\ Early(S, g.slot, c, n)
      <4>1. PICK c \in S : Put("shape", {g.id}, c, g.slot, 0) \in Range(a.rows)
                             /\ Early(S, g.slot, c, n - 1)
        BY <1>5, <2>3, <3>2 DEF RowsFit
      <4>2. PICK j \in 1..(n - 1) : SlotAt(S, j) = g.slot
        BY <1>5, <2>3 DEF GivenFits
      <4>3. c <= D[j].chunk /\ D[j].chunk <= k /\ D[j].chunk \in Int /\ c \in Int
        <5>1. S \in SUBSET Int
          <6>1. S \in SUBSET (1..Len(plan)) /\ Len(plan) \in Nat
            BY DEF Chunks
          <6> QED
            BY <6>1
        <5> QED
          BY <1>1, <1>2, <4>1, <4>2, <5>1 DEF Early, D
      <4>4. c <= k
        BY <1>2, <4>3
      <4>5. Early(S, g.slot, c, n)
        BY <1>1, <4>1, <4>4 DEF Early, k, D
      <4> QED
        BY <2>4, <4>1, <4>5
    <3>3. IsList(b.rows)
      BY <1>5, <2>4 DEF RowsFit
    <3> QED
      BY <3>1, <3>2, <3>3 DEF RowsFit
  <2> QED
    BY <1>10, <1>13, <2>5, <2>6 DEF AllocOf
<1>15. CASE Given(a, slot) = {}
  <2>1. x = Mint(a.taken, IF d.pick THEN "mention" ELSE Namespace[CoerceType(d.type)], d.name)
    BY <1>15 DEF NewId, x
  <2>2. x \notin a.taken /\ (d.pick => x[1] = "mention")
    BY <1>5, <2>1, MintIsFree DEF TakenFits
  <2>3. \A g \in a.given : g.slot # slot /\ g.id # x
    BY <1>5, <1>15, <2>2 DEF Given, GivenFits
  <2>4. GivenFits(S, b, n)
    <3>1. ASSUME NEW g \in b.given
          PROVE  /\ g = [slot |-> g.slot, id |-> g.id]
                 /\ g.id \in b.taken /\ g.id \notin Minted /\ SlotHas(g.slot)
                 /\ g.slot[1] = "pick" => g.id[1] = "mention"
                 /\ \E i \in 1..n : SlotAt(S, i) = g.slot
      <4>1. CASE g \in a.given
        BY <1>1, <1>5, <1>8, <4>1 DEF GivenFits
      <4>2. CASE g = new
        <5>1. x \notin Minted
          BY <1>5, <2>2 DEF TakenFits
        <5>2. g.slot = slot /\ g.id = x /\ g = [slot |-> g.slot, id |-> g.id]
          BY <1>9, <4>2
        <5>3. slot[1] = "pick" => x[1] = "mention"
          BY <1>6, <2>2
        <5>4. x \in b.taken /\ SlotAt(S, n) = slot /\ n \in 1..n
          BY <1>1, <1>8, <1>12
        <5> QED
          BY <1>6, <5>1, <5>2, <5>3, <5>4
      <4> QED
        BY <1>8, <4>1, <4>2
    <3>2. ASSUME NEW g \in b.given, NEW h \in b.given PROVE g.id = h.id <=> g.slot = h.slot
      <4>1. CASE g = new \/ h = new
        BY <1>8, <1>9, <2>3, <4>1
      <4>2. CASE g \in a.given /\ h \in a.given
        BY <1>5, <4>2 DEF GivenFits
      <4> QED
        BY <1>8, <4>1, <4>2
    <3> QED
      BY <3>1, <3>2 DEF GivenFits
  <2> DEFINE more == FirstRows(a, k, d, slot, x)
  <2>5. b.rows = a.rows \o more
    BY <1>8
  <2>6. /\ IsList(more)
        /\ Range(more) \subseteq {Put("shape", {x}, k, slot, 0), Put("name", {x}, k, slot, 0)}
        /\ ~d.pick => Put("shape", {x}, k, slot, 0) \in Range(more)
    <3> DEFINE r == Put("shape", {x}, k, slot, 0)
               q == Put("name", {x}, k, slot, 0)
    <3>1. \/ d.pick /\ more = <<>>
          \/ d.pick /\ more = <<r>>
          \/ ~d.pick /\ more = <<r, q>>
      <4>1. CASE d.pick /\ ~Shaped(d.among)
        BY <4>1 DEF FirstRows
      <4>2. CASE d.pick /\ Shaped(d.among)
        BY <1>15, <4>2 DEF FirstRows
      <4>3. CASE ~d.pick
        BY <1>15, <4>3 DEF FirstRows, IdentityRows
      <4> QED
        BY <4>1, <4>2, <4>3
    <3> HIDE DEF more, r, q
    <3>2. /\ IsList(more) /\ Range(more) \subseteq {r, q}
          /\ ~d.pick => r \in Range(more)
      <4>1. CASE more = <<>>
        BY <3>1, <4>1, NoRows, RowsOfOne
      <4>2. CASE more = <<r>>
        <5>1. IsList(<<r>>) /\ Range(<<r>>) = {r}
          BY RowsOfOne
        <5>2. d.pick
          BY <3>1, <4>2
        <5> QED
          BY <4>2, <5>1, <5>2
      <4>3. CASE more = <<r, q>>
        <5>1. IsList(<<r, q>>) /\ Range(<<r, q>>) = {r, q}
          BY RowsOfOne
        <5> QED
          BY <4>3, <5>1
      <4> QED
        BY <3>1, <4>1, <4>2, <4>3
    <3> QED
      BY <3>2 DEF r, q
  <2> HIDE DEF more
  <2>7. IsList(b.rows) /\ Range(b.rows) = Range(a.rows) \union Range(more)
    BY <1>5, <2>5, <2>6, Joined DEF RowsFit
  <2>8. RowsFit(S, b, n)
    <3>1. ASSUME NEW row \in Range(b.rows) PROVE IdentityRow(S, b, row)
      <4>1. CASE row \in Range(a.rows)
        <5>1. IdentityRow(S, a, row)
          BY <1>5, <4>1 DEF RowsFit
        <5> QED
          BY <1>12, <5>1 DEF IdentityRow
      <4>2. CASE row \in Range(more)
        <5>1. row = Put("shape", {x}, k, slot, 0) \/ row = Put("name", {x}, k, slot, 0)
          BY <2>6, <4>2
        <5>2. row = Put("shape", {new.id}, k, new.slot, 0) \/ row = Put("name", {new.id}, k, new.slot, 0)
          BY <1>9, <5>1
        <5> QED
          BY <1>2, <1>12, <5>2 DEF IdentityRow
      <4> QED
        BY <2>7, <4>1, <4>2
    <3>2. ASSUME NEW g \in b.given, g.slot[1] # "pick"
          PROVE  \E c \in S : Put("shape", {g.id}, c, g.slot, 0) \in Range(b.rows)
                                /\ Early(S, g.slot, c, n)
      <4>1. CASE g = new
        <5>1. Put("shape", {g.id}, k, g.slot, 0) \in Range(b.rows)
          BY <1>6, <1>9, <2>6, <2>7, <3>2, <4>1
        <5>2. ASSUME NEW i \in 1..n, SlotAt(S, i) = slot PROVE k <= D[i].chunk
          <6>1. i \notin 1..(n - 1)
            <7>1. ASSUME i \in 1..(n - 1) PROVE FALSE
              <8>1. PICK h \in a.given : SlotAt(S, i) = h.slot
                BY <1>5, <7>1 DEF HandlesFit
              <8> QED
                BY <2>3, <5>2, <8>1
            <7> QED
              BY <7>1
          <6>2. i = n
            BY <1>1, <6>1
          <6> QED
            BY <1>2, <6>2 DEF k
        <5>3. Early(S, g.slot, k, n)
          BY <1>9, <4>1, <5>2 DEF Early, D
        <5> QED
          BY <1>2, <5>1, <5>3
      <4>2. CASE g \in a.given
        <5>1. PICK c \in S : Put("shape", {g.id}, c, g.slot, 0) \in Range(a.rows)
                               /\ Early(S, g.slot, c, n - 1)
          BY <1>5, <3>2, <4>2 DEF RowsFit
        <5>2. SlotAt(S, n) # g.slot
          BY <1>12, <2>3, <4>2
        <5>3. Early(S, g.slot, c, n)
          BY <1>1, <5>1, <5>2 DEF Early
        <5> QED
          BY <2>7, <5>1, <5>3
      <4> QED
        BY <1>8, <4>1, <4>2
    <3> QED
      BY <2>7, <3>1, <3>2 DEF RowsFit
  <2> QED
    BY <1>10, <1>13, <2>4, <2>8 DEF AllocOf
<1> QED
  BY <1>14, <1>15

\* What a commit has allocated.
LEMMA AllocationIs ==
  ASSUME BookIs, NEW S, Chunks(S)
  PROVE  AllocOf(S, Allocation(S), Len(Declared(S)))
<1> DEFINE r == Given0(S)
           N == Len(Declared(S))
           Bad == {n \in 0..N : ~AllocOf(S, r[n], n)}
<1>1. N \in Nat
  BY DeclaredIs
<1>2. r[0] = Unallocated /\ \A n \in 1..N : r[n] = Allocate(r[n - 1], Declared(S)[n])
  BY AllocatingIs
<1>3. Allocation(S) = r[N]
  BY DEF Allocation, Given0
<1> HIDE DEF r
<1>4. ASSUME NEW n \in 1..N, AllocOf(S, r[n - 1], n - 1) PROVE AllocOf(S, r[n], n)
  BY <1>2, <1>4, AllocStep
<1>5. AllocOf(S, r[0], 0)
  BY <1>2, AllocNone
<1> HIDE DEF N
<1>6. ASSUME Bad # {} PROVE FALSE
  <2>1. PICK n \in Bad : \A l \in Bad : n <= l
    <3>1. Bad \in SUBSET Nat
      OBVIOUS
    <3> HIDE DEF Bad
    <3> QED
      BY <1>6, <3>1, LeastOf
  <2>2. n # 0
    BY <1>5, <2>1
  <2>3. n \in 1..N /\ n - 1 \in 0..N /\ n - 1 \notin Bad
    BY <1>1, <2>1, <2>2
  <2>4. AllocOf(S, r[n - 1], n - 1)
    BY <2>3
  <2> QED
    BY <1>4, <2>1, <2>3, <2>4
<1>7. N \in 0..N
  BY <1>1
<1> QED
  BY <1>3, <1>6, <1>7 DEF N

-----------------------------------------------------------------------------
(* What a commit writes.                                                   *)

ManifestThing(k) == Thing("manifest", k, "", "")
OfManifest(S, row) ==
  \E k \in DOMAIN registry : \E kind \in {"shape", "name"} :
    row = Put(kind, {registry[k].id}, GateChunk(S, registry[k].gate), ManifestThing(k), 0)
FactOf(S, row) ==
  \E k \in S : \E l \in results[k].items : row = FactRow(l, k, Allocation(S).handles)
Opening(S, i) == {k \in S : i.reveal \in plan[k].first..plan[k].last}
LinkOf(S, i) == Put("aka", {i.id, i.entry}, Min(Opening(S, i)), Nothing, i.reveal)
EvidenceOf(row) == Put("aka_evidence", row.ids, 0, Nothing, row.pos)
LinkRow(S, row) == \E i \in Personas : Opening(S, i) # {} /\ row = LinkOf(S, i)
NamesakeRow(row) == row = Put("distinct_from", row.ids, 0, Nothing, 0)

\* Every link is followed by its evidence.
Paired(s) ==
  \A p \in 1..Len(s) : s[p].kind = "aka" => p + 1 \in 1..Len(s) /\ s[p + 1] = EvidenceOf(s[p])

\* The rows of the manifest, each identity's shape among them.
LEMMA ManifestRowsAre ==
  ASSUME BookIs, NEW S
  PROVE  /\ IsList(ManifestRows(S))
         /\ \A row \in Range(ManifestRows(S)) : OfManifest(S, row) \/ row.kind = "fixture"
         /\ \A k \in DOMAIN registry :
              Put("shape", {registry[k].id}, GateChunk(S, registry[k].gate), ManifestThing(k), 0)
                \in Range(ManifestRows(S))
<1> DEFINE N == Listed(manifest)
           b == [k \in DOMAIN registry |-> OfEntry(k, S)]
           shape(k) == Put("shape", {registry[k].id}, GateChunk(S, registry[k].gate), ManifestThing(k), 0)
           name(k) == Put("name", {registry[k].id}, GateChunk(S, registry[k].gate), ManifestThing(k), 0)
           fixture(k) == Put("fixture", {registry[k].id}, GateChunk(S, registry[k].gate), Nothing, 0)
<1>1. DOMAIN registry = 1..N /\ N \in Nat
  BY BookHas
<1>2. ManifestRows(S) = FlattenSeq(b)
  BY DEF ManifestRows
<1>3. \A k \in 1..N : b[k] = OfEntry(k, S)
  BY <1>1
<1>4. b = [k \in 1..N |-> b[k]]
  BY <1>1
<1> HIDE DEF b, N
<1>5. ASSUME NEW k \in 1..N
      PROVE  /\ IsList(b[k]) /\ shape(k) \in Range(b[k])
             /\ Range(b[k]) \subseteq {shape(k), name(k), fixture(k)}
  <2> DEFINE two == <<shape(k), name(k)>>
             more == IF registry[k].fixture THEN <<fixture(k)>> ELSE <<>>
  <2>1. b[k] = two \o more
    BY <1>3 DEF OfEntry, IdentityRows, ManifestThing
  <2>2. IsList(two) /\ Range(two) = {shape(k), name(k)}
    BY RowsOfOne
  <2>3. IsList(more) /\ Range(more) \subseteq {fixture(k)}
    <3>1. more = <<fixture(k)>> \/ more = <<>>
      OBVIOUS
    <3> HIDE DEF more
    <3>2. IsList(<<fixture(k)>>) /\ Range(<<fixture(k)>>) = {fixture(k)}
      BY RowsOfOne
    <3> QED
      BY <3>1, <3>2, NoRows
  <2> HIDE DEF two, more
  <2>4. IsList(two \o more) /\ Range(two \o more) = Range(two) \union Range(more)
    BY <2>2, <2>3, Joined
  <2> HIDE DEF shape, name, fixture
  <2> QED
    BY <2>1, <2>2, <2>3, <2>4
<1>6. IsList(b) /\ Len(b) = N
  BY <1>1, <1>4, Numbered
<1>7. /\ IsList(FlattenSeq(b))
      /\ \A x : x \in Range(FlattenSeq(b)) <=> \E k \in 1..N : x \in Range(b[k])
  BY <1>5, <1>6, FlatHolds
<1>8. ASSUME NEW row \in Range(ManifestRows(S)) PROVE OfManifest(S, row) \/ row.kind = "fixture"
  <2>1. PICK k \in 1..N : row \in Range(b[k])
    BY <1>2, <1>7
  <2>2. row = shape(k) \/ row = name(k) \/ row = fixture(k)
    BY <1>5, <2>1
  <2>3. row = fixture(k) => row.kind = "fixture"
    BY DEF Put
  <2>4. row = shape(k) \/ row = name(k) => OfManifest(S, row)
    BY <1>1 DEF OfManifest
  <2> QED
    BY <2>2, <2>3, <2>4
<1>9. \A k \in 1..N : shape(k) \in Range(ManifestRows(S))
  <2> HIDE DEF shape
  <2> QED
    BY <1>2, <1>5, <1>7
<1> QED
  BY <1>1, <1>2, <1>7, <1>8, <1>9

\* The rows beside a fact.
LEMMA SideRowsAre ==
  ASSUME NEW kind, NEW x, NEW l, NEW k, NEW handles
  PROVE  /\ IsList(SideRows(kind, x, l, k, handles))
         /\ \A row \in Range(SideRows(kind, x, l, k, handles)) : row.kind = kind
<1> DEFINE s == SideRows(kind, x, l, k, handles)
           r == Put(kind, {Replaced(x, k, handles)}, 0, ItemOf(l, k), Absolute(plan[k], l))
<1>1. s = <<>> \/ s = <<r>>
  BY DEF SideRows
<1>2. r.kind = kind
  BY DEF Put
<1> HIDE DEF s, r
<1>3. IsList(<<r>>) /\ Range(<<r>>) = {r}
  BY RowsOfOne
<1>4. IsList(s) /\ \A row \in Range(s) : row.kind = kind
  BY <1>1, <1>2, <1>3, NoRows
<1> QED
  BY <1>4 DEF s

\* A fact, and what is written beside it.
FactOfOne(k, handles, row) ==
  (\E l \in results[k].items : row = FactRow(l, k, handles)) \/ row.kind \in SideKinds
LEMMA ItemRowsAre ==
  ASSUME NEW k, NEW l \in results[k].items, NEW handles
  PROVE  /\ IsList(ItemRows(l, k, handles))
         /\ \A row \in Range(ItemRows(l, k, handles)) : FactOfOne(k, handles, row)
<1> DEFINE f == FactRow(l, k, handles)
           s == SideRows("source", l.source, l, k, handles)
           c == SideRows("caused_by", l.cause, l, k, handles)
           one == <<f>>
           two == one \o s
           all == two \o c
<1>1. IsList(s) /\ \A row \in Range(s) : row.kind \in SideKinds
  BY SideRowsAre DEF SideKinds
<1>2. IsList(c) /\ \A row \in Range(c) : row.kind \in SideKinds
  BY SideRowsAre DEF SideKinds
<1>3. ItemRows(l, k, handles) = all
  BY DEF ItemRows
<1>4. \A row : row = f => FactOfOne(k, handles, row)
  BY DEF FactOfOne
<1> HIDE DEF f, s, c
<1>5. IsList(one) /\ Range(one) = {f}
  BY RowsOfOne
<1> HIDE DEF one
<1>6. IsList(two) /\ Range(two) = Range(one) \union Range(s)
  BY <1>1, <1>5, Joined
<1> HIDE DEF two
<1>7. IsList(all) /\ Range(all) = Range(two) \union Range(c)
  BY <1>2, <1>6, Joined
<1> HIDE DEF all
<1> QED
  BY <1>1, <1>2, <1>3, <1>4, <1>5, <1>6, <1>7 DEF FactOfOne

\* The rows of the lines of a chunk that were kept.
LEMMA ChunkRowsAre ==
  ASSUME NEW k, IsFiniteSet(results[k].items), NEW handles
  PROVE  /\ IsList(ChunkRows(k, handles))
         /\ \A row \in Range(ChunkRows(k, handles)) : FactOfOne(k, handles, row)
<1> DEFINE I == results[k].items
           n == Cardinality(I)
           s == SetToSeq(I)
           b == [m \in 1..n |-> ItemRows(s[m], k, handles)]
<1>1. n \in Nat /\ \A m \in 1..n : s[m] \in I
  <2>1. IsList(s) /\ Len(s) = n /\ n \in Nat /\ Range(s) = I
    BY SetListed
  <2> HIDE DEF s, I, n
  <2>2. DOMAIN s = 1..n
    BY <2>1 DEF IsList
  <2> QED
    BY <2>1, <2>2 DEF Range
<1>2. ChunkRows(k, handles) = FlattenSeq(b)
  BY DEF ChunkRows
<1> HIDE DEF n, s
<1>3. \A m \in 1..n : b[m] = ItemRows(s[m], k, handles)
  OBVIOUS
<1>4. b = [m \in 1..n |-> b[m]]
  OBVIOUS
<1> HIDE DEF b
<1>5. ASSUME NEW m \in 1..n
      PROVE  IsList(b[m]) /\ \A row \in Range(b[m]) : FactOfOne(k, handles, row)
  BY <1>1, <1>3, ItemRowsAre
<1>6. IsList(b) /\ Len(b) = n
  BY <1>1, <1>4, Numbered
<1>7. /\ IsList(FlattenSeq(b))
      /\ \A x : x \in Range(FlattenSeq(b)) <=> \E m \in 1..n : x \in Range(b[m])
  BY <1>5, <1>6, FlatHolds
<1> QED
  BY <1>2, <1>5, <1>7

\* The rows of the lines that were kept.
LEMMA FactRowsAre ==
  ASSUME NEW S, Chunks(S), NEW handles
  PROVE  /\ IsList(FactRows(S, handles))
         /\ \A row \in Range(FactRows(S, handles)) : \E k \in S : FactOfOne(k, handles, row)
<1> DEFINE n == Cardinality(S)
           s == InOrder(S)
           b == [i \in 1..n |-> ChunkRows(s[i], handles)]
<1>1. S \in SUBSET Int /\ IsFiniteSet(S)
  <2>1. S \in SUBSET (1..Len(plan)) /\ Len(plan) \in Nat /\ IsFiniteSet(S)
    BY DEF Chunks
  <2> QED
    BY <2>1
<1>2. n \in Nat /\ \A i \in 1..n : s[i] \in S
  BY <1>1, InOrderIs
<1>3. FactRows(S, handles) = FlattenSeq(b)
  BY DEF FactRows
<1> HIDE DEF s, n
<1>4. \A i \in 1..n : b[i] = ChunkRows(s[i], handles)
  OBVIOUS
<1>5. b = [i \in 1..n |-> b[i]]
  OBVIOUS
<1> HIDE DEF b
<1>6. ASSUME NEW i \in 1..n
      PROVE  IsList(b[i]) /\ \A row \in Range(b[i]) : FactOfOne(s[i], handles, row)
  <2>1. IsFiniteSet(results[s[i]].items)
    BY <1>2 DEF Chunks
  <2> QED
    BY <1>4, <2>1, ChunkRowsAre
<1>7. IsList(b) /\ Len(b) = n
  BY <1>2, <1>5, Numbered
<1>8. /\ IsList(FlattenSeq(b))
      /\ \A x : x \in Range(FlattenSeq(b)) <=> \E i \in 1..n : x \in Range(b[i])
  BY <1>6, <1>7, FlatHolds
<1> QED
  BY <1>2, <1>3, <1>6, <1>8

\* The rows of the proposals.
LEMMA ProposalRowsAre ==
  ASSUME NEW proposed, IsFiniteSet(proposed)
  PROVE  /\ IsList(ProposalRows(proposed))
         /\ \A row \in Range(ProposalRows(proposed)) : row.kind \in {"maybe_same_as", "evidence"}
<1> DEFINE n == Cardinality(proposed)
           ids(i) == Range(SetToSeq(proposed)[i])
           one(i) == Put("maybe_same_as", ids(i), 0, Nothing, 0)
           two(i) == Put("evidence", ids(i), 0, Nothing, 0)
           b == [i \in 1..n |-> <<one(i), two(i)>>]
<1>1. n \in Nat
  BY FS_CardinalityType
<1>2. ProposalRows(proposed) = FlattenSeq(b)
  BY DEF ProposalRows
<1> HIDE DEF n
<1>3. \A i \in 1..n : b[i] = <<one(i), two(i)>>
  OBVIOUS
<1>4. b = [i \in 1..n |-> b[i]]
  OBVIOUS
<1>5. \A i : one(i).kind = "maybe_same_as" /\ two(i).kind = "evidence"
  BY DEF Put
<1> HIDE DEF b, one, two
<1>6. ASSUME NEW i \in 1..n PROVE IsList(b[i]) /\ Range(b[i]) = {one(i), two(i)}
  <2>1. IsList(<<one(i), two(i)>>) /\ Range(<<one(i), two(i)>>) = {one(i), two(i)}
    BY RowsOfOne
  <2> QED
    BY <1>3, <2>1
<1>7. IsList(b) /\ Len(b) = n
  BY <1>1, <1>4, Numbered
<1>8. /\ IsList(FlattenSeq(b))
      /\ \A x : x \in Range(FlattenSeq(b)) <=> \E i \in 1..n : x \in Range(b[i])
  BY <1>6, <1>7, FlatHolds
<1>9. ASSUME NEW row \in Range(ProposalRows(proposed))
      PROVE  row.kind \in {"maybe_same_as", "evidence"}
  <2>1. PICK i \in 1..n : row \in Range(b[i])
    BY <1>2, <1>8
  <2> QED
    BY <1>5, <1>6, <2>1
<1> QED
  BY <1>2, <1>8, <1>9

\* The rows that tell namesakes apart.
LEMMA NamesakeRowsAre ==
  ASSUME BookIs
  PROVE  IsList(NamesakeRows) /\ \A row \in Range(NamesakeRows) : NamesakeRow(row)
<1> DEFINE M == manifest.namesakes
           n == Cardinality(M)
           ids(i) == {registry[k].id : k \in SetToSeq(M)[i]}
           one(i) == Put("distinct_from", ids(i), 0, Nothing, 0)
           b == [i \in 1..n |-> <<one(i)>>]
<1>1. n \in Nat
  BY BookHas, FS_CardinalityType
<1>2. NamesakeRows = FlattenSeq(b)
  BY DEF NamesakeRows
<1> HIDE DEF n
<1>3. \A i \in 1..n : b[i] = <<one(i)>>
  OBVIOUS
<1>4. b = [i \in 1..n |-> b[i]]
  OBVIOUS
<1>5. \A i : NamesakeRow(one(i))
  <2> HIDE DEF ids
  <2> QED
    BY DEF Put, NamesakeRow
<1> HIDE DEF b, one
<1>6. ASSUME NEW i \in 1..n PROVE IsList(b[i]) /\ Range(b[i]) = {one(i)}
  <2>1. IsList(<<one(i)>>) /\ Range(<<one(i)>>) = {one(i)}
    BY RowsOfOne
  <2> QED
    BY <1>3, <2>1
<1>7. IsList(b) /\ Len(b) = n
  BY <1>1, <1>4, Numbered
<1>8. /\ IsList(FlattenSeq(b))
      /\ \A x : x \in Range(FlattenSeq(b)) <=> \E i \in 1..n : x \in Range(b[i])
  BY <1>6, <1>7, FlatHolds
<1>9. ASSUME NEW row \in Range(NamesakeRows) PROVE NamesakeRow(row)
  <2>1. PICK i \in 1..n : row \in Range(b[i])
    BY <1>2, <1>8
  <2> QED
    BY <1>5, <1>6, <2>1
<1> QED
  BY <1>2, <1>8, <1>9

\* A reveal opens its chunk, so one chunk at most holds it.
LEMMA OpeningIs ==
  ASSUME BookIs, NEW S \in SUBSET DOMAIN plan, NEW i \in Personas, Opening(S, i) # {}
  PROVE  /\ Min(Opening(S, i)) \in S /\ plan[Min(Opening(S, i))].first = i.reveal
         /\ i.entry # NoId /\ i \in Idents
<1> DEFINE O == Opening(S, i)
           m == Min(O)
<1>1. PlanOf(registry, plan) /\ DOMAIN plan = 1..Len(plan) /\ Len(plan) \in Nat
  BY BookHas DEF PlanOf
<1>2. O \in SUBSET Nat /\ O # {} /\ O \subseteq S
  BY <1>1 DEF Opening
<1> HIDE DEF O
<1>3. m \in O
  BY <1>2, MinIs
<1>4. m \in S /\ i.reveal \in plan[m].first..plan[m].last /\ m \in 1..Len(plan)
  BY <1>1, <1>2, <1>3 DEF Opening, O
<1> HIDE DEF m
<1>5. plan[m].first \in Nat /\ plan[m].last \in Nat /\ plan[m].first \in Sentences
  BY <1>1, <1>4, ChunkIs
<1>6. i \in Idents /\ i.entry # NoId
  BY DEF Personas
<1>7. i.reveal # 0
  <2>1. plan[m].first # 0
    BY <1>5, TheText
  <2> QED
    BY <1>4, <1>5, <2>1
<1>8. PICK k \in 1..Len(plan) : plan[k].first = i.reveal
  BY <1>1, <1>6, <1>7 DEF PlanOf, Idents
<1>9. plan[k].first \in Nat /\ plan[k].last \in Nat /\ plan[k].first <= plan[k].last
  BY <1>1, ChunkIs
<1>10. ~(k < m)
  <2>1. k < m => plan[k].last < plan[m].first
    BY <1>1, <1>4 DEF PlanOf
  <2> QED
    BY <1>4, <1>5, <1>8, <1>9, <2>1
<1>11. ~(m < k)
  <2>1. m < k => plan[m].last < plan[k].first
    BY <1>1, <1>4 DEF PlanOf
  <2> QED
    BY <1>4, <1>5, <1>8, <1>9, <2>1
<1>12. k = m
  BY <1>1, <1>4, <1>10, <1>11
<1> QED
  BY <1>4, <1>6, <1>8, <1>12 DEF m, O

\* The rows of the reveals: each link, then its evidence.
LEMMA RevealRowsAre ==
  ASSUME BookIs, NEW S
  PROVE  /\ IsList(RevealRows(S)) /\ Paired(RevealRows(S))
         /\ \A row \in Range(RevealRows(S)) :
              LinkRow(S, row) \/ \E link : LinkRow(S, link) /\ row = EvidenceOf(link)
<1> DEFINE N == Listed(manifest)
           none(n) == registry[n] \notin Personas \/ Opening(S, registry[n]) = {}
           link(n) == LinkOf(S, registry[n])
           ev(n) == EvidenceOf(link(n))
           b == [n \in DOMAIN registry |-> IF none(n) THEN <<>> ELSE <<link(n), ev(n)>>]
           R == RevealRows(S)
<1>1. DOMAIN registry = 1..N /\ N \in Nat
  BY BookHas
<1>2. R = FlattenSeq(b)
  BY DEF RevealRows, Opening, LinkOf, EvidenceOf, Put
<1>3. \A n \in 1..N : b[n] = IF none(n) THEN <<>> ELSE <<link(n), ev(n)>>
  BY <1>1
<1>4. b = [n \in 1..N |-> b[n]]
  BY <1>1
<1>5. \A n : link(n).kind = "aka" /\ ev(n).kind = "aka_evidence" /\ ev(n) = EvidenceOf(link(n))
  BY DEF LinkOf, EvidenceOf, Put
<1>6. \A n \in 1..N : ~none(n) => LinkRow(S, link(n))
  <2> SUFFICES ASSUME NEW n \in 1..N, ~none(n) PROVE LinkRow(S, link(n))
    OBVIOUS
  <2>1. registry[n] \in Personas /\ Opening(S, registry[n]) # {}
    OBVIOUS
  <2> QED
    BY <2>1 DEF LinkRow
<1> HIDE DEF b, N, none, link, ev, R
<1>7. ASSUME NEW n \in 1..N
      PROVE  /\ IsList(b[n])
             /\ \/ none(n) /\ Len(b[n]) = 0 /\ Range(b[n]) = {}
                \/ /\ ~none(n) /\ Len(b[n]) = 2 /\ Range(b[n]) = {link(n), ev(n)}
                   /\ b[n][1] = link(n) /\ b[n][2] = ev(n)
  <2>1. CASE none(n)
    BY <1>3, <2>1, NoRows
  <2>2. CASE ~none(n)
    <3> DEFINE s == <<link(n), ev(n)>>
    <3>1. /\ IsList(s) /\ Len(s) = 2 /\ Range(s) = {link(n), ev(n)}
          /\ s[1] = link(n) /\ s[2] = ev(n)
      BY RowsOfOne
    <3>2. b[n] = s
      BY <1>3, <2>2
    <3> HIDE DEF s
    <3> QED
      BY <2>2, <3>1, <3>2
  <2> QED
    BY <2>1, <2>2
<1>8. IsList(b) /\ Len(b) = N
  BY <1>1, <1>4, Numbered
<1>9. IsList(R) /\ \A x : x \in Range(R) <=> \E n \in 1..N : x \in Range(b[n])
  BY <1>2, <1>7, <1>8, FlatHolds
<1>10. PICK off : Laid(R, b, off)
  BY <1>2, <1>7, <1>8, Flattened
<1>11. ASSUME NEW p \in 1..Len(R), R[p].kind = "aka"
       PROVE  p + 1 \in 1..Len(R) /\ R[p + 1] = EvidenceOf(R[p])
  <2>1. PICK n \in 1..N : \E q \in 1..Len(b[n]) : p = off[n - 1] + q
    BY <1>8, <1>10 DEF Laid
  <2>2. PICK q \in 1..Len(b[n]) : p = off[n - 1] + q
    BY <2>1
  <2>3. R[p] = b[n][q]
    BY <1>8, <1>10, <2>2 DEF Laid
  <2>4. Len(b[n]) = 2 /\ b[n][1] = link(n) /\ b[n][2] = ev(n)
    BY <1>7, <2>2
  <2>5. q = 1
    BY <1>5, <1>11, <2>3, <2>4
  <2>6. n - 1 \in 0..N /\ n \in 0..N /\ N \in 0..N /\ n <= N
    BY <1>1
  <2>7. /\ off[n - 1] \in Nat /\ off[n] \in Nat /\ off[N] \in Nat
        /\ off[n] = off[n - 1] + 2 /\ off[n] <= off[N] /\ Len(R) = off[N]
    BY <1>8, <1>10, <2>4, <2>6 DEF Laid
  <2>8. p + 1 = off[n - 1] + 2 /\ 2 \in 1..Len(b[n])
    BY <2>2, <2>4, <2>5, <2>7
  <2>9. R[p + 1] = b[n][2]
    BY <1>8, <1>10, <2>8 DEF Laid
  <2>10. p + 1 \in 1..Len(R)
    BY <2>7, <2>8
  <2> QED
    BY <1>5, <2>3, <2>4, <2>5, <2>9, <2>10
<1>12. Paired(R)
  BY <1>11 DEF Paired
<1>13. ASSUME NEW row \in Range(R)
       PROVE  LinkRow(S, row) \/ \E l : LinkRow(S, l) /\ row = EvidenceOf(l)
  <2>1. PICK n \in 1..N : row \in Range(b[n])
    BY <1>9
  <2>2. ~none(n) /\ (row = link(n) \/ row = ev(n))
    BY <1>7, <2>1
  <2> QED
    BY <1>5, <1>6, <2>2
<1> QED
  BY <1>9, <1>12, <1>13 DEF R

\* Two lists of pairs, one after the other.
LEMMA PairedJoin ==
  ASSUME NEW s, NEW t, IsList(s), IsList(t), Paired(s), Paired(t)
  PROVE  Paired(s \o t)
<1> DEFINE w == s \o t
<1>1. /\ Len(w) = Len(s) + Len(t) /\ Len(s) \in Nat /\ Len(t) \in Nat
      /\ \A i \in 1..Len(s) : w[i] = s[i]
      /\ \A i \in 1..Len(t) : w[Len(s) + i] = t[i]
  BY Joined
<1> HIDE DEF w
<1>2. ASSUME NEW p \in 1..Len(w), w[p].kind = "aka"
      PROVE  p + 1 \in 1..Len(w) /\ w[p + 1] = EvidenceOf(w[p])
  <2>1. CASE p <= Len(s)
    <3>1. p \in 1..Len(s)
      BY <1>1, <2>1
    <3>2. p + 1 \in 1..Len(s) /\ s[p + 1] = EvidenceOf(s[p])
      BY <1>1, <1>2, <3>1 DEF Paired
    <3>3. p + 1 \in 1..Len(w)
      BY <1>1, <3>2
    <3> QED
      BY <1>1, <3>1, <3>2, <3>3
  <2>2. CASE p > Len(s)
    <3> DEFINE q == p - Len(s)
    <3>1. q \in 1..Len(t) /\ p = Len(s) + q
      BY <1>1, <2>2
    <3> HIDE DEF q
    <3>2. w[p] = t[q]
      BY <1>1, <3>1
    <3>3. q + 1 \in 1..Len(t) /\ t[q + 1] = EvidenceOf(t[q])
      BY <1>2, <3>1, <3>2 DEF Paired
    <3>4. p + 1 = Len(s) + (q + 1) /\ p + 1 \in 1..Len(w)
      BY <1>1, <3>1, <3>3
    <3> QED
      BY <1>1, <3>2, <3>3, <3>4
  <2> QED
    BY <1>1, <2>1, <2>2
<1> QED
  BY <1>2 DEF Paired, w

\* A list without links has no pairs to break.
LEMMA Unlinked ==
  ASSUME NEW s, IsList(s), \A row \in Range(s) : row.kind # "aka"
  PROVE  Paired(s)
BY DEF Paired, IsList, Range

\* The rows that say what a commit knows come before all others.
Starts(s, w) == IsList(w) /\ Len(s) \in Nat /\ Len(s) <= Len(w) /\ \A i \in 1..Len(s) : w[i] = s[i]
Knows(S) == ManifestRows(S) \o Allocation(S).rows

\* What comes first still does when more is written.
LEMMA StartsOn ==
  ASSUME NEW s, NEW w, NEW t, Starts(s, w), IsList(t)
  PROVE  Starts(s, w \o t)
<1>1. /\ IsList(w \o t) /\ Len(w \o t) = Len(w) + Len(t) /\ Len(w) \in Nat /\ Len(t) \in Nat
      /\ \A i \in 1..Len(w) : (w \o t)[i] = w[i]
  BY Joined DEF Starts
<1>2. \A i \in 1..Len(s) : i \in 1..Len(w)
  BY <1>1 DEF Starts
<1>3. Len(s) <= Len(w \o t)
  BY <1>1 DEF Starts
<1> QED
  BY <1>1, <1>2, <1>3 DEF Starts

RowOf(S, row) ==
  \/ OfManifest(S, row) \/ IdentityRow(S, Allocation(S), row) \/ FactOf(S, row)
  \/ LinkRow(S, row) \/ \E link : LinkRow(S, link) /\ row = EvidenceOf(link)
  \/ NamesakeRow(row) \/ row.kind \in {"fixture", "maybe_same_as", "evidence"} \union SideKinds

\* What a row is of, its kind says.
LEMMA KindsAre ==
  ASSUME NEW S, NEW row
  PROVE  /\ OfManifest(S, row) => row.kind \in {"shape", "name"}
         /\ IdentityRow(S, Allocation(S), row) => row.kind \in {"shape", "name"}
         /\ FactOf(S, row) => row.kind = "fact"
         /\ LinkRow(S, row) => row.kind = "aka"
         /\ \A link : row = EvidenceOf(link) => row.kind = "aka_evidence"
         /\ NamesakeRow(row) => row.kind = "distinct_from"
<1>1. \A kind, ids, at, thing, pos : Put(kind, ids, at, thing, pos).kind = kind
  BY DEF Put
<1>2. OfManifest(S, row) => row.kind \in {"shape", "name"}
  BY <1>1 DEF OfManifest
<1>3. IdentityRow(S, Allocation(S), row) => row.kind \in {"shape", "name"}
  BY <1>1 DEF IdentityRow
<1>4. FactOf(S, row) => row.kind = "fact"
  BY <1>1 DEF FactOf, FactRow
<1>5. LinkRow(S, row) => row.kind = "aka"
  BY <1>1 DEF LinkRow, LinkOf
<1>6. \A link : row = EvidenceOf(link) => row.kind = "aka_evidence"
  BY <1>1 DEF EvidenceOf
<1>7. NamesakeRow(row) => row.kind = "distinct_from"
  <2> SUFFICES ASSUME NamesakeRow(row) PROVE row.kind = "distinct_from"
    OBVIOUS
  <2>1. row = Put("distinct_from", row.ids, 0, Nothing, 0)
    BY DEF NamesakeRow
  <2>2. Put("distinct_from", row.ids, 0, Nothing, 0).kind = "distinct_from"
    BY <1>1
  <2> QED
    BY <2>1, <2>2
<1> QED
  BY <1>2, <1>3, <1>4, <1>5, <1>6, <1>7

\* What a commit writes, in the order it writes it.
LEMMA WritesAre ==
  ASSUME BookIs, NEW S, Chunks(S)
  PROVE  /\ IsList(Writes(S)) /\ Paired(Writes(S))
         /\ \A row \in Range(Writes(S)) : RowOf(S, row)
         /\ Starts(Knows(S), Writes(S)) /\ IsList(Knows(S))
         /\ \A row \in Range(Knows(S)) : row.kind # "fact"
         /\ Range(Knows(S)) = Range(ManifestRows(S)) \union Range(Allocation(S).rows)
<1> DEFINE a == Allocation(S)
           M == ManifestRows(S)
           A == a.rows
           F == FactRows(S, a.handles)
           P == ProposalRows(a.proposed)
           R == RevealRows(S)
           N == NamesakeRows
<1>1. AllocOf(S, a, Len(Declared(S)))
  BY AllocationIs
<1>2. IsList(M) /\ \A row \in Range(M) : OfManifest(S, row) \/ row.kind = "fixture"
  BY ManifestRowsAre
<1>3. IsList(A) /\ \A row \in Range(A) : IdentityRow(S, a, row)
  <2> HIDE DEF a
  <2> QED
    BY <1>1 DEF AllocOf, RowsFit
<1>4. IsList(F) /\ \A row \in Range(F) : FactOf(S, row) \/ row.kind \in SideKinds
  BY FactRowsAre DEF FactOf, FactOfOne
<1>5. IsList(P) /\ \A row \in Range(P) : row.kind \in {"maybe_same_as", "evidence"}
  <2>1. IsFiniteSet(a.proposed)
    BY <1>1 DEF AllocOf, TakenFits
  <2> QED
    BY <2>1, ProposalRowsAre
<1>6. /\ IsList(R) /\ Paired(R)
      /\ \A row \in Range(R) : LinkRow(S, row) \/ \E link : LinkRow(S, link) /\ row = EvidenceOf(link)
  BY RevealRowsAre
<1>7. IsList(N) /\ \A row \in Range(N) : NamesakeRow(row)
  BY NamesakeRowsAre
<1>8. Writes(S) = ((((M \o A) \o F) \o P) \o R) \o N
  BY DEF Writes, Told
<1>9. Knows(S) = M \o A
  BY DEF Knows
<1>10. Paired(M) /\ Paired(A) /\ Paired(F) /\ Paired(P) /\ Paired(N)
  <2>1. \A row \in Range(M) \union Range(A) \union Range(F) \union Range(P) \union Range(N) :
          row.kind # "aka"
    BY <1>2, <1>3, <1>4, <1>5, <1>7, KindsAre DEF SideKinds
  <2> QED
    BY <1>2, <1>3, <1>4, <1>5, <1>7, <2>1, Unlinked
<1>11. \A row \in Range(M) \union Range(A) : row.kind # "fact"
  BY <1>2, <1>3, KindsAre
<1>12. \A row \in Range(M) \union Range(A) \union Range(F) \union Range(P) \union Range(R) \union Range(N) :
         RowOf(S, row)
  BY <1>2, <1>3, <1>4, <1>5, <1>6, <1>7 DEF RowOf
<1> HIDE DEF M, A, F, P, R, N, a
<1> DEFINE w1 == M \o A
           w2 == w1 \o F
           w3 == w2 \o P
           w4 == w3 \o R
           w5 == w4 \o N
<1>13. IsList(w1) /\ Range(w1) = Range(M) \union Range(A) /\ Paired(w1) /\ Starts(w1, w1)
  <2>1. IsList(w1) /\ Range(w1) = Range(M) \union Range(A) /\ Paired(w1)
    BY <1>2, <1>3, <1>10, Joined, PairedJoin
  <2> HIDE DEF w1
  <2>2. Len(w1) \in Nat
    BY <2>1 DEF IsList
  <2> QED
    BY <2>1, <2>2 DEF Starts
<1> HIDE DEF w1
<1>14. IsList(w2) /\ Range(w2) = Range(w1) \union Range(F) /\ Paired(w2) /\ Starts(w1, w2)
  BY <1>4, <1>10, <1>13, Joined, PairedJoin, StartsOn
<1> HIDE DEF w2
<1>15. IsList(w3) /\ Range(w3) = Range(w2) \union Range(P) /\ Paired(w3) /\ Starts(w1, w3)
  BY <1>5, <1>10, <1>14, Joined, PairedJoin, StartsOn
<1> HIDE DEF w3
<1>16. IsList(w4) /\ Range(w4) = Range(w3) \union Range(R) /\ Paired(w4) /\ Starts(w1, w4)
  BY <1>6, <1>15, Joined, PairedJoin, StartsOn
<1> HIDE DEF w4
<1>17. IsList(w5) /\ Range(w5) = Range(w4) \union Range(N) /\ Paired(w5) /\ Starts(w1, w5)
  BY <1>7, <1>10, <1>16, Joined, PairedJoin, StartsOn
<1>18. Writes(S) = w5 /\ Knows(S) = w1
  BY <1>8, <1>9 DEF w1, w2, w3, w4, w5
<1> HIDE DEF w5
<1>19. Range(w5) = Range(M) \union Range(A) \union Range(F) \union Range(P) \union Range(R) \union Range(N)
  BY <1>13, <1>14, <1>15, <1>16, <1>17
<1> QED
  BY <1>11, <1>12, <1>13, <1>17, <1>18, <1>19 DEF M, A, a

-----------------------------------------------------------------------------
(* The world: its genesis, its physics and its verdicts.                   *)

CharterRow(n) == Put("charter", {}, 0, Thing("charter", n, "", ""), 0)
GenesisKinds == {"charter", "physics"}
Unjudged == DOMAIN log \ judged

ListsAre ==
  /\ IsList(log) /\ IsList(todo) /\ proc \in {"down", "genesis", "up"}
  /\ spent \in [crashes : Nat, sessions : Nat] /\ due \subseteq DOMAIN log
  /\ \A i \in Physics : log[i].thing[4] \in Policies
  /\ \A i, j \in Physics : i = j
SessionIs ==
  \/ session = NoSession
  \/ \E n \in 0..Len(log) : session = [open |-> TRUE, since |-> n, prev |-> TRUE]
DownIs ==
  /\ todo = <<>> /\ due = {} /\ session = NoSession /\ inline = TRUE /\ Unjudged \subseteq loose
  /\ log # <<>> /\ Physics = {} => spent.crashes > 0
\* Genesis is at its first charter row, its second, its physics row, or behind that one.
GenesisIs ==
  /\ session = NoSession /\ policy \in Policies
  /\ \/ /\ log = <<>> /\ inline = FALSE /\ due = {} /\ Physics = {} /\ Len(todo) = 3
        /\ todo[1] = CharterRow(1) /\ todo[2] = CharterRow(2) /\ todo[3] = PhysicsRow(policy)
     \/ /\ Len(log) = 1 /\ inline = FALSE /\ due = {} /\ Physics = {} /\ Len(todo) = 2
        /\ todo[1] = CharterRow(2) /\ todo[2] = PhysicsRow(policy)
     \/ /\ log # <<>> /\ inline = TRUE /\ Unjudged \subseteq loose \union due /\ Physics = {}
        /\ Len(todo) = 1 /\ todo[1] = PhysicsRow(policy)
     \/ /\ log # <<>> /\ inline = TRUE /\ Unjudged \subseteq loose \union due /\ todo = <<>>
        /\ Physics # {} /\ policy = Stored
UpIs ==
  /\ log # <<>> /\ inline = ~session.open /\ Unjudged \subseteq loose \union Unsettled \union due
  /\ \A row \in Range(todo) : row.kind \notin GenesisKinds
  /\ IF Physics = {} THEN policy = Default /\ spent.crashes > 0 ELSE policy = Stored
WorldIs ==
  /\ ListsAre /\ SessionIs
  /\ proc = "down" => DownIs
  /\ proc = "genesis" => GenesisIs
  /\ proc = "up" => UpIs

\* A list without its first.
LEMMA Rest ==
  ASSUME NEW s, IsList(s), s # <<>>
  PROVE  /\ Len(s) \in Nat \ {0} /\ Head(s) = s[1] /\ Head(s) \in Range(s)
         /\ IsList(Tail(s)) /\ Len(Tail(s)) = Len(s) - 1
         /\ \A i \in 1..Len(Tail(s)) : Tail(s)[i] = s[i + 1]
         /\ Range(Tail(s)) \subseteq Range(s) /\ (Tail(s) = <<>> <=> Len(s) = 1)
<1> DEFINE t == Tail(s)
<1>1. s \in Seq(Range(s)) /\ Len(s) \in Nat \ {0} /\ Head(s) = s[1] /\ DOMAIN s = 1..Len(s)
  BY DEF IsList
<1>2. /\ t \in Seq(Range(s)) /\ Len(t) = Len(s) - 1
      /\ \A i \in 1..Len(t) : t[i] = s[i + 1]
  BY <1>1
<1>3. Head(s) \in Range(s)
  <2>1. 1 \in 1..Len(s)
    BY <1>1
  <2> QED
    BY <1>1, <2>1 DEF Range
<1>4. t = <<>> <=> Len(s) = 1
  BY <1>1, <1>2
<1> HIDE DEF t
<1>5. IsList(t) /\ Range(t) \subseteq Range(s)
  BY <1>2, ListOf
<1> QED
  BY <1>1, <1>2, <1>3, <1>4, <1>5 DEF t

\* The physics of a log with one row more.
LEMMA PhysicsAfter ==
  ASSUME IsList(log), NEW row, log' = Append(log, row)
  PROVE  /\ IsList(log') /\ Len(log') = Len(log) + 1 /\ Len(log) \in Nat /\ log' # <<>>
         /\ DOMAIN log' = DOMAIN log \union {Len(log) + 1} /\ DOMAIN log = 1..Len(log)
         /\ log'[Len(log) + 1] = row
         /\ \A i \in DOMAIN log : log'[i] = log[i]
         /\ row.kind = "physics" => Physics' = Physics \union {Len(log) + 1}
         /\ row.kind # "physics" => Physics' = Physics /\ Stored' = Stored
<1>1. /\ IsList(log') /\ Len(log') = Len(log) + 1 /\ Len(log) \in Nat
      /\ \A i \in 1..Len(log) : log'[i] = log[i]
      /\ log'[Len(log) + 1] = row /\ DOMAIN log = 1..Len(log)
  BY Appended
<1>2. DOMAIN log' = 1..(Len(log) + 1)
  BY <1>1 DEF IsList
<1>3. DOMAIN log' = DOMAIN log \union {Len(log) + 1}
  BY <1>1, <1>2
<1>4. log' # <<>>
  BY <1>1, NoRows
<1>5. row.kind = "physics" => Physics' = Physics \union {Len(log) + 1}
  BY <1>1, <1>3 DEF Physics
<1>6. ASSUME row.kind # "physics" PROVE Physics' = Physics /\ Stored' = Stored
  <2>1. Physics' = Physics
    BY <1>1, <1>3, <1>6 DEF Physics
  <2>2. ASSUME Physics # {} PROVE Min(Physics) \in DOMAIN log
    <3>1. Physics \in SUBSET Nat /\ Physics \subseteq DOMAIN log
      BY <1>1 DEF Physics
    <3> QED
      BY <2>2, <3>1, MinIs
  <2>3. Physics # {} => log'[Min(Physics)] = log[Min(Physics)]
    BY <1>1, <2>2
  <2> QED
    BY <2>1, <2>3 DEF Stored
<1> QED
  BY <1>1, <1>3, <1>4, <1>5, <1>6

\* What a commit writes is no part of a genesis.
LEMMA WritesNoGenesis ==
  ASSUME BookIs, NEW S, Chunks(S)
  PROVE  IsList(Writes(S)) /\ \A row \in Range(Writes(S)) : row.kind \notin GenesisKinds
<1>1. IsList(Writes(S)) /\ \A row \in Range(Writes(S)) : RowOf(S, row)
  BY WritesAre
<1>2. ASSUME NEW row, RowOf(S, row) PROVE row.kind \notin GenesisKinds
  BY <1>2, KindsAre DEF RowOf, GenesisKinds, SideKinds
<1> QED
  BY <1>1, <1>2

\* A new world file is empty.
LEMMA WorldInit == ASSUME Init PROVE WorldIs
<1>1. /\ log = <<>> /\ judged = {} /\ due = {} /\ proc = "down" /\ policy = Default /\ inline = TRUE
      /\ session = NoSession /\ todo = <<>> /\ loose = {}
      /\ spent = [crashes |-> 0, sessions |-> 0]
  BY DEF Init
<1>2. DOMAIN log = {}
  BY <1>1
<1>3. Physics = {} /\ Unjudged = {}
  BY <1>2 DEF Physics, Unjudged
<1>4. ListsAre
  BY <1>1, <1>3, NoRows DEF ListsAre
<1> QED
  BY <1>1, <1>3, <1>4 DEF WorldIs, SessionIs, DownIs

\* What genesis has to write.
LEMMA FirstTodo ==
  ASSUME NEW p
  PROVE  /\ IsList(Charter \o <<PhysicsRow(p)>>) /\ Len(Charter \o <<PhysicsRow(p)>>) = 3
         /\ (Charter \o <<PhysicsRow(p)>>)[1] = CharterRow(1)
         /\ (Charter \o <<PhysicsRow(p)>>)[2] = CharterRow(2)
         /\ (Charter \o <<PhysicsRow(p)>>)[3] = PhysicsRow(p)
<1> DEFINE a == CharterRow(1)
           b == CharterRow(2)
           c == PhysicsRow(p)
<1>1. Charter = <<a, b>>
  BY DEF Charter, CharterRow
<1> HIDE DEF a, b, c
<1>2. IsList(<<a, b>>) /\ Len(<<a, b>>) = 2 /\ <<a, b>>[1] = a /\ <<a, b>>[2] = b
  BY RowsOfOne
<1>3. IsList(<<c>>) /\ Len(<<c>>) = 1 /\ <<c>>[1] = c
  BY RowsOfOne
<1> DEFINE s == <<a, b>>
           t == <<c>>
<1>4. /\ IsList(s \o t) /\ Len(s \o t) = Len(s) + Len(t)
      /\ \A i \in 1..Len(s) : (s \o t)[i] = s[i]
      /\ \A i \in 1..Len(t) : (s \o t)[Len(s) + i] = t[i]
  BY <1>2, <1>3, Joined
<1>5. Len(s) = 2 /\ Len(t) = 1 /\ s[1] = a /\ s[2] = b /\ t[1] = c
  BY <1>2, <1>3
<1> HIDE DEF s, t
<1>6. 1 \in 1..Len(s) /\ 2 \in 1..Len(s) /\ 1 \in 1..Len(t) /\ Len(s) + 1 = 3
  BY <1>5
<1>7. IsList(s \o t) /\ Len(s \o t) = 3 /\ (s \o t)[1] = a /\ (s \o t)[2] = b /\ (s \o t)[3] = c
  BY <1>4, <1>5, <1>6
<1> QED
  BY <1>1, <1>7 DEF a, b, c, s, t

\* What the world records is a policy, if it records one.
LEMMA StoredIs ==
  ASSUME WorldIs
  PROVE  /\ Stored = NoPolicy <=> Physics = {}
         /\ Physics # {} => Stored \in Policies /\ Min(Physics) \in Physics
<1>1. Physics # {} => Min(Physics) \in Physics
  <2>1. IsList(log)
    BY DEF WorldIs, ListsAre
  <2>2. Physics \in SUBSET Nat
    BY <2>1 DEF Physics, IsList
  <2> QED
    BY <2>2, MinIs
<1>2. Physics # {} => Stored \in Policies
  BY <1>1 DEF Stored, WorldIs, ListsAre
<1>3. NoPolicy \notin Policies
  BY BuildConstants
<1>4. Physics = {} => Stored = NoPolicy
  BY DEF Stored
<1> QED
  BY <1>1, <1>2, <1>3, <1>4

\* A world opens, with its genesis ahead of it or behind it.
LEMMA OpenStep ==
  ASSUME WorldIs, NEW p \in Policies \union {NoPolicy}, Open(p)
  PROVE  WorldIs'
<1>1. /\ proc = "down" /\ policy' = Effective(p) /\ session' = NoSession
      /\ inline' = (log # <<>>) /\ proc' = IF todo' = <<>> THEN "up" ELSE "genesis"
      /\ UNCHANGED <<log, judged, due, batch, done, spent, loose>>
      /\ Stored = NoPolicy \/ p \in {NoPolicy, Stored}
  BY DEF Open
<1>2. todo' = IF log = <<>> THEN Charter \o <<PhysicsRow(Effective(p))>>
              ELSE IF Stored = NoPolicy /\ p # NoPolicy THEN <<PhysicsRow(p)>> ELSE <<>>
  BY DEF Open
<1>3. DownIs /\ ListsAre /\ due = {} /\ due' = {}
  BY <1>1 DEF WorldIs, DownIs
<1>4. Physics' = Physics /\ Stored' = Stored /\ Unjudged' = Unjudged
  BY <1>1 DEF Physics, Stored, Unjudged
<1>5. Default \in Policies /\ NoPolicy \notin Policies
  BY BuildConstants
<1>6. Effective(p) \in Policies
  BY <1>5, StoredIs DEF Effective
<1>7. SessionIs'
  BY <1>1 DEF SessionIs
<1>8. ASSUME IsList(todo') PROVE ListsAre'
  <2>1. \A i \in Physics' : log'[i].thing[4] \in Policies
    BY <1>1, <1>3, <1>4 DEF ListsAre
  <2>2. \A i, j \in Physics' : i = j
    BY <1>3, <1>4 DEF ListsAre
  <2>3. proc' \in {"down", "genesis", "up"}
    BY <1>1
  <2> QED
    BY <1>1, <1>3, <1>8, <2>1, <2>2, <2>3 DEF ListsAre
<1>9. CASE log = <<>>
  <2>1. todo' = Charter \o <<PhysicsRow(policy')>>
    BY <1>1, <1>2, <1>9
  <2>2. /\ IsList(todo') /\ Len(todo') = 3 /\ todo'[1] = CharterRow(1)
        /\ todo'[2] = CharterRow(2) /\ todo'[3] = PhysicsRow(policy')
    BY <2>1, FirstTodo
  <2>3. todo' # <<>>
    BY <2>2, NoRows
  <2>4. proc' = "genesis" /\ inline' = FALSE
    BY <1>1, <1>9, <2>3
  <2>5. Physics = {}
    <3>1. DOMAIN log = {}
      BY <1>9
    <3> QED
      BY <3>1 DEF Physics
  <2>6. GenesisIs'
    <3>1. CharterRow(1)' = CharterRow(1) /\ CharterRow(2)' = CharterRow(2)
      BY DEF CharterRow
    <3>2. PhysicsRow(policy)' = PhysicsRow(policy')
      BY DEF PhysicsRow
    <3>3. policy' \in Policies /\ log' = <<>> /\ Physics' = {} /\ session' = NoSession'
      BY <1>1, <1>4, <1>6, <1>9, <2>5 DEF NoSession
    <3> QED
      BY <1>3, <2>2, <2>4, <3>1, <3>2, <3>3 DEF GenesisIs
  <2> QED
    BY <1>7, <1>8, <2>2, <2>4, <2>6 DEF WorldIs
<1>10. CASE log # <<>> /\ Stored = NoPolicy /\ p # NoPolicy
  <2>1. todo' = <<PhysicsRow(p)>> /\ policy' = p
    BY <1>1, <1>2, <1>10 DEF Effective
  <2> DEFINE r == PhysicsRow(p)
  <2>2. IsList(<<r>>) /\ Len(<<r>>) = 1 /\ <<r>>[1] = r
    BY RowsOfOne
  <2> HIDE DEF r
  <2>3. IsList(todo') /\ Len(todo') = 1 /\ todo'[1] = r /\ todo' # <<>>
    BY <2>1, <2>2, NoRows DEF r
  <2>4. proc' = "genesis" /\ inline' = TRUE
    BY <1>1, <1>10, <2>3
  <2>5. GenesisIs'
    <3>1. policy' \in Policies /\ log' # <<>> /\ Physics' = {} /\ session' = NoSession
      BY <1>1, <1>4, <1>6, <1>10, StoredIs
    <3>2. todo'[1] = PhysicsRow(policy') /\ Len(todo') = 1
      BY <2>1, <2>3 DEF r
    <3>3. Unjudged' \subseteq loose'
      BY <1>1, <1>3, <1>4 DEF DownIs
    <3> QED
      BY <2>4, <3>1, <3>2, <3>3 DEF GenesisIs
  <2> QED
    BY <1>7, <1>8, <2>3, <2>4, <2>5 DEF WorldIs
<1>11. CASE log # <<>> /\ ~(Stored = NoPolicy /\ p # NoPolicy)
  <2>1. todo' = <<>> /\ proc' = "up" /\ inline' = TRUE /\ log' # <<>>
    BY <1>1, <1>2, <1>11
  <2>2. Unjudged' \subseteq loose' \union Unsettled' \union due'
    BY <1>1, <1>3, <1>4 DEF DownIs
  <2>3. session'.open = FALSE
    BY <1>1 DEF NoSession
  <2>4. IF Physics' = {} THEN policy' = Default /\ spent'.crashes > 0 ELSE policy' = Stored'
    <3>1. CASE Physics = {}
      <4>1. Stored = NoPolicy /\ p = NoPolicy
        BY <1>11, <3>1, StoredIs
      <4>2. policy' = Default
        BY <1>1, <4>1 DEF Effective
      <4>3. spent.crashes > 0
        BY <1>3, <1>11, <3>1 DEF DownIs
      <4> QED
        BY <1>1, <1>4, <3>1, <4>2, <4>3
    <3>2. CASE Physics # {}
      <4>1. Stored # NoPolicy
        BY <3>2, StoredIs
      <4>2. policy' = Stored
        BY <1>1, <4>1 DEF Effective
      <4> QED
        BY <1>4, <3>2, <4>2
    <3> QED
      BY <3>1, <3>2
  <2>5. \A row \in Range(todo') : row.kind \notin GenesisKinds
    BY <2>1, NoRows
  <2>6. IsList(todo')
    BY <2>1, NoRows
  <2>7. UpIs'
    BY <2>1, <2>2, <2>3, <2>4, <2>5 DEF UpIs
  <2> QED
    BY <1>7, <1>8, <2>1, <2>6, <2>7 DEF WorldIs
<1> QED
  BY <1>9, <1>10, <1>11

\* A world closes, or dies.
LEMMA DownStep ==
  ASSUME WorldIs, Crash \/ Close
  PROVE  WorldIs'
<1>1. /\ proc' = "down" /\ todo' = <<>> /\ due' = {} /\ session' = NoSession /\ inline' = TRUE
      /\ UNCHANGED <<log, judged, policy, batch, done>>
  BY DEF Crash, Close, Down
<1>2. Physics' = Physics /\ Unjudged' = Unjudged
  BY <1>1 DEF Physics, Unjudged
<1>3. ListsAre
  BY DEF WorldIs
<1>4. /\ spent' \in [crashes : Nat, sessions : Nat] /\ spent'.crashes >= spent.crashes
      /\ Crash => spent'.crashes > 0
  <2>1. spent \in [crashes : Nat, sessions : Nat]
    BY <1>3 DEF ListsAre
  <2>2. CASE Crash
    <3>1. spent' = [spent EXCEPT !.crashes = @ + 1]
      BY <2>2 DEF Crash
    <3> QED
      BY <2>1, <3>1
  <2>3. CASE Close
    <3>1. spent' = spent
      BY <2>3 DEF Close
    <3> QED
      BY <2>1, <2>2, <3>1
  <2> QED
    BY <2>2, <2>3
<1>5. ListsAre'
  <2>1. \A i \in Physics' : log'[i].thing[4] \in Policies
    BY <1>1, <1>2, <1>3 DEF ListsAre
  <2>2. \A i, j \in Physics' : i = j
    BY <1>2, <1>3 DEF ListsAre
  <2>3. IsList(todo')
    BY <1>1, NoRows
  <2> QED
    BY <1>1, <1>3, <1>4, <2>1, <2>2, <2>3 DEF ListsAre
<1>6. proc = "genesis" \/ proc = "up"
  BY <1>3 DEF Crash, Close, Idle, ListsAre
<1>7. Unjudged' \subseteq loose'
  <2>1. CASE Crash
    <3>1. loose' = loose \union Unsettled \union due \union (IF proc = "genesis" THEN Unjudged ELSE {})
      BY <2>1 DEF Crash, Unjudged
    <3>2. CASE proc = "genesis"
      BY <1>2, <3>1, <3>2
    <3>3. CASE proc = "up"
      BY <1>2, <3>1, <3>3 DEF WorldIs, UpIs
    <3> QED
      BY <1>6, <3>2, <3>3
  <2>2. CASE Close
    <3>1. loose' = loose \union Unsettled /\ proc = "up" /\ due = {}
      BY <2>2 DEF Close, Idle
    <3> QED
      BY <1>2, <3>1 DEF WorldIs, UpIs
  <2> QED
    BY <2>1, <2>2
<1>8. ASSUME Physics = {} PROVE spent'.crashes > 0
  <2>1. CASE Crash
    BY <1>4, <2>1
  <2>2. CASE Close
    <3>1. spent.crashes > 0
      BY <1>8, <2>2 DEF WorldIs, UpIs, Close, Idle
    <3>2. spent' = spent
      BY <2>2 DEF Close
    <3> QED
      BY <3>1, <3>2
  <2> QED
    BY <2>1, <2>2
<1>9. DownIs' /\ SessionIs'
  BY <1>1, <1>2, <1>7, <1>8 DEF DownIs, SessionIs
<1> QED
  BY <1>1, <1>5, <1>9 DEF WorldIs

\* The rows a genesis has still to write end with its physics.
LEMMA GenesisTodo ==
  ASSUME WorldIs, proc = "genesis", todo # <<>>
  PROVE  /\ IsList(todo) /\ Physics = {} /\ Len(Tail(todo)) = Len(todo) - 1 /\ IsList(Tail(todo))
         /\ \/ /\ Len(todo) > 1 /\ Head(todo).kind = "charter" /\ inline = FALSE /\ Tail(todo) # <<>>
               /\ \/ /\ Len(todo) = 3 /\ log = <<>> /\ Tail(todo)[1] = CharterRow(2)
                     /\ Tail(todo)[2] = PhysicsRow(policy)
                     /\ \E r \in Range(Tail(todo)) : r.kind = "charter"
                  \/ /\ Len(todo) = 2 /\ Len(log) = 1 /\ Tail(todo)[1] = PhysicsRow(policy)
                     /\ ~\E r \in Range(Tail(todo)) : r.kind = "charter"
            \/ /\ Len(todo) = 1 /\ Head(todo) = PhysicsRow(policy) /\ inline = TRUE
               /\ Unjudged \subseteq loose \union due /\ Tail(todo) = <<>> /\ log # <<>>
               /\ ~\E r \in Range(Tail(todo)) : r.kind = "charter"
<1>1. GenesisIs /\ IsList(todo)
  BY DEF WorldIs, ListsAre
<1>2. Physics = {} /\ (Len(todo) = 3 \/ Len(todo) = 2 \/ Len(todo) = 1)
  BY <1>1 DEF GenesisIs
<1> DEFINE t == Tail(todo)
<1>3. /\ Len(todo) \in Nat \ {0} /\ Head(todo) = todo[1] /\ IsList(t) /\ Len(t) = Len(todo) - 1
      /\ \A i \in 1..Len(t) : t[i] = todo[i + 1]
      /\ t = <<>> <=> Len(todo) = 1
  BY <1>1, Rest
<1>4. DOMAIN t = 1..Len(t)
  BY <1>3 DEF IsList
<1>5. \A n : CharterRow(n).kind = "charter"
  BY DEF CharterRow, Put
<1>6. PhysicsRow(policy).kind = "physics"
  BY DEF PhysicsRow, Put
<1> HIDE DEF t
<1>7. CASE Len(todo) = 3
  <2>1. t[1] = todo[2] /\ t[2] = todo[3] /\ 1 \in DOMAIN t
    BY <1>3, <1>4, <1>7
  <2>2. /\ log = <<>> /\ inline = FALSE /\ todo[1] = CharterRow(1) /\ todo[2] = CharterRow(2)
        /\ todo[3] = PhysicsRow(policy)
    BY <1>1, <1>7 DEF GenesisIs
  <2>3. \E r \in Range(t) : r.kind = "charter"
    BY <1>5, <2>1, <2>2 DEF Range
  <2>4. /\ Len(todo) > 1 /\ Head(todo).kind = "charter" /\ t # <<>>
        /\ t[1] = CharterRow(2) /\ t[2] = PhysicsRow(policy)
    BY <1>3, <1>5, <1>7, <2>1, <2>2
  <2> QED
    BY <1>1, <1>2, <1>3, <1>7, <2>2, <2>3, <2>4 DEF t
<1>8. CASE Len(todo) = 2
  <2>1. t[1] = todo[2] /\ Len(t) = 1
    BY <1>3, <1>8
  <2>2. Len(log) = 1 /\ inline = FALSE /\ todo[1] = CharterRow(2) /\ todo[2] = PhysicsRow(policy)
    BY <1>1, <1>8 DEF GenesisIs
  <2>3. \A i \in 1..1 : i = 1
    OBVIOUS
  <2>4. ~\E r \in Range(t) : r.kind = "charter"
    BY <1>4, <1>6, <2>1, <2>2, <2>3 DEF Range
  <2> QED
    BY <1>1, <1>2, <1>3, <1>5, <1>8, <2>1, <2>2, <2>4 DEF t
<1>9. CASE Len(todo) = 1
  <2>1. log # <<>> /\ inline = TRUE /\ todo[1] = PhysicsRow(policy) /\ Unjudged \subseteq loose \union due
    BY <1>1, <1>9 DEF GenesisIs
  <2>2. t = <<>>
    BY <1>3, <1>9
  <2>3. ~\E r \in Range(t) : r.kind = "charter"
    BY <2>2, NoRows
  <2> QED
    BY <1>1, <1>2, <1>3, <1>9, <2>1, <2>2, <2>3 DEF t
<1> QED
  BY <1>2, <1>7, <1>8, <1>9

\* Genesis writes a row.
LEMMA FoundStep ==
  ASSUME WorldIs, Found
  PROVE  WorldIs'
<1> DEFINE t == Tail(todo)
           whole == ~(\E r \in Range(t) : r.kind = "charter")
<1>1. /\ proc = "genesis" /\ proc' = "genesis" /\ todo # <<>> /\ due = {}
      /\ log' = Append(log, Head(todo)) /\ todo' = t /\ inline' = whole
      /\ due' = IF inline THEN {Len(log')} ELSE IF whole THEN DOMAIN log' ELSE {}
      /\ UNCHANGED <<judged, policy, session, spent, loose>>
  BY DEF Found
<1>2. GenesisIs /\ ListsAre /\ SessionIs
  BY <1>1 DEF WorldIs
<1>3. session' = NoSession /\ SessionIs' /\ Physics = {} /\ policy \in Policies /\ policy' = policy
  BY <1>1, <1>2, GenesisTodo DEF GenesisIs, SessionIs
<1>4. /\ IsList(t) /\ Len(t) = Len(todo) - 1
      /\ \/ /\ Len(todo) > 1 /\ Head(todo).kind = "charter" /\ inline = FALSE /\ t # <<>>
            /\ \/ /\ Len(todo) = 3 /\ log = <<>> /\ t[1] = CharterRow(2)
                  /\ t[2] = PhysicsRow(policy) /\ ~whole
               \/ Len(todo) = 2 /\ Len(log) = 1 /\ t[1] = PhysicsRow(policy) /\ whole
         \/ /\ Len(todo) = 1 /\ Head(todo) = PhysicsRow(policy) /\ inline = TRUE
            /\ Unjudged \subseteq loose \union due /\ t = <<>> /\ log # <<>> /\ whole
  BY <1>1, GenesisTodo
<1> HIDE DEF whole, t
<1>5. IsList(log)
  BY <1>2 DEF ListsAre
<1>6. /\ IsList(log') /\ Len(log') = Len(log) + 1 /\ Len(log) \in Nat /\ log' # <<>>
      /\ DOMAIN log' = DOMAIN log \union {Len(log) + 1} /\ DOMAIN log = 1..Len(log)
      /\ log'[Len(log) + 1] = Head(todo)
      /\ Head(todo).kind = "physics" => Physics' = Physics \union {Len(log) + 1}
      /\ Head(todo).kind # "physics" => Physics' = Physics /\ Stored' = Stored
  BY <1>1, <1>5, PhysicsAfter
<1>7. CharterRow(2)' = CharterRow(2)
  BY DEF CharterRow
<1>8. PhysicsRow(policy)' = PhysicsRow(policy)
  BY <1>3 DEF PhysicsRow
<1>9. CASE Len(todo) > 1
  <2>1. /\ Head(todo).kind = "charter" /\ t # <<>> /\ inline = FALSE
        /\ \/ /\ Len(todo) = 3 /\ log = <<>> /\ t[1] = CharterRow(2)
              /\ t[2] = PhysicsRow(policy) /\ ~whole
           \/ Len(todo) = 2 /\ Len(log) = 1 /\ t[1] = PhysicsRow(policy) /\ whole
    BY <1>4, <1>9
  <2>2. Physics' = {} /\ due' = IF whole THEN DOMAIN log' ELSE {}
    BY <1>1, <1>3, <1>6, <2>1
  <2>3. ListsAre'
    BY <1>1, <1>2, <1>4, <1>6, <2>2 DEF ListsAre
  <2>4. CASE Len(todo) = 3
    <3>1. log = <<>> /\ t[1] = CharterRow(2) /\ t[2] = PhysicsRow(policy) /\ ~whole
      BY <2>1, <2>4
    <3>2. Len(log) = 0
      BY <3>1, NoRows
    <3>3. Len(log') = 1 /\ Len(t) = 2
      BY <1>4, <1>6, <2>4, <3>2
    <3>4. inline' = FALSE /\ due' = {} /\ todo' = t
      BY <1>1, <2>2, <3>1 DEF whole
    <3>5. GenesisIs'
      BY <1>3, <1>7, <1>8, <2>2, <3>1, <3>3, <3>4 DEF GenesisIs, NoSession
    <3> QED
      BY <1>1, <1>3, <2>3, <3>5 DEF WorldIs
  <2>5. CASE Len(todo) = 2
    <3>1. t[1] = PhysicsRow(policy) /\ whole /\ Len(t) = 1
      BY <1>4, <2>1, <2>5
    <3>2. due' = DOMAIN log'
      BY <2>2, <3>1
    <3>3. Unjudged' \subseteq due'
      BY <3>2 DEF Unjudged
    <3>4. GenesisIs'
      BY <1>1, <1>3, <1>6, <1>8, <2>2, <3>1, <3>3 DEF GenesisIs, NoSession
    <3> QED
      BY <1>1, <1>3, <2>3, <3>4 DEF WorldIs
  <2> QED
    BY <2>1, <2>4, <2>5
<1>10. CASE Len(todo) = 1
  <2> DEFINE n == Len(log) + 1
  <2>1. /\ Head(todo) = PhysicsRow(policy) /\ inline = TRUE /\ Unjudged \subseteq loose
        /\ t = <<>> /\ whole
    BY <1>1, <1>4, <1>10
  <2>2. Head(todo).kind = "physics" /\ Head(todo).thing[4] = policy
    <3> DEFINE what == <<"physics", 0, "", policy>>
    <3>1. Head(todo) = [kind |-> "physics", ids |-> {}, at |-> 0, thing |-> what, pos |-> 0]
      BY <2>1 DEF PhysicsRow, Put, Thing
    <3>2. what[4] = policy
      OBVIOUS
    <3> HIDE DEF what
    <3> QED
      BY <3>1, <3>2
  <2>3. Physics' = {n} /\ log'[n] = Head(todo) /\ n \in Nat
    BY <1>3, <1>6, <2>2
  <2>4. due' = {n} /\ due' \subseteq DOMAIN log'
    BY <1>1, <1>6, <2>1
  <2> HIDE DEF n
  <2>5. ListsAre'
    <3>1. \A i \in Physics' : log'[i].thing[4] \in Policies
      BY <1>3, <2>2, <2>3
    <3>2. \A i, j \in Physics' : i = j
      BY <2>3
    <3> QED
      BY <1>1, <1>2, <1>4, <1>6, <2>4, <3>1, <3>2 DEF ListsAre
  <2>6. Stored' = policy
    <3>1. Min({n}) = n
      <4> DEFINE S == {n}
      <4>1. S \in SUBSET Nat /\ S # {}
        BY <2>3
      <4> HIDE DEF S
      <4>2. Min(S) \in S
        BY <4>1, MinIs
      <4> QED
        BY <4>2 DEF S
    <3>2. Stored' = log'[Min(Physics')].thing[4]
      <4>1. Physics' # {}
        BY <2>3
      <4>2. Min(Physics)' = Min(Physics')
        BY DEF Min
      <4> QED
        BY <4>1, <4>2 DEF Stored
    <3> QED
      BY <2>2, <2>3, <3>1, <3>2
  <2>7. Unjudged' \subseteq loose' \union due'
    <3>1. Unjudged' \subseteq Unjudged \union {n}
      BY <1>1, <1>6 DEF Unjudged, n
    <3> QED
      BY <1>1, <2>1, <2>4, <3>1
  <2>8. GenesisIs'
    <3>1. Physics' # {} /\ policy' = Stored' /\ inline' = TRUE /\ todo' = <<>> /\ log' # <<>>
      BY <1>1, <1>3, <1>6, <2>1, <2>3, <2>6
    <3> QED
      BY <1>3, <2>7, <3>1 DEF GenesisIs, NoSession
  <2> QED
    BY <1>1, <1>3, <2>5, <2>8 DEF WorldIs
<1> QED
  BY <1>4, <1>9, <1>10

\* A session begins, is sealed or aborted, or its pass raises.
LEMMA SessionStep ==
  ASSUME WorldIs,
         BeginBuild \/ AbortBuild \/ \E scope \in {"session", "all"} : SealBuild(scope) \/ SealRaises(scope)
  PROVE  WorldIs'
<1>1. /\ proc = "up" /\ todo = <<>> /\ due = {} /\ UNCHANGED <<log, due, proc, policy, todo>>
  BY DEF BeginBuild, AbortBuild, SealBuild, SealRaises, EndSession, Idle
<1>2. UpIs /\ ListsAre /\ SessionIs
  BY <1>1 DEF WorldIs
<1>3. Physics' = Physics /\ Stored' = Stored
  BY <1>1 DEF Physics, Stored
<1>4. spent' \in [crashes : Nat, sessions : Nat] /\ spent'.crashes = spent.crashes
  <2>1. spent \in [crashes : Nat, sessions : Nat]
    BY <1>2 DEF ListsAre
  <2>2. CASE BeginBuild
    <3>1. spent' = [spent EXCEPT !.sessions = @ + 1]
      BY <2>2 DEF BeginBuild
    <3> QED
      BY <2>1, <3>1
  <2>3. CASE ~BeginBuild
    <3>1. spent' = spent
      BY <2>3 DEF AbortBuild, SealBuild, SealRaises, EndSession
    <3> QED
      BY <2>1, <3>1
  <2> QED
    BY <2>2, <2>3
<1>5. ListsAre'
  BY <1>1, <1>2, <1>3, <1>4 DEF ListsAre
<1>6. IsList(log) /\ Len(log) \in Nat /\ DOMAIN log = 1..Len(log)
  BY <1>2 DEF ListsAre, IsList
<1>7. IF Physics' = {} THEN policy' = Default /\ spent'.crashes > 0 ELSE policy' = Stored'
  BY <1>1, <1>2, <1>3, <1>4 DEF UpIs
<1>8. ASSUME SessionIs', inline' = ~session'.open,
             Unjudged' \subseteq loose' \union Unsettled' \union due'
      PROVE  WorldIs'
  <2>1. log' # <<>> /\ \A row \in Range(todo') : row.kind \notin GenesisKinds
    BY <1>1, <1>2 DEF UpIs
  <2>2. UpIs'
    BY <1>7, <1>8, <2>1 DEF UpIs
  <2> QED
    BY <1>1, <1>5, <1>8, <2>2 DEF WorldIs
<1>9. CASE BeginBuild
  <2>1. /\ ~session.open /\ session' = [open |-> TRUE, since |-> Len(log), prev |-> inline]
        /\ inline' = FALSE /\ UNCHANGED <<judged, loose>>
    BY <1>9 DEF BeginBuild
  <2>2. inline = TRUE /\ Unsettled = {}
    BY <1>2, <2>1 DEF UpIs, Unsettled
  <2>3. SessionIs'
    <3>1. Len(log) \in 0..Len(log) /\ log' = log
      BY <1>1, <1>6
    <3> QED
      BY <2>1, <2>2, <3>1 DEF SessionIs
  <2>4. Unjudged' \subseteq loose'
    BY <1>1, <1>2, <2>1, <2>2 DEF UpIs, Unjudged
  <2>5. inline' = ~session'.open
    BY <2>1
  <2> QED
    BY <1>8, <2>3, <2>4, <2>5
<1>10. CASE EndSession
  <2>1. session' = NoSession /\ inline' = session.prev /\ session.open
    BY <1>10 DEF EndSession
  <2>2. session.prev = TRUE /\ session.since \in 0..Len(log)
    BY <1>2, <2>1 DEF SessionIs, NoSession
  <2>3. SessionIs' /\ inline' = ~session'.open
    BY <2>1, <2>2 DEF SessionIs, NoSession
  <2>4. Unsettled = (session.since + 1)..Len(log)
    BY <2>1 DEF Unsettled
  <2>5. Unjudged \subseteq loose \union Unsettled
    BY <1>1, <1>2 DEF UpIs
  <2>6. Unjudged' \subseteq loose'
    <3>1. CASE AbortBuild
      <4>1. loose' = loose \union Unsettled /\ judged' = judged
        BY <3>1 DEF AbortBuild
      <4> QED
        BY <1>1, <2>5, <4>1 DEF Unjudged
    <3>2. ASSUME NEW scope \in {"session", "all"}, SealBuild(scope) PROVE Unjudged' \subseteq loose'
      <4>1. judged' = judged \union Sealed(scope) /\ loose' = loose
        BY <3>2 DEF SealBuild
      <4>2. Unsettled \subseteq DOMAIN log
        BY <1>6, <2>2, <2>4
      <4>3. Unsettled \subseteq judged \union Sealed(scope)
        BY <2>4, <4>2 DEF Sealed
      <4> QED
        BY <1>1, <2>5, <4>1, <4>3 DEF Unjudged
    <3>3. ASSUME NEW scope \in {"session", "all"}, SealRaises(scope) PROVE Unjudged' \subseteq loose'
      <4>1. loose' = loose \union (Unsettled \ judged')
        BY <3>3 DEF SealRaises
      <4>2. judged \subseteq judged'
        BY <3>3 DEF SealRaises
      <4> QED
        BY <1>1, <2>5, <4>1, <4>2 DEF Unjudged
    <3>4. AbortBuild \/ \E scope \in {"session", "all"} : SealBuild(scope) \/ SealRaises(scope)
      <4>1. ~BeginBuild
        BY <2>1 DEF BeginBuild
      <4> QED
        BY <4>1
    <3> QED
      BY <3>1, <3>2, <3>3, <3>4
  <2> QED
    BY <1>8, <2>3, <2>6
<1> QED
  BY <1>9, <1>10 DEF AbortBuild, SealBuild, SealRaises

\* A commit begins.
LEMMA CommitStep ==
  ASSUME BookIs, ResultsAre, WorldIs, NEW S \in SUBSET DOMAIN plan, DOMAIN results = DOMAIN plan,
         Commit(S)
  PROVE  WorldIs' /\ Chunks(S)
<1>1. /\ proc = "up" /\ todo' = Writes(S) /\ Accepted(S)
      /\ UNCHANGED <<log, judged, due, proc, policy, inline, session, spent, loose>>
  BY DEF Commit, Idle
<1>2. Chunks(S)
  BY <1>1, ChunksAre
<1>3. IsList(todo') /\ \A row \in Range(todo') : row.kind \notin GenesisKinds
  BY <1>1, <1>2, WritesNoGenesis
<1>4. UpIs /\ ListsAre /\ SessionIs
  BY <1>1 DEF WorldIs
<1>5. Physics' = Physics /\ Stored' = Stored /\ Unjudged' = Unjudged /\ Unsettled' = Unsettled
  BY <1>1 DEF Physics, Stored, Unjudged, Unsettled
<1>6. ListsAre'
  <2>1. \A i \in Physics' : log'[i].thing[4] \in Policies
    BY <1>1, <1>4, <1>5 DEF ListsAre
  <2> QED
    BY <1>1, <1>3, <1>4, <1>5, <2>1 DEF ListsAre
<1>7. SessionIs'
  BY <1>1, <1>4 DEF SessionIs, NoSession
<1>8. UpIs'
  BY <1>1, <1>3, <1>4, <1>5 DEF UpIs
<1> QED
  BY <1>1, <1>2, <1>6, <1>7, <1>8 DEF WorldIs

\* A row of a commit is written, or stands already, and the rest is left.
LEMMA WriteIs ==
  ASSUME WorldIs, WriteRow
  PROVE  /\ proc = "up" /\ IsList(todo) /\ todo # <<>> /\ Head(todo) = todo[1]
         /\ \/ ~Noop(Head(todo)) /\ log' = Append(log, Head(todo)) /\ todo' = Tail(todo)
            \/ Noop(Head(todo)) /\ log' = log /\ Head(todo).kind # "aka" /\ todo' = Tail(todo)
            \/ Noop(Head(todo)) /\ log' = log /\ Head(todo).kind = "aka" /\ todo' = Tail(Tail(todo))
         /\ due' = due \union (IF Awaits(Head(todo)) THEN {Len(log')} ELSE {})
         /\ loose' = loose \union (IF inline /\ ~Awaits(Head(todo))
                                  THEN DOMAIN log' \ DOMAIN log ELSE {})
         /\ done' = (todo' = <<>> /\ due' = {})
         /\ UNCHANGED <<judged, proc, policy, inline, session, batch, spent>>
         /\ Head(todo).kind \notin GenesisKinds
<1>1. /\ proc = "up" /\ todo # <<>> /\ log' = Written /\ todo' = Left
      /\ due' = due \union (IF Awaits(Head(todo)) THEN {Len(log')} ELSE {})
      /\ loose' = loose \union (IF inline /\ ~Awaits(Head(todo))
                               THEN DOMAIN log' \ DOMAIN log ELSE {})
      /\ done' = (todo' = <<>> /\ due' = {})
      /\ UNCHANGED <<judged, proc, policy, inline, session, batch, spent>>
  BY DEF WriteRow
<1>2. IsList(todo) /\ UpIs
  BY <1>1 DEF WorldIs, ListsAre
<1>3. Head(todo) = todo[1] /\ Head(todo) \in Range(todo)
  BY <1>1, <1>2, Rest
<1>4. Head(todo).kind \notin GenesisKinds
  BY <1>2, <1>3 DEF UpIs
<1>5. Written = IF Noop(Head(todo)) THEN log ELSE Append(log, Head(todo))
  BY DEF Written
<1>6. Left = IF Noop(Head(todo)) /\ Head(todo).kind = "aka" THEN Tail(Tail(todo)) ELSE Tail(todo)
  BY DEF Left
<1> QED
  BY <1>1, <1>2, <1>3, <1>4, <1>5, <1>6

\* A commit writes a row, or finds it standing.
LEMMA WriteStep ==
  ASSUME WorldIs, WriteRow, Noop(Head(todo)) /\ Head(todo).kind = "aka" => Len(todo) > 1
  PROVE  WorldIs'
<1>1. /\ proc = "up" /\ IsList(todo) /\ todo # <<>>
      /\ \/ log' = Append(log, Head(todo)) /\ todo' = Tail(todo)
         \/ log' = log /\ todo' = Tail(todo)
         \/ log' = log /\ Len(todo) > 1 /\ todo' = Tail(Tail(todo))
      /\ due' = due \union (IF Awaits(Head(todo)) THEN {Len(log')} ELSE {})
      /\ loose' = loose \union (IF inline /\ ~Awaits(Head(todo))
                               THEN DOMAIN log' \ DOMAIN log ELSE {})
      /\ UNCHANGED <<judged, proc, policy, inline, session, spent>>
      /\ Head(todo).kind \notin GenesisKinds
  BY WriteIs
<1>2. UpIs /\ ListsAre /\ SessionIs
  BY <1>1 DEF WorldIs
<1>3. IsList(todo') /\ Range(todo') \subseteq Range(todo)
  <2>1. IsList(Tail(todo)) /\ Range(Tail(todo)) \subseteq Range(todo) /\ Len(todo) \in Nat
        /\ (Tail(todo) = <<>> <=> Len(todo) = 1)
    BY <1>1, Rest
  <2>2. Len(todo) > 1 => /\ IsList(Tail(Tail(todo)))
                         /\ Range(Tail(Tail(todo))) \subseteq Range(Tail(todo))
    <3> DEFINE t == Tail(todo)
               n == Len(todo)
    <3>0. IsList(t) /\ n \in Nat /\ (t = <<>> <=> n = 1)
      BY <2>1
    <3> HIDE DEF t, n
    <3>1. IsList(t) /\ (n > 1 => t # <<>>)
      BY <3>0
    <3>2. n > 1 => IsList(Tail(t)) /\ Range(Tail(t)) \subseteq Range(t)
      BY <3>1, Rest
    <3> QED
      BY <3>2 DEF t, n
  <2> QED
    BY <1>1, <2>1, <2>2
<1>4. IsList(log) /\ Len(log) \in Nat /\ DOMAIN log = 1..Len(log)
  BY <1>2 DEF ListsAre, IsList
<1>5. /\ IsList(log') /\ log' # <<>> /\ Len(log') \in Nat /\ DOMAIN log' = 1..Len(log')
      /\ Len(log) <= Len(log') /\ Len(log') \in DOMAIN log'
      /\ \A i \in DOMAIN log' : i \in DOMAIN log \/ i = Len(log')
      /\ \A i \in DOMAIN log : i \in DOMAIN log' /\ log'[i] = log[i]
      /\ Physics' = Physics /\ Stored' = Stored
  <2>1. CASE log' = Append(log, Head(todo))
    <3>1. Head(todo).kind # "physics"
      BY <1>1 DEF GenesisKinds
    <3>2. /\ IsList(log') /\ Len(log') = Len(log) + 1 /\ log' # <<>>
          /\ DOMAIN log' = DOMAIN log \union {Len(log) + 1}
          /\ \A i \in DOMAIN log : log'[i] = log[i]
          /\ Physics' = Physics /\ Stored' = Stored
      BY <1>4, <2>1, <3>1, PhysicsAfter
    <3>a. IsList(log')
      BY <3>2
    <3>3. DOMAIN log' = 1..Len(log')
      BY <3>a DEF IsList
    <3>4. Len(log') \in Nat /\ Len(log) <= Len(log')
      BY <1>4, <3>2
    <3>5. /\ \A i \in DOMAIN log : i \in DOMAIN log'
          /\ \A i \in DOMAIN log' : i \in DOMAIN log \/ i = Len(log')
          /\ Len(log') \in DOMAIN log'
      BY <3>2
    <3> QED
      BY <3>2, <3>3, <3>4, <3>5
  <2>2. CASE log' = log
    <3>1. Physics' = Physics /\ Stored' = Stored
      BY <2>2 DEF Physics, Stored
    <3>2. log # <<>>
      BY <1>2 DEF UpIs
    <3>3. Len(log) # 0
      BY <1>4, <3>2 DEF IsList
    <3>4. Len(log) \in DOMAIN log
      BY <1>4, <3>3
    <3> QED
      BY <1>4, <2>2, <3>1, <3>2, <3>4
  <2> QED
    BY <1>1, <2>1, <2>2
<1>6. ListsAre'
  <2>1. Physics \subseteq DOMAIN log
    BY DEF Physics
  <2>2. \A i \in Physics' : log'[i].thing[4] \in Policies
    BY <1>2, <1>5, <2>1 DEF ListsAre
  <2>3. due' \subseteq DOMAIN log'
    BY <1>1, <1>2, <1>5 DEF ListsAre
  <2> QED
    BY <1>1, <1>2, <1>3, <1>5, <2>2, <2>3 DEF ListsAre
<1>7. SessionIs'
  <2>1. CASE session = NoSession
    BY <1>1, <2>1 DEF SessionIs
  <2>2. ASSUME NEW n \in 0..Len(log), session = [open |-> TRUE, since |-> n, prev |-> TRUE]
        PROVE  SessionIs'
    <3>1. n \in 0..Len(log')
      BY <1>4, <1>5
    <3> QED
      BY <1>1, <2>2, <3>1 DEF SessionIs
  <2> QED
    BY <1>2, <2>1, <2>2 DEF SessionIs
<1>8. Unjudged' \subseteq loose' \union Unsettled' \union due'
  <2>1. CASE inline
    <3>1. \A i \in Unjudged' : i \in Unjudged \/ i \in DOMAIN log' \ DOMAIN log
      BY <1>1 DEF Unjudged
    <3>2. Unsettled = {}
      BY <1>2, <2>1 DEF UpIs, Unsettled
    <3>3. \A i \in DOMAIN log' \ DOMAIN log : i \in due' \/ i \in loose'
      BY <1>1, <1>5, <2>1
    <3>4. loose \subseteq loose' /\ due \subseteq due'
      BY <1>1
    <3> QED
      BY <1>2, <3>1, <3>2, <3>3, <3>4 DEF UpIs
  <2>2. CASE ~inline
    <3>a. session.open
      BY <1>2, <2>2 DEF UpIs
    <3>b. session # NoSession
      BY <3>a DEF NoSession
    <3>1. session.open /\ session.since \in 0..Len(log)
      BY <1>2, <3>a, <3>b DEF SessionIs
    <3>2. Unsettled = (session.since + 1)..Len(log)
      BY <3>1 DEF Unsettled
    <3>3. Unsettled' = (session.since + 1)..Len(log')
      BY <1>1, <3>1 DEF Unsettled
    <3>4. \A i \in DOMAIN log' : i \in DOMAIN log \/ i \in Unsettled'
      BY <1>4, <1>5, <3>1, <3>3
    <3>5. Unsettled \subseteq Unsettled'
      BY <1>4, <1>5, <3>1, <3>2, <3>3
    <3>6. judged' = judged /\ loose \subseteq loose' /\ due \subseteq due'
      BY <1>1
    <3> QED
      BY <1>2, <3>4, <3>5, <3>6 DEF UpIs, Unjudged
  <2> QED
    BY <2>1, <2>2
<1>9. UpIs'
  BY <1>1, <1>2, <1>3, <1>5, <1>8 DEF UpIs
<1> QED
  BY <1>1, <1>6, <1>7, <1>9 DEF WorldIs

\* A verdict comes, the last of a genesis opening the world.
LEMMA JudgeStep ==
  ASSUME WorldIs, Judge
  PROVE  WorldIs'
<1> DEFINE over == todo = <<>> /\ due' = {}
<1>1. /\ due # {} /\ judged' = judged \union {Min(due)} /\ due' = due \ {Min(due)}
      /\ proc' = IF over THEN "up" ELSE proc
      /\ UNCHANGED <<log, policy, inline, session, todo, spent, loose>>
  BY DEF Judge
<1>2. Physics' = Physics /\ Stored' = Stored /\ Unsettled' = Unsettled
  BY <1>1 DEF Physics, Stored, Unsettled
<1>3. ListsAre /\ SessionIs
  BY DEF WorldIs
<1>4. proc # "down"
  BY <1>1 DEF WorldIs, DownIs
<1>5. ListsAre'
  <2>1. proc' \in {"down", "genesis", "up"}
    BY <1>1, <1>3 DEF ListsAre
  <2>2. due' \subseteq DOMAIN log'
    BY <1>1, <1>3 DEF ListsAre
  <2> QED
    BY <1>1, <1>2, <1>3, <2>1, <2>2 DEF ListsAre
<1>6. SessionIs'
  BY <1>1, <1>3 DEF SessionIs, NoSession
<1>7. \A i \in Unjudged' : i \in Unjudged /\ (i \in due => i \in due')
  BY <1>1 DEF Unjudged
<1>8. CASE proc = "genesis"
  <2>1. GenesisIs
    BY <1>8 DEF WorldIs
  <2>2. session = NoSession /\ policy \in Policies /\ log # <<>> /\ inline = TRUE
        /\ Unjudged \subseteq loose \union due
    BY <1>1, <2>1 DEF GenesisIs
  <2>3. Unjudged' \subseteq loose' \union due'
    BY <1>1, <1>7, <2>2
  <2>4. \/ Physics = {} /\ Len(todo) = 1 /\ todo[1] = PhysicsRow(policy)
        \/ todo = <<>> /\ Physics # {} /\ policy = Stored
    BY <1>1, <2>1 DEF GenesisIs
  <2>5. CASE ~over
    <3>1. PhysicsRow(policy)' = PhysicsRow(policy)
      BY <1>1 DEF PhysicsRow
    <3>2. GenesisIs'
      BY <1>1, <1>2, <2>2, <2>3, <2>4, <3>1 DEF GenesisIs, NoSession
    <3> QED
      BY <1>1, <1>5, <1>6, <1>8, <2>5, <3>2 DEF WorldIs
  <2>6. CASE over
    <3>1. Physics # {} /\ policy = Stored
      BY <2>4, <2>6, NoRows
    <3>2. \A row \in Range(todo') : row.kind \notin GenesisKinds
      BY <1>1, <2>6, NoRows
    <3>3. session.open = FALSE
      BY <2>2 DEF NoSession
    <3>4. UpIs'
      BY <1>1, <1>2, <2>2, <2>3, <3>1, <3>2, <3>3 DEF UpIs
    <3> QED
      BY <1>1, <1>5, <1>6, <2>6, <3>4 DEF WorldIs
  <2> QED
    BY <2>5, <2>6
<1>9. CASE proc = "up"
  <2>1. UpIs
    BY <1>9 DEF WorldIs
  <2>2. Unjudged' \subseteq loose' \union Unsettled' \union due'
    BY <1>1, <1>2, <1>7, <2>1 DEF UpIs
  <2>3. UpIs'
    BY <1>1, <1>2, <2>1, <2>2 DEF UpIs
  <2> QED
    BY <1>1, <1>5, <1>6, <1>9, <2>3 DEF WorldIs
<1> QED
  BY <1>3, <1>4, <1>8, <1>9 DEF ListsAre

\* Extraction leaves the world as it is.
LEMMA WorldStays == ASSUME WorldIs, UNCHANGED world PROVE WorldIs'
<1>1. UNCHANGED <<log, judged, due, proc, policy, inline, session, todo, spent, loose>>
  BY DEF world
<1>2. Physics' = Physics /\ Stored' = Stored /\ Unjudged' = Unjudged /\ Unsettled' = Unsettled
  BY <1>1 DEF Physics, Stored, Unjudged, Unsettled
<1>3. ListsAre => ListsAre'
  BY <1>1, <1>2 DEF ListsAre
<1>4. SessionIs => SessionIs'
  BY <1>1 DEF SessionIs, NoSession
<1>5. DownIs => DownIs'
  BY <1>1, <1>2 DEF DownIs, NoSession
<1>6. UpIs => UpIs'
  BY <1>1, <1>2 DEF UpIs
<1>7. GenesisIs => GenesisIs'
  BY <1>1, <1>2 DEF GenesisIs, NoSession, CharterRow, PhysicsRow
<1> QED
  BY <1>1, <1>3, <1>4, <1>5, <1>6, <1>7 DEF WorldIs

-----------------------------------------------------------------------------
(* What is left without a verdict.                                         *)

\* Where nothing died and no session was opened, only what no pass judges is left.
Untroubled == spent.crashes + spent.sessions = 0
Judgeable == MainKinds \union GenesisKinds
LooseIs ==
  /\ loose \subseteq DOMAIN log
  /\ session.open => spent.sessions > 0
  /\ Untroubled => \A i \in loose : log[i].kind \notin Judgeable

LEMMA LooseInit == ASSUME Init PROVE LooseIs
BY DEF Init, LooseIs, NoSession

\* While rows are only added, what is left may grow by what no pass judges, and by
\* anything once something died or a session was opened.
LEMMA LooseGrows ==
  ASSUME LooseIs, DOMAIN log \subseteq DOMAIN log', \A i \in DOMAIN log : log'[i] = log[i],
         loose' \subseteq DOMAIN log', Untroubled' => Untroubled,
         session'.open => spent'.sessions > 0,
         Untroubled' => \A i \in loose' \ loose : log'[i].kind \notin Judgeable
  PROVE  LooseIs'
<1>1. ASSUME Untroubled', NEW i \in loose' PROVE log'[i].kind \notin Judgeable
  <2>1. CASE i \in loose
    BY <1>1, <2>1 DEF LooseIs
  <2>2. CASE i \notin loose
    BY <1>1, <2>2
  <2> QED
    BY <2>1, <2>2
<1>2. Judgeable' = Judgeable
  BY DEF Judgeable, MainKinds, GenesisKinds
<1> QED
  BY <1>1, <1>2 DEF LooseIs

LEMMA LooseStep ==
  ASSUME WorldIs, LooseIs, [Next]_vars
  PROVE  LooseIs'
<1>1. ListsAre /\ SessionIs
  BY DEF WorldIs
<1>2. /\ IsList(log) /\ DOMAIN log = 1..Len(log) /\ Len(log) \in Nat /\ due \subseteq DOMAIN log
      /\ spent.crashes \in Nat /\ spent.sessions \in Nat
      /\ spent \in [crashes : Nat, sessions : Nat]
  BY <1>1 DEF ListsAre, IsList
<1>3. Unsettled \subseteq DOMAIN log /\ (~session.open => Unsettled = {})
  <2>1. ~session.open => Unsettled = {}
    BY DEF Unsettled
  <2>2. ASSUME session.open PROVE Unsettled \subseteq DOMAIN log
    <3>1. session # NoSession
      BY <2>2 DEF NoSession
    <3>2. session.since \in 0..Len(log)
      BY <1>1, <3>1 DEF SessionIs
    <3>3. Unsettled = (session.since + 1)..Len(log)
      BY <2>2 DEF Unsettled
    <3> QED
      BY <1>2, <3>2, <3>3
  <2> QED
    BY <2>1, <2>2
<1>4. loose \subseteq DOMAIN log /\ (session.open => ~Untroubled)
  BY <1>2 DEF LooseIs, Untroubled
<1>5. ASSUME UNCHANGED <<log, loose, spent, session>> PROVE LooseIs'
  <2>1. Untroubled' = Untroubled /\ Judgeable' = Judgeable
    BY <1>5 DEF Untroubled, Judgeable, MainKinds, GenesisKinds
  <2> QED
    BY <1>5, <2>1 DEF LooseIs
<1>6. CASE UNCHANGED vars
  BY <1>5, <1>6 DEF vars, world
<1>7. CASE \E k \in DOMAIN plan : CallFails(k) \/ \E out \in Answers[plan[k].first] : Answer(k, out)
  BY <1>5, <1>7 DEF CallFails, Answer, world
<1>8. ASSUME NEW p \in Policies \union {NoPolicy}, Open(p) PROVE LooseIs'
  <2>1. UNCHANGED <<log, loose, spent>> /\ session' = NoSession
    BY <1>8 DEF Open
  <2>2. session'.open = FALSE /\ Untroubled' = Untroubled
    BY <2>1 DEF NoSession, Untroubled
  <2> QED
    BY <1>4, <2>1, <2>2, LooseGrows
<1>9. CASE Found
  <2>1. log' = Append(log, Head(todo)) /\ UNCHANGED <<loose, spent, session>>
    BY <1>9 DEF Found
  <2>2. DOMAIN log \subseteq DOMAIN log' /\ \A i \in DOMAIN log : log'[i] = log[i]
    BY <1>2, <2>1, PhysicsAfter
  <2>3. Untroubled' = Untroubled
    BY <2>1 DEF Untroubled
  <2> QED
    BY <1>4, <2>1, <2>2, <2>3, LooseGrows DEF LooseIs
<1>10. CASE Crash
  <2>1. /\ UNCHANGED log /\ session' = NoSession /\ spent' = [spent EXCEPT !.crashes = @ + 1]
        /\ loose' = loose \union Unsettled \union due
                      \union (IF proc = "genesis" THEN DOMAIN log \ judged ELSE {})
    BY <1>10 DEF Crash, Down
  <2>2. ~Untroubled'
    <3>1. spent'.crashes = spent.crashes + 1 /\ spent'.sessions = spent.sessions
      BY <1>2, <2>1
    <3> QED
      BY <1>2, <3>1 DEF Untroubled
  <2>3. session'.open = FALSE
    BY <2>1 DEF NoSession
  <2> QED
    BY <1>2, <1>3, <1>4, <2>1, <2>2, <2>3, LooseGrows
<1>11. CASE Close
  <2>1. /\ UNCHANGED <<log, spent>> /\ session' = NoSession /\ loose' = loose \union Unsettled
    BY <1>11 DEF Close, Down
  <2>2. session'.open = FALSE /\ Untroubled' = Untroubled
    BY <2>1 DEF NoSession, Untroubled
  <2>3. Untroubled => loose' = loose
    BY <1>3, <1>4, <2>1
  <2> QED
    BY <1>3, <1>4, <2>1, <2>2, <2>3, LooseGrows
<1>12. CASE BeginBuild
  <2>1. UNCHANGED <<log, loose>> /\ spent' = [spent EXCEPT !.sessions = @ + 1]
    BY <1>12 DEF BeginBuild
  <2>2. spent'.crashes = spent.crashes /\ spent'.sessions = spent.sessions + 1
    BY <1>2, <2>1
  <2>3. ~Untroubled' /\ spent'.sessions > 0
    BY <1>2, <2>2 DEF Untroubled
  <2> QED
    BY <1>4, <2>1, <2>3, LooseGrows
<1>13. CASE AbortBuild \/ \E scope \in {"session", "all"} : SealBuild(scope) \/ SealRaises(scope)
  <2>1. UNCHANGED <<log, spent>> /\ session.open /\ session' = NoSession
        /\ loose' \subseteq loose \union Unsettled
    BY <1>13 DEF AbortBuild, SealBuild, SealRaises, EndSession
  <2>2. session'.open = FALSE /\ ~Untroubled'
    BY <1>4, <2>1 DEF NoSession, Untroubled
  <2> QED
    BY <1>3, <1>4, <2>1, <2>2, LooseGrows
<1>14. ASSUME NEW S \in SUBSET DOMAIN plan, Commit(S) PROVE LooseIs'
  BY <1>5, <1>14 DEF Commit
<1>15. CASE WriteRow
  <2> DEFINE row == Head(todo)
  <2>1. /\ log' = Append(log, row) \/ log' = log
        /\ loose' = loose \union (IF inline /\ ~Awaits(row) THEN DOMAIN log' \ DOMAIN log ELSE {})
        /\ UNCHANGED <<spent, session>> /\ row.kind \notin GenesisKinds
    BY <1>15, WriteIs
  <2> HIDE DEF row
  <2>2. /\ DOMAIN log \subseteq DOMAIN log' /\ \A i \in DOMAIN log : log'[i] = log[i]
        /\ \A i \in DOMAIN log' \ DOMAIN log : log'[i] = row
    BY <1>2, <2>1, PhysicsAfter
  <2>3. inline /\ ~Awaits(row) => row.kind \notin Judgeable
    BY <2>1 DEF Awaits, Judgeable
  <2>4. \A i \in loose' \ loose : log'[i].kind \notin Judgeable
    BY <2>1, <2>2, <2>3
  <2>5. loose' \subseteq DOMAIN log'
    BY <1>4, <2>1, <2>2
  <2>6. Untroubled' = Untroubled /\ (session'.open => spent'.sessions > 0)
    BY <2>1 DEF Untroubled, LooseIs
  <2> QED
    BY <2>2, <2>4, <2>5, <2>6, LooseGrows
<1>16. CASE Judge
  BY <1>5, <1>16 DEF Judge
<1> QED
  BY <1>6, <1>7, <1>8, <1>9, <1>10, <1>11, <1>12, <1>13, <1>14, <1>15, <1>16 DEF Next

-----------------------------------------------------------------------------
(* A commit, however often it is begun.                                    *)

\* t is what is left of w after its first off rows.
Suffix(t, w, off) ==
  /\ IsList(t) /\ IsList(w) /\ off \in 0..Len(w) /\ Len(t) = Len(w) - off
  /\ \A i \in 1..Len(t) : t[i] = w[off + i]
Landed(row) == row \in Range(log) \/ (row.kind = "aka_evidence" /\ spent.crashes > 0)
Reached(off) ==
  /\ \A p \in 1..off : Landed(Writes(batch)[p])
  /\ spent.crashes = 0 => \A row \in BuildRows : \E p \in 1..off : row = Writes(batch)[p]
Writing == proc = "up" /\ (todo # <<>> \/ due # {})

CommitIs ==
  /\ done \in BOOLEAN
  /\ batch = {} => BuildRows = {} /\ ~done /\ ~Writing
  /\ batch # {} => /\ batch \in SUBSET DOMAIN plan /\ DOMAIN results = DOMAIN plan
                   /\ Accepted(batch) /\ BuildRows \subseteq Range(Writes(batch))
  /\ done => ~Writing /\ \A row \in Range(Writes(batch)) : Landed(row)
  /\ Writing => \E off \in Nat : Suffix(todo, Writes(batch), off) /\ Reached(off)
  /\ ~done /\ ~Writing /\ spent.crashes = 0 => BuildRows = {}

\* What a commit writes turns on the book alone.
LEMMA WritesStay ==
  ASSUME UNCHANGED <<manifest, registry, plan, results>>
  PROVE  \A S : Writes(S)' = Writes(S) /\ Accepted(S)' = Accepted(S)
<1> SUFFICES ASSUME NEW S PROVE Writes(S)' = Writes(S) /\ Accepted(S)' = Accepted(S)
  OBVIOUS
<1> DEFINE a == Allocation(S)
           m == ManifestRows(S)
           r == RevealRows(S)
           n == NamesakeRows
           D == Declared(S)
           U == Unallocated
           al == Allocating(D, U)
<1>1. D' = D
  BY DEF Declared, DeclaredIn, Ranked, InOrder, FlattenSeq
<1>2. U' = U
  BY DEF Unallocated, Minted, Idents
<1> HIDE DEF D, U, m, r, n, a
<1>3. al' = al
  BY <1>1, <1>2 DEF Allocating, Allocate, AllocateIn, SlotOf, Record, NewId, Given, Thing, CoerceType, MayBe,
         Earlier, Resolve, FirstRows, Shaped, Ident, Idents, IdentityRows, Put, Mint
<1>a. a = al[Len(D)]
  BY DEF a, D, U, Allocation
<1>b. (a = al[Len(D)])'
  BY DEF a, D, U, Allocation
<1> HIDE DEF al
<1>4. a' = a
  BY <1>1, <1>3, <1>a, <1>b
<1>5. m' = m
  BY DEF m, ManifestRows, OfEntry, IdentityRows, GateChunk, GateChunks, Put, Thing, Nothing, FlattenSeq, Min
<1>7. r' = r
  BY DEF r, RevealRows, Personas, Idents, Put, Thing, Nothing, FlattenSeq, Min
<1>8. n' = n
  BY DEF n, NamesakeRows, Put, Thing, Nothing, FlattenSeq, SetToSeq
<1> DEFINE f == FactRows(S, a.handles)
           p == ProposalRows(a.proposed)
<1>9. p' = p
  BY <1>4 DEF ProposalRows, Put, Thing, Nothing, FlattenSeq, SetToSeq
<1>10. f' = f
  <2> DEFINE item(l, k) == ItemRows(l, k, a.handles)
             items(k) == [i \in 1..Cardinality(results[k].items) |->
                           item(SetToSeq(results[k].items)[i], k)]
             chunk(k) == ChunkRows(k, a.handles)
             s == InOrder(S)
             chunks == [i \in 1..Cardinality(S) |-> chunk(s[i])]
  <2>1. \A l, k : item(l, k)' = item(l, k)
    BY <1>4 DEF ItemRows, SideRows, FactRow, ItemOf, Dated, TimeOf, Replaced, Put, Thing, Absolute
  <2>2. \A k : chunk(k) = FlattenSeq(items(k))
    BY DEF ChunkRows
  <2>3. \A k : (chunk(k) = FlattenSeq(items(k)))'
    BY DEF ChunkRows
  <2>4. f = FlattenSeq(chunks) /\ (f = FlattenSeq(chunks))'
    BY DEF FactRows
  <2>5. s' = s
    BY DEF InOrder, Ranked
  <2> HIDE DEF item, chunk, f, s
  <2>6. \A k : items(k)' = items(k)
    BY <2>1 DEF SetToSeq
  <2> HIDE DEF items
  <2>7. ASSUME NEW k PROVE chunk(k)' = chunk(k)
    <3> DEFINE own == items(k)
               ch == chunk(k)
    <3>1. ch = FlattenSeq(own) /\ (ch = FlattenSeq(own))' /\ own' = own
      BY <2>2, <2>3, <2>6
    <3> HIDE DEF own, ch
    <3>2. ch' = ch
      BY <3>1 DEF FlattenSeq
    <3> QED
      BY <3>2 DEF ch
  <2>8. chunks' = chunks
    BY <2>5, <2>7
  <2> HIDE DEF chunks
  <2> QED
    BY <2>4, <2>8 DEF FlattenSeq
<1> HIDE DEF f, p
<1>11. Writes(S) = m \o a.rows \o f \o p \o r \o n
  BY DEF Writes, Told, m, a, f, p, r, n
<1>12. (Writes(S) = m \o a.rows \o f \o p \o r \o n)'
  BY DEF Writes, Told, m, a, f, p, r, n
<1>13. Writes(S)' = Writes(S)
  BY <1>4, <1>5, <1>7, <1>8, <1>9, <1>10, <1>11, <1>12
<1>14. Accepted(S)' = Accepted(S)
  BY DEF Accepted, ResultAccepted, ItemAccepted, DeclAccepted, SourceStands, Twice, Used, Handles,
         IsHandle, Size, Absolute, GateChunks, Idents, Minted, Ident
<1> QED
  BY <1>13, <1>14

\* The rows of the world after one more.
LEMMA RowsAfter ==
  ASSUME IsList(log), NEW row, log' = Append(log, row)
  PROVE  /\ Range(log') = Range(log) \union {row}
         /\ row.kind \in GenesisKinds => BuildRows' = BuildRows
         /\ row.kind \notin GenesisKinds => BuildRows' = BuildRows \union {row}
<1>1. Range(log') = Range(log) \union {row}
  BY Appended
<1>2. \A r : r \in BuildRows <=> r \in Range(log) /\ r.kind \notin GenesisKinds
  BY DEF BuildRows, GenesisKinds
<1>3. \A r : r \in BuildRows' <=> r \in Range(log') /\ r.kind \notin GenesisKinds
  BY DEF BuildRows, GenesisKinds
<1> QED
  BY <1>1, <1>2, <1>3

\* A book that is wholly read stays as it is.
LEMMA ReadOnce ==
  ASSUME DOMAIN results = DOMAIN plan, [Next]_vars
  PROVE  UNCHANGED results
<1>1. CASE UNCHANGED vars
  BY <1>1 DEF vars, book
<1>2. ASSUME NEW k \in DOMAIN plan, CallFails(k) \/ \E out \in Answers[plan[k].first] : Answer(k, out)
      PROVE  FALSE
  BY <1>2 DEF CallFails, Answer, Pending
<1>3. ASSUME \/ \E p \in Policies \union {NoPolicy} : Open(p)
             \/ Found \/ Crash \/ Close \/ BeginBuild \/ AbortBuild
             \/ \E scope \in {"session", "all"} : SealBuild(scope) \/ SealRaises(scope)
             \/ \E S \in SUBSET DOMAIN plan : Commit(S)
             \/ WriteRow \/ Judge
      PROVE  UNCHANGED book
  BY <1>3 DEF Open, Found, Crash, Close, Down, BeginBuild, AbortBuild, SealBuild, SealRaises,
              EndSession, Commit, WriteRow, Judge
<1> QED
  BY <1>1, <1>2, <1>3 DEF Next, book

\* Nothing is committed at first.
LEMMA CommitInit == ASSUME Init PROVE CommitIs
<1>1. log = <<>> /\ proc = "down" /\ batch = {} /\ done = FALSE
  BY DEF Init
<1>2. BuildRows = {}
  BY <1>1, NoRows DEF BuildRows
<1>3. ~Writing
  BY <1>1 DEF Writing
<1> QED
  BY <1>1, <1>2, <1>3 DEF CommitIs

\* What stands of a commit stands on while nothing is written of it.
LEMMA CommitStays ==
  ASSUME BookIs, ResultsAre, CommitIs, [Next]_vars, UNCHANGED <<batch, done>>,
         Range(log) \subseteq Range(log'), BuildRows' = BuildRows,
         spent.crashes > 0 => spent'.crashes > 0,
         Writing' => Writing /\ UNCHANGED todo,
         spent'.crashes = 0 => spent.crashes = 0 /\ (Writing => Writing')
  PROVE  CommitIs'
<1>1. UNCHANGED <<manifest, registry, plan>>
  BY BookStep
<1>2. CASE batch = {}
  BY <1>2 DEF CommitIs
<1>3. CASE batch # {}
  <2>1. /\ batch \in SUBSET DOMAIN plan /\ DOMAIN results = DOMAIN plan
        /\ Accepted(batch) /\ BuildRows \subseteq Range(Writes(batch))
    BY <1>3 DEF CommitIs
  <2>2. UNCHANGED results
    BY <2>1, ReadOnce
  <2>3. Writes(batch)' = Writes(batch) /\ Accepted(batch)' = Accepted(batch)
    <3>1. \A S : Writes(S)' = Writes(S) /\ Accepted(S)' = Accepted(S)
      BY <1>1, <2>2, WritesStay
    <3> QED
      BY <3>1
  <2>4. \A row : Landed(row) => Landed(row)'
    BY DEF Landed
  <2>5. ASSUME NEW off, Reached(off) PROVE Reached(off)'
    BY <2>3, <2>4, <2>5 DEF Reached
  <2>6. Writing' => \E off \in Nat : Suffix(todo', Writes(batch)', off) /\ Reached(off)'
    BY <2>3, <2>5 DEF CommitIs
  <2>7. done' => ~Writing' /\ \A row \in Range(Writes(batch)') : Landed(row)'
    BY <2>3, <2>4 DEF CommitIs
  <2> QED
    BY <1>1, <1>3, <2>1, <2>2, <2>3, <2>6, <2>7 DEF CommitIs
<1> QED
  BY <1>2, <1>3

\* No other step writes a row of a commit.
LEMMA RestSteps ==
  ASSUME BookIs, ResultsAre, WorldIs, CommitIs, [Next]_vars,
         \/ UNCHANGED world
         \/ \E p \in Policies \union {NoPolicy} : Open(p)
         \/ Found \/ Crash \/ Close \/ BeginBuild \/ AbortBuild
         \/ \E scope \in {"session", "all"} : SealBuild(scope) \/ SealRaises(scope)
  PROVE  CommitIs'
<1>1. ListsAre
  BY DEF WorldIs
<1>2. IsList(log) /\ spent \in [crashes : Nat, sessions : Nat]
  BY <1>1 DEF ListsAre
<1>3. ASSUME UNCHANGED log PROVE Range(log) \subseteq Range(log') /\ BuildRows' = BuildRows
  BY <1>3 DEF BuildRows
<1>4. CASE UNCHANGED world
  <2>1. UNCHANGED <<log, batch, done, spent, todo, due, proc>>
    BY <1>4 DEF world
  <2>2. Writing' = Writing
    BY <2>1 DEF Writing
  <2> QED
    BY <1>3, <2>1, <2>2, CommitStays
<1>5. ASSUME NEW p \in Policies \union {NoPolicy}, Open(p) PROVE CommitIs'
  <2>1. /\ UNCHANGED <<log, due, batch, done, spent>> /\ proc = "down"
        /\ proc' = IF todo' = <<>> THEN "up" ELSE "genesis"
    BY <1>5 DEF Open
  <2>2. ~Writing /\ ~Writing'
    BY <2>1 DEF Writing, WorldIs, DownIs
  <2> QED
    BY <1>3, <2>1, <2>2, CommitStays
<1>6. CASE Found
  <2>1. /\ proc = "genesis" /\ todo # <<>> /\ log' = Append(log, Head(todo))
        /\ UNCHANGED <<proc, batch, done, spent>>
    BY <1>6 DEF Found
  <2>2. ~Writing /\ ~Writing'
    BY <2>1 DEF Writing
  <2>3. Head(todo).kind \in GenesisKinds
    <3>1. Head(todo).kind = "charter" \/ Head(todo) = PhysicsRow(policy)
      BY <2>1, GenesisTodo
    <3>2. PhysicsRow(policy).kind = "physics"
      BY DEF PhysicsRow, Put
    <3> QED
      BY <3>1, <3>2 DEF GenesisKinds
  <2>4. Range(log) \subseteq Range(log') /\ BuildRows' = BuildRows
    BY <1>2, <2>1, <2>3, RowsAfter
  <2> QED
    BY <2>1, <2>2, <2>4, CommitStays
<1>7. CASE Crash
  <2>1. UNCHANGED <<log, batch, done>> /\ proc' = "down" /\ spent' = [spent EXCEPT !.crashes = @ + 1]
    BY <1>7 DEF Crash, Down
  <2>2. ~Writing' /\ spent'.crashes > 0
    BY <1>2, <2>1 DEF Writing
  <2>3. spent'.crashes # 0
    BY <1>2, <2>1
  <2> QED
    BY <1>3, <2>1, <2>2, <2>3, CommitStays
<1>8. CASE Close
  <2>1. UNCHANGED <<log, batch, done, spent>> /\ proc' = "down" /\ todo = <<>> /\ due = {}
    BY <1>8 DEF Close, Down, Idle
  <2>2. ~Writing /\ ~Writing'
    BY <2>1 DEF Writing
  <2> QED
    BY <1>3, <2>1, <2>2, CommitStays
<1>9. CASE BeginBuild
  <2>1. UNCHANGED <<log, batch, done, proc, todo, due>> /\ spent' = [spent EXCEPT !.sessions = @ + 1]
    BY <1>9 DEF BeginBuild
  <2>2. Writing' = Writing
    BY <2>1 DEF Writing
  <2>3. spent'.crashes = spent.crashes
    BY <1>2, <2>1
  <2> QED
    BY <1>3, <2>1, <2>2, <2>3, CommitStays
<1>10. CASE EndSession
  <2>1. UNCHANGED <<log, batch, done, proc, todo, due, spent>>
    BY <1>10 DEF EndSession
  <2>2. Writing' = Writing
    BY <2>1 DEF Writing
  <2> QED
    BY <1>3, <2>1, <2>2, CommitStays
<1> QED
  BY <1>4, <1>5, <1>6, <1>7, <1>8, <1>9, <1>10 DEF AbortBuild, SealBuild, SealRaises

\* What is left at first is everything.
LEMMA SuffixAll == ASSUME NEW w, IsList(w) PROVE Suffix(w, w, 0)
<1>1. Len(w) \in Nat
  BY DEF IsList
<1>2. \A i \in 1..Len(w) : 0 + i = i
  BY <1>1
<1> QED
  BY <1>1, <1>2 DEF Suffix

\* What is left after one row more.
LEMMA SuffixRest ==
  ASSUME NEW t, NEW w, NEW off \in Nat, Suffix(t, w, off), t # <<>>
  PROVE  /\ off + 1 \in 1..Len(w) /\ Head(t) = w[off + 1] /\ Suffix(Tail(t), w, off + 1)
         /\ Tail(t) = <<>> <=> off + 1 = Len(w)
<1>1. /\ IsList(t) /\ IsList(w) /\ off \in 0..Len(w) /\ Len(t) = Len(w) - off
      /\ \A i \in 1..Len(t) : t[i] = w[off + i]
      /\ Len(w) \in Nat
  BY DEF Suffix, IsList
<1>2. /\ Len(t) \in Nat \ {0} /\ Head(t) = t[1] /\ IsList(Tail(t)) /\ Len(Tail(t)) = Len(t) - 1
      /\ \A i \in 1..Len(Tail(t)) : Tail(t)[i] = t[i + 1]
      /\ Tail(t) = <<>> <=> Len(t) = 1
  BY <1>1, Rest
<1> DEFINE r == Tail(t)
<1> HIDE DEF r
<1>3. off + 1 \in 1..Len(w) /\ Len(r) = Len(w) - (off + 1)
  BY <1>1, <1>2 DEF r
<1>4. Head(t) = w[off + 1]
  <2>1. 1 \in 1..Len(t)
    BY <1>2
  <2> QED
    BY <1>1, <1>2, <2>1
<1>5. ASSUME NEW i \in 1..Len(r) PROVE r[i] = w[(off + 1) + i]
  <2>1. i + 1 \in 1..Len(t) /\ off + (i + 1) = (off + 1) + i /\ r[i] = t[i + 1]
    BY <1>1, <1>2 DEF r
  <2> QED
    BY <1>1, <2>1
<1>6. r = <<>> <=> off + 1 = Len(w)
  BY <1>1, <1>2 DEF r
<1>7. Suffix(r, w, off + 1)
  <2>1. off + 1 \in 0..Len(w)
    BY <1>1, <1>3
  <2> QED
    BY <1>1, <1>2, <1>3, <1>5, <2>1 DEF Suffix, r
<1> QED
  BY <1>3, <1>4, <1>6, <1>7 DEF r

\* A commit begins at its first row, over what an earlier one left.
LEMMA CommitBegins ==
  ASSUME BookIs, ResultsAre, WorldIs, CommitIs, [Next]_vars, NEW S \in SUBSET DOMAIN plan,
         DOMAIN results = DOMAIN plan, Commit(S)
  PROVE  CommitIs'
<1>1. /\ proc = "up" /\ todo = <<>> /\ due = {} /\ ~done /\ batch \in {{}, S} /\ Accepted(S)
      /\ todo' = Writes(S) /\ batch' = S
      /\ UNCHANGED <<manifest, registry, plan, results, log, proc, done, spent>>
  BY DEF Commit, Idle, book
<1>2. Chunks(S) /\ S # {}
  <2>1. S # {}
    BY <1>1 DEF Accepted
  <2> QED
    BY <1>1, <2>1, ChunksAre
<1> DEFINE W == Writes(S)
<1>3. IsList(W)
  BY <1>2, WritesAre
<1>4. Writes(batch)' = W /\ Accepted(batch)' = Accepted(S)
  <2>1. \A T : Writes(T)' = Writes(T) /\ Accepted(T)' = Accepted(T)
    BY <1>1, WritesStay
  <2>2. Writes(batch)' = Writes(S)' /\ Accepted(batch)' = Accepted(S)'
    BY <1>1
  <2> QED
    BY <2>1, <2>2
<1> HIDE DEF W
<1>5. BuildRows' = BuildRows /\ \A row : Landed(row)' = Landed(row)
  BY <1>1 DEF BuildRows, Landed
<1>6. BuildRows \subseteq Range(W)
  BY <1>1, <1>2 DEF CommitIs, W
<1>7. spent.crashes = 0 => BuildRows = {}
  BY <1>1 DEF CommitIs, Writing
<1>8. \E off \in Nat : Suffix(todo', Writes(batch)', off) /\ Reached(off)'
  <2>1. Suffix(W, W, 0)
    BY <1>3, SuffixAll
  <2>2. Reached(0)'
    BY <1>1, <1>5, <1>7 DEF Reached
  <2> QED
    BY <1>1, <1>4, <2>1, <2>2 DEF W
<1>9. batch' # {} /\ (batch \in SUBSET DOMAIN plan)' /\ (DOMAIN results = DOMAIN plan)' /\ ~done'
  BY <1>1, <1>2
<1> QED
  BY <1>1, <1>4, <1>5, <1>6, <1>7, <1>8, <1>9 DEF CommitIs

\* Two links over the same two ids are one: what a persona poses as is no persona.
LEMMA LinksAreOne ==
  ASSUME BookIs, NEW S, NEW r, NEW q, LinkRow(S, r), LinkRow(S, q), r.ids = q.ids
  PROVE  r = q
<1> DEFINE N == Listed(manifest)
           E == Entered(manifest)
<1>1. RegistryOf(manifest, registry, N) /\ DOMAIN registry = 1..N /\ E \in Nat /\ N \in Nat
  BY BookHas
<1>2. ASSUME NEW i \in Personas
      PROVE  \E k \in 1..N : \E e \in 1..E : /\ k > E /\ i = registry[k] /\ e \in 1..N
                                             /\ i.id = registry[k].id /\ i.entry = registry[e].id
  <2>1. PICK k \in 1..N : i = registry[k]
    BY <1>1 DEF Personas, Idents, Range
  <2>2. IdentOf(manifest, registry, k) /\ i.entry # NoId
    BY <1>1 DEF RegistryOf, Personas
  <2>3. k > E
    BY <1>1, <2>1, <2>2 DEF IdentOf
  <2> DEFINE e == manifest.personas[k - E].of
  <2>4. e \in 1..E /\ i.entry = registry[e].id
    BY <2>1, <2>2, <2>3 DEF IdentOf
  <2>5. N = E + Posing(manifest) /\ Posing(manifest) \in Nat
    BY BookHas
  <2> HIDE DEF e, N, E
  <2>6. e \in 1..N
    BY <1>1, <2>4, <2>5
  <2> QED
    BY <2>1, <2>3, <2>4, <2>6
<1>3. PICK i \in Personas : r = LinkOf(S, i)
  BY DEF LinkRow
<1>4. PICK j \in Personas : q = LinkOf(S, j)
  BY DEF LinkRow
<1>5. r.ids = {i.id, i.entry} /\ q.ids = {j.id, j.entry}
  BY <1>3, <1>4 DEF LinkOf, Put
<1>6. PICK k \in 1..N : \E e \in 1..E : /\ k > E /\ i = registry[k] /\ e \in 1..N
                                        /\ i.id = registry[k].id /\ i.entry = registry[e].id
  BY <1>2
<1>7. PICK l \in 1..N : \E e \in 1..E : /\ l > E /\ j = registry[l] /\ e \in 1..N
                                        /\ j.id = registry[l].id /\ j.entry = registry[e].id
  BY <1>2
<1>8. i.id # j.entry
  <2>1. PICK e \in 1..E : e \in 1..N /\ j.entry = registry[e].id
    BY <1>7
  <2>2. k # e
    BY <1>1, <1>6
  <2> QED
    BY <1>1, <1>6, <2>1, <2>2 DEF RegistryOf
<1>9. i.id = j.id
  BY <1>5, <1>8
<1>10. k = l
  BY <1>1, <1>6, <1>7, <1>9 DEF RegistryOf
<1> QED
  BY <1>3, <1>4, <1>6, <1>7, <1>10

\* What a row is, its kind tells.
LEMMA ByKind ==
  ASSUME NEW S, NEW row, RowOf(S, row)
  PROVE  /\ row.kind = "aka" => LinkRow(S, row)
         /\ row.kind = "distinct_from" => NamesakeRow(row)
         /\ row.kind = "fact" => FactOf(S, row)
         /\ row.kind \in {"shape", "name"} => OfManifest(S, row) \/ IdentityRow(S, Allocation(S), row)
<1>1. /\ OfManifest(S, row) => row.kind \in {"shape", "name"}
      /\ IdentityRow(S, Allocation(S), row) => row.kind \in {"shape", "name"}
      /\ FactOf(S, row) => row.kind = "fact"
      /\ LinkRow(S, row) => row.kind = "aka"
      /\ (\E link : LinkRow(S, link) /\ row = EvidenceOf(link)) => row.kind = "aka_evidence"
      /\ NamesakeRow(row) => row.kind = "distinct_from"
  BY KindsAre
<1> QED
  BY <1>1 DEF RowOf, SideKinds

\* What a commit writes next, and what it finds standing: a link and its evidence, or a
\* pair that is told apart, as it would write it.
LEMMA NextWritten ==
  ASSUME BookIs, ResultsAre, WorldIs, CommitIs, WriteRow,
         NEW off \in Nat, Suffix(todo, Writes(batch), off), Reached(off)
  PROVE  /\ Chunks(batch) /\ off + 1 \in 1..Len(Writes(batch))
         /\ Head(todo) = Writes(batch)[off + 1] /\ Head(todo) \in Range(Writes(batch))
         /\ Noop(Head(todo)) => Head(todo) \in Range(log)
         /\ Head(todo).kind = "aka" =>
              /\ off + 2 \in 1..Len(Writes(batch))
              /\ Writes(batch)[off + 2] = EvidenceOf(Head(todo))
              /\ Writes(batch)[off + 2].kind = "aka_evidence"
              /\ Noop(Head(todo)) => Landed(Writes(batch)[off + 2])
<1> DEFINE W == Writes(batch)
           row == Head(todo)
<1>1. proc = "up" /\ todo # <<>> /\ IsList(todo)
  BY WriteIs
<1>2. batch # {} /\ batch \in SUBSET DOMAIN plan /\ DOMAIN results = DOMAIN plan /\ Accepted(batch)
      /\ BuildRows \subseteq Range(W)
  BY <1>1 DEF CommitIs, Writing
<1>3. Chunks(batch)
  BY <1>2, ChunksAre
<1>4. IsList(W) /\ Paired(W) /\ \A r \in Range(W) : RowOf(batch, r)
  BY <1>3, WritesAre
<1>5. off + 1 \in 1..Len(W) /\ row = W[off + 1]
  BY <1>1, SuffixRest
<1> HIDE DEF W, row
<1>6. DOMAIN W = 1..Len(W) /\ Len(W) \in Nat
  BY <1>4 DEF IsList
<1>7. row \in Range(W)
  BY <1>5, <1>6 DEF Range
<1>8. ASSUME NEW r \in Range(log), r.kind = row.kind, r.kind \in {"aka", "distinct_from"}
      PROVE  r \in BuildRows /\ r \in Range(W) /\ RowOf(batch, r)
  BY <1>2, <1>4, <1>8 DEF BuildRows
<1>9. ASSUME NEW r \in Range(log), r.kind = row.kind, r.ids = row.ids, r.kind \in {"aka", "distinct_from"}
      PROVE  r = row
  <2>1. RowOf(batch, r) /\ RowOf(batch, row)
    BY <1>4, <1>7, <1>8, <1>9
  <2>2. CASE r.kind = "aka"
    BY <1>9, <2>1, <2>2, ByKind, LinksAreOne
  <2>3. CASE r.kind = "distinct_from"
    <3>1. NamesakeRow(r) /\ NamesakeRow(row)
      BY <1>9, <2>1, <2>3, ByKind
    <3> QED
      BY <1>9, <3>1 DEF NamesakeRow
  <2> QED
    BY <1>9, <2>2, <2>3
<1>10. ASSUME Noop(row) PROVE row \in Range(log) /\ row.kind \in {"aka", "distinct_from"}
  <2>1. row.kind \in {"aka", "distinct_from"} /\ Stands(row)
    BY <1>10 DEF Noop
  <2>2. PICK r \in Range(log) : r.kind = row.kind /\ r.ids = row.ids
    BY <2>1 DEF Stands
  <2> QED
    BY <1>9, <2>1, <2>2
<1>11. ASSUME row.kind = "aka"
       PROVE  /\ off + 2 \in 1..Len(W) /\ W[off + 2] = EvidenceOf(row)
              /\ W[off + 2].kind = "aka_evidence"
              /\ Noop(row) => Landed(W[off + 2])
  <2>1. off + 2 \in 1..Len(W) /\ W[off + 2] = EvidenceOf(row)
    <3>1. (off + 1) + 1 = off + 2
      OBVIOUS
    <3>2. (off + 1) + 1 \in 1..Len(W) /\ W[(off + 1) + 1] = EvidenceOf(row)
      BY <1>4, <1>5, <1>11 DEF Paired
    <3> QED
      BY <3>1, <3>2
  <2>2. W[off + 2].kind = "aka_evidence"
    BY <2>1 DEF EvidenceOf, Put
  <2>3. ASSUME Noop(row), spent.crashes = 0 PROVE Landed(W[off + 2])
    <3>1. row \in BuildRows
      BY <1>10, <1>11, <2>3 DEF BuildRows
    <3>2. PICK p \in 1..off : row = W[p]
      BY <2>3, <3>1 DEF Reached, W
    <3>3. p \in 1..Len(W)
      BY <1>5, <1>6
    <3>4. W[p + 1] = EvidenceOf(row)
      BY <1>4, <1>11, <3>2, <3>3 DEF Paired
    <3>5. W[p].kind # "aka_evidence"
      BY <1>11, <3>2
    <3>6. p + 1 \in 1..off \/ p + 1 = off + 1
      BY <3>2
    <3>7. CASE p + 1 = off + 1
      <4>1. row = EvidenceOf(row)
        BY <1>5, <3>4, <3>7
      <4>2. EvidenceOf(row).kind = "aka_evidence"
        BY DEF EvidenceOf, Put
      <4> QED
        BY <1>11, <4>1, <4>2
    <3>8. CASE p + 1 \in 1..off
      <4>1. Landed(W[p + 1])
        BY <3>8 DEF Reached, W
      <4> QED
        BY <2>1, <3>4, <4>1
    <3> QED
      BY <3>6, <3>7, <3>8
  <2>4. ASSUME spent.crashes # 0 PROVE spent.crashes > 0
    <3>1. spent \in [crashes : Nat, sessions : Nat]
      BY DEF WorldIs, ListsAre
    <3> QED
      BY <2>4, <3>1
  <2> QED
    BY <2>1, <2>2, <2>3, <2>4 DEF Landed
<1> QED
  BY <1>3, <1>5, <1>7, <1>10, <1>11 DEF W, row

\* What has landed once the step is taken.
Lands(row) == row \in Range(log') \/ (row.kind = "aka_evidence" /\ spent'.crashes > 0)

\* One row on, the commit is as far as it is said to be.
LEMMA ReachedOn ==
  ASSUME NEW off \in Nat, NEW to \in Nat, off <= to, Reached(off), IsList(log),
         UNCHANGED <<batch, spent>>, Writes(batch)' = Writes(batch),
         Range(log) \subseteq Range(log'),
         \A p \in (off + 1)..to : Lands(Writes(batch)[p]),
         BuildRows' \subseteq BuildRows \union {Writes(batch)[p] : p \in (off + 1)..to}
  PROVE  Reached(to)'
<1> DEFINE W == Writes(batch)
<1>1. W' = W
  OBVIOUS
<1>2. \A row : Landed(row) => Lands(row)
  BY DEF Landed, Lands
<1>3. \A p \in 1..to : p \in 1..off \/ p \in (off + 1)..to
  OBVIOUS
<1>4. \A p \in 1..off : p \in 1..to
  OBVIOUS
<1>5. \A p \in (off + 1)..to : p \in 1..to
  OBVIOUS
<1>6. /\ \A p \in 1..off : Landed(W[p])
      /\ spent.crashes = 0 => \A row \in BuildRows : \E p \in 1..off : row = W[p]
  BY DEF Reached
<1>7. \A p \in (off + 1)..to : Lands(W[p])
  OBVIOUS
<1>8. \A row \in BuildRows' : row \in BuildRows \/ \E p \in (off + 1)..to : row = W[p]
  OBVIOUS
<1> HIDE DEF W
<1>9. \A p \in 1..to : Lands(W'[p])
  BY <1>1, <1>2, <1>3, <1>6, <1>7
<1>10. spent'.crashes = 0 => \A row \in BuildRows' : \E p \in 1..to : row = W[p]
  BY <1>4, <1>5, <1>6, <1>8
<1> QED
  BY <1>9, <1>10 DEF Reached, Landed, Lands, W

\* A commit goes on by a row, or by a link that stands and its evidence.
LEMMA CommitGoesOn ==
  ASSUME BookIs, ResultsAre, WorldIs, CommitIs, [Next]_vars, WriteRow
  PROVE  WorldIs' /\ CommitIs'
<1> DEFINE W == Writes(batch)
           row == Head(todo)
<1>1. /\ proc = "up" /\ IsList(todo) /\ todo # <<>>
      /\ \/ ~Noop(row) /\ log' = Append(log, row) /\ todo' = Tail(todo)
         \/ Noop(row) /\ log' = log /\ row.kind # "aka" /\ todo' = Tail(todo)
         \/ Noop(row) /\ log' = log /\ row.kind = "aka" /\ todo' = Tail(Tail(todo))
      /\ done' = (todo' = <<>> /\ due' = {})
      /\ UNCHANGED <<proc, batch, spent>>
      /\ row.kind \notin GenesisKinds
  BY WriteIs
<1>2. IsList(log)
  BY DEF WorldIs, ListsAre
<1>3. /\ batch # {} /\ batch \in SUBSET DOMAIN plan /\ DOMAIN results = DOMAIN plan /\ Accepted(batch)
      /\ BuildRows \subseteq Range(W)
      /\ \E off \in Nat : Suffix(todo, W, off) /\ Reached(off)
  BY <1>1 DEF CommitIs, Writing
<1>4. UNCHANGED <<manifest, registry, plan, results>>
  BY <1>3, BookStep, ReadOnce
<1>5. W' = W /\ Accepted(batch)' = Accepted(batch)
  <2>1. \A S : Writes(S)' = Writes(S) /\ Accepted(S)' = Accepted(S)
    BY <1>4, WritesStay
  <2> QED
    BY <1>1, <2>1
<1>6. PICK off \in Nat : Suffix(todo, W, off) /\ Reached(off)
  BY <1>3
<1>7. /\ off + 1 \in 1..Len(W) /\ row = W[off + 1] /\ row \in Range(W)
      /\ Noop(row) => row \in Range(log)
      /\ row.kind = "aka" => /\ off + 2 \in 1..Len(W) /\ (Noop(row) => Landed(W[off + 2]))
  BY <1>6, NextWritten
<1>8. IsList(W) /\ Len(W) \in Nat /\ DOMAIN W = 1..Len(W)
  BY <1>6 DEF Suffix, IsList
<1>9. Suffix(Tail(todo), W, off + 1) /\ (Tail(todo) = <<>> <=> off + 1 = Len(W))
  BY <1>1, <1>6, SuffixRest
<1> HIDE DEF W
<1>10. WorldIs'
  <2>1. ASSUME Noop(row), row.kind = "aka" PROVE Len(todo) > 1
    <3>1. off + 2 \in 1..Len(W)
      BY <1>7, <2>1
    <3>2. Len(todo) = Len(W) - off
      BY <1>6 DEF Suffix
    <3> QED
      BY <1>8, <3>1, <3>2
  <2> QED
    BY <2>1, WriteStep
<1> HIDE DEF row
<1>11. /\ Range(log) \subseteq Range(log') /\ row \in Range(log')
       /\ BuildRows' \subseteq BuildRows \union {row}
  <2>1. CASE log' = Append(log, row)
    BY <1>1, <1>2, <2>1, RowsAfter
  <2>2. CASE log' = log /\ Noop(row)
    <3>1. BuildRows' = BuildRows
      BY <2>2 DEF BuildRows
    <3> QED
      BY <1>7, <2>2, <3>1
  <2> QED
    BY <1>1, <2>1, <2>2
<1>12. \A r : Landed(r) => Lands(r)
  BY <1>1, <1>11 DEF Landed, Lands
<1>13. Lands(row)
  BY <1>11 DEF Lands
<1>14. \E to \in Nat : Suffix(todo', W, to) /\ Reached(to)' /\ (todo' = <<>> <=> to = Len(W))
  <2>1. CASE todo' = Tail(todo)
    <3>1. (off + 1)..(off + 1) = {off + 1}
      OBVIOUS
    <3>2. Lands(W[off + 1]) /\ row = W[off + 1]
      BY <1>7, <1>13
    <3>3. Reached(off + 1)'
      <4>1. \A p \in (off + 1)..(off + 1) : Lands(W[p])
        BY <3>1, <3>2
      <4>2. BuildRows' \subseteq BuildRows \union {W[p] : p \in (off + 1)..(off + 1)}
        BY <1>11, <3>1, <3>2
      <4>3. off + 1 \in Nat /\ off <= off + 1
        OBVIOUS
      <4> QED
        BY <1>1, <1>2, <1>5, <1>6, <1>11, <4>1, <4>2, <4>3, ReachedOn DEF W
    <3> QED
      BY <1>9, <2>1, <3>3
  <2>2. CASE Noop(row) /\ row.kind = "aka" /\ todo' = Tail(Tail(todo))
    <3>1. off + 2 \in 1..Len(W) /\ Lands(W[off + 2])
      BY <1>7, <1>12, <2>2
    <3>2. Tail(todo) # <<>>
      <4> DEFINE n == Len(W)
      <4>0. n \in Nat /\ off + 2 \in 1..n
        BY <1>8, <3>1
      <4> HIDE DEF n
      <4>1. off + 1 # n
        BY <4>0
      <4> QED
        BY <1>9, <4>1 DEF n
    <3>3. (off + 1) + 1 = off + 2 /\ off + 1 \in Nat /\ off + 2 \in Nat /\ off <= off + 2
      OBVIOUS
    <3> DEFINE t == Tail(todo)
    <3>4. Suffix(t, W, off + 1) /\ t # <<>>
      BY <1>9, <3>2
    <3> HIDE DEF t
    <3>5. Suffix(Tail(t), W, off + 2) /\ (Tail(t) = <<>> <=> off + 2 = Len(W))
      BY <3>3, <3>4, SuffixRest
    <3>6. \A p \in (off + 1)..(off + 2) : p = off + 1 \/ p = off + 2
      OBVIOUS
    <3>7. off + 1 \in (off + 1)..(off + 2)
      OBVIOUS
    <3>8. Reached(off + 2)'
      <4>1. \A p \in (off + 1)..(off + 2) : Lands(W[p])
        BY <1>7, <1>13, <3>1, <3>6
      <4>2. row \in {W[p] : p \in (off + 1)..(off + 2)}
        BY <1>7, <3>7
      <4>3. BuildRows' \subseteq BuildRows \union {W[p] : p \in (off + 1)..(off + 2)}
        BY <1>11, <4>2
      <4> QED
        BY <1>1, <1>2, <1>5, <1>6, <1>11, <3>3, <4>1, <4>3, ReachedOn DEF W
    <3> QED
      BY <2>2, <3>3, <3>5, <3>8 DEF t
  <2> QED
    BY <1>1, <2>1, <2>2 DEF row
<1>15. done' => ~Writing' /\ \A r \in Range(W) : Lands(r)
  <2> SUFFICES ASSUME done' PROVE ~Writing' /\ \A r \in Range(W) : Lands(r)
    OBVIOUS
  <2>1. todo' = <<>> /\ due' = {}
    BY <1>1
  <2>2. PICK to \in Nat : to = Len(W) /\ Reached(to)'
    BY <1>14, <2>1
  <2>3. \A p \in 1..Len(W) : Lands(W[p])
    <3>1. \A p \in 1..Len(W) : Lands(W'[p])
      BY <1>5, <2>2 DEF Reached, Landed, Lands, W
    <3> QED
      BY <1>5, <3>1
  <2> QED
    BY <1>8, <2>1, <2>3 DEF Writing, Range
<1>16. Writing' => \E to \in Nat : Suffix(todo', W, to) /\ Reached(to)'
  BY <1>14
<1>17. ~done' => Writing'
  BY <1>1 DEF Writing
<1>18. done' \in BOOLEAN
  BY <1>1
<1>19. (batch \in SUBSET DOMAIN plan /\ DOMAIN results = DOMAIN plan)' /\ batch' # {} /\ Accepted(batch)'
  BY <1>1, <1>3, <1>4, <1>5
<1>20. BuildRows' \subseteq Range(W')
  BY <1>3, <1>5, <1>7, <1>11 DEF row
<1>21. done' => ~Writing' /\ \A r \in Range(W') : Landed(r)'
  BY <1>5, <1>15 DEF Landed, Lands
<1> QED
  BY <1>5, <1>10, <1>21, <1>16, <1>17, <1>18, <1>19, <1>20 DEF CommitIs, W

\* A commit whose last row has its verdict has written all it had to.
LEMMA CommitJudged ==
  ASSUME BookIs, ResultsAre, WorldIs, CommitIs, [Next]_vars, Judge
  PROVE  CommitIs'
<1> DEFINE over == todo = <<>> /\ due' = {}
<1>1. /\ due # {} /\ due' \subseteq due /\ UNCHANGED <<log, todo, batch, spent>>
      /\ proc' = (IF over THEN "up" ELSE proc) /\ done' = (done \/ (over /\ proc = "up"))
  BY DEF Judge
<1>2. Range(log) \subseteq Range(log') /\ BuildRows' = BuildRows
  BY <1>1 DEF BuildRows
<1>3. CASE proc # "up"
  <2>1. ~Writing /\ ~Writing' /\ done' = done
    BY <1>1, <1>3 DEF Writing, CommitIs
  <2> QED
    BY <1>1, <1>2, <2>1, CommitStays
<1>4. CASE proc = "up" /\ ~over
  <2>1. Writing /\ Writing' /\ done' = done
    BY <1>1, <1>4 DEF Writing, CommitIs
  <2> QED
    BY <1>1, <1>2, <2>1, CommitStays
<1>5. CASE proc = "up" /\ over
  <2> DEFINE W == Writes(batch)
  <2>1. Writing /\ ~Writing' /\ done' = TRUE
    BY <1>1, <1>5 DEF Writing
  <2>2. /\ batch # {} /\ batch \in SUBSET DOMAIN plan /\ DOMAIN results = DOMAIN plan /\ Accepted(batch)
        /\ BuildRows \subseteq Range(W)
        /\ \E off \in Nat : Suffix(todo, W, off) /\ Reached(off)
    BY <2>1 DEF CommitIs
  <2>3. UNCHANGED <<manifest, registry, plan, results>>
    BY <2>2, BookStep, ReadOnce
  <2>4. W' = W /\ Accepted(batch)' = Accepted(batch)
    <3>1. \A S : Writes(S)' = Writes(S) /\ Accepted(S)' = Accepted(S)
      BY <2>3, WritesStay
    <3> QED
      BY <1>1, <3>1
  <2>5. \A row \in Range(W) : Landed(row)
    <3>1. PICK off \in Nat : Suffix(todo, W, off) /\ Reached(off)
      BY <2>2
    <3>2. \A p \in 1..off : Landed(W[p])
      BY <3>1 DEF Reached
    <3> HIDE DEF W
    <3>3. IsList(W) /\ Len(todo) = Len(W) - off
      BY <3>1 DEF Suffix
    <3>4. Len(W) \in Nat /\ DOMAIN W = 1..Len(W) /\ Len(todo) = 0
      BY <1>5, <3>3, NoRows DEF IsList
    <3>5. off = Len(W)
      BY <3>3, <3>4
    <3> QED
      BY <3>2, <3>4, <3>5 DEF Range
  <2> HIDE DEF W
  <2>6. \A row \in Range(W') : Landed(row)'
    BY <1>1, <2>4, <2>5 DEF Landed
  <2>7. BuildRows' \subseteq Range(W')
    BY <1>2, <2>2, <2>4
  <2>8. (batch \in SUBSET DOMAIN plan /\ DOMAIN results = DOMAIN plan)' /\ batch' # {} /\ Accepted(batch)'
    BY <1>1, <2>2, <2>3, <2>4
  <2> QED
    BY <2>1, <2>6, <2>7, <2>8 DEF CommitIs, W
<1> QED
  BY <1>3, <1>4, <1>5

-----------------------------------------------------------------------------
(* The invariant, and what it says of a build.                             *)

BuildInv == BookIs /\ ResultsAre /\ WorldIs /\ LooseIs /\ CommitIs

\* The first state.
LEMMA InvInit == ASSUME Init PROVE BuildInv
BY BookInit, WorldInit, LooseInit, CommitInit DEF BuildInv

\* Every step.
LEMMA InvStep == ASSUME BuildInv, [Next]_vars PROVE BuildInv'
<1>1. BookIs /\ ResultsAre /\ WorldIs /\ LooseIs /\ CommitIs
  BY DEF BuildInv
<1>2. BookIs' /\ ResultsAre' /\ LooseIs'
  BY <1>1, BookStep, LooseStep
<1>3. CASE UNCHANGED world
  BY <1>1, <1>2, <1>3, WorldStays, RestSteps DEF BuildInv
<1>4. ASSUME NEW p \in Policies \union {NoPolicy}, Open(p) PROVE BuildInv'
  <2>1. WorldIs'
    BY <1>1, <1>4, OpenStep
  <2>2. CommitIs'
    BY <1>1, <1>4, RestSteps
  <2> QED
    BY <1>2, <2>1, <2>2 DEF BuildInv
<1>5. CASE Found
  BY <1>1, <1>2, <1>5, FoundStep, RestSteps DEF BuildInv
<1>6. CASE Crash \/ Close
  BY <1>1, <1>2, <1>6, DownStep, RestSteps DEF BuildInv
<1>7. CASE BeginBuild \/ AbortBuild \/ \E scope \in {"session", "all"} : SealBuild(scope) \/ SealRaises(scope)
  <2>1. WorldIs'
    BY <1>1, <1>7, SessionStep
  <2>2. CommitIs'
    BY <1>1, <1>7, RestSteps
  <2> QED
    BY <1>2, <2>1, <2>2 DEF BuildInv
<1>8. ASSUME NEW S \in SUBSET DOMAIN plan, DOMAIN results = DOMAIN plan, Commit(S) PROVE BuildInv'
  <2>1. WorldIs'
    BY <1>1, <1>8, CommitStep
  <2>2. CommitIs'
    BY <1>1, <1>8, CommitBegins
  <2> QED
    BY <1>2, <2>1, <2>2 DEF BuildInv
<1>9. CASE WriteRow
  BY <1>1, <1>2, <1>9, CommitGoesOn DEF BuildInv
<1>10. CASE Judge
  BY <1>1, <1>2, <1>10, JudgeStep, CommitJudged DEF BuildInv
<1>11. CASE UNCHANGED vars
  <2>1. UNCHANGED world
    BY <1>11 DEF vars
  <2> QED
    BY <1>3, <2>1
<1>12. ASSUME NEW k \in DOMAIN plan, CallFails(k) \/ \E out \in Answers[plan[k].first] : Answer(k, out)
       PROVE  UNCHANGED world
  BY <1>12 DEF CallFails, Answer
<1> QED
  BY <1>3, <1>4, <1>5, <1>6, <1>7, <1>8, <1>9, <1>10, <1>11, <1>12 DEF Next

\* The invariant holds of every build.
LEMMA Built == Spec => []BuildInv
<1>1. Init => BuildInv
  BY InvInit
<1>2. BuildInv /\ [Next]_vars => BuildInv'
  BY InvStep
<1> QED
  BY <1>1, <1>2, PTL DEF Spec

\* Whatever the policies, the rows a genesis was cut off at and the sessions: a world has
\* one physics row at most, runs under it, and has none only where a genesis died
\* (World.__init__).
THEOREM OnePhysicsRules == Spec => []PhysicsHold
<1>1. ASSUME BuildInv PROVE PhysicsHold
  <2>1. ListsAre /\ (proc = "up" => UpIs)
    BY <1>1 DEF BuildInv, WorldIs
  <2>2. Cardinality(Physics) <= 1
    <3>1. CASE Physics = {}
      BY <3>1, FS_EmptySet
    <3>2. CASE Physics # {}
      <4>1. PICK i \in Physics : TRUE
        BY <3>2
      <4>2. Physics = {i}
        BY <2>1, <4>1 DEF ListsAre
      <4>3. Cardinality({i}) = 1
        BY FS_Singleton
      <4>4. Cardinality(Physics) = 1
        BY <4>2, <4>3
      <4> HIDE DEF Physics
      <4> QED
        BY <4>4
    <3> QED
      BY <3>1, <3>2
  <2>3. proc = "up" => IF Physics = {} THEN policy = Default /\ spent.crashes > 0 ELSE policy = Stored
    BY <2>1 DEF UpIs
  <2> QED
    BY <2>2, <2>3 DEF PhysicsHold
<1> QED
  BY <1>1, Built, PTL

\* However a session ends, and wherever the process dies: what has no verdict is due to be
\* judged, lies in the open session or is known to have been left; where nothing died and
\* no session was opened every main row that is not due has one; and items are judged as
\* they land exactly while no session is open (begin_build, seal_build, abort_build,
\* World.close).
THEOREM SessionsSettle == Spec => []UnjudgedAreLoose
<1>1. ASSUME BuildInv PROVE UnjudgedAreLoose
  <2>1. ListsAre /\ LooseIs /\ (proc = "up" => UpIs)
    BY <1>1 DEF BuildInv, WorldIs
  <2>2. ASSUME proc = "up", spent.crashes + spent.sessions = 0, NEW i \in DOMAIN log \ (judged \union due)
        PROVE  log[i].kind \notin MainKinds \union {"charter", "physics"}
    <3>1. i \in loose \union Unsettled
      BY <2>1, <2>2 DEF UpIs, Unjudged
    <3>2. ~session.open
      BY <2>1, <2>2 DEF LooseIs, ListsAre
    <3>3. i \in loose
      BY <3>1, <3>2 DEF Unsettled
    <3> QED
      BY <2>1, <2>2, <3>3 DEF LooseIs, Untroubled, Judgeable, GenesisKinds
  <2> QED
    BY <2>1, <2>2 DEF UpIs, Unjudged, UnjudgedAreLoose
<1> QED
  BY <1>1, Built, PTL

\* However often the process died in a commit, and at whatever rows: the commit that
\* comes through leaves exactly the rows of one that was never cut short, but for the
\* evidence of a link (commit, correlate, reject).
THEOREM RetryCompletes == Spec => []RetriedIsWhole
<1>1. ASSUME BuildInv, done PROVE RetriedIsWhole
  <2>1. CommitIs /\ BookIs /\ ResultsAre
    BY <1>1 DEF BuildInv
  <2>2. batch # {}
    BY <1>1, <2>1 DEF CommitIs
  <2>3. /\ batch \in SUBSET DOMAIN plan /\ DOMAIN results = DOMAIN plan /\ Accepted(batch)
        /\ BuildRows \subseteq Range(Writes(batch))
        /\ \A row \in Range(Writes(batch)) : Landed(row)
    BY <1>1, <2>1, <2>2 DEF CommitIs
  <2>4. Chunks(batch)
    BY <2>1, <2>3, ChunksAre
  <2>5. \A row \in Range(Writes(batch)) : row.kind \notin GenesisKinds
    BY <2>1, <2>4, WritesNoGenesis
  <2>6. ASSUME NEW row \in Range(Writes(batch)) \ BuildRows
        PROVE  row.kind = "aka_evidence" /\ spent.crashes > 0
    <3>1. row \notin Range(log)
      BY <2>5, <2>6 DEF BuildRows, GenesisKinds
    <3> QED
      BY <2>3, <3>1 DEF Landed
  <2> QED
    BY <2>3, <2>6 DEF RetriedIsWhole
<1>2. BuildInv => RetriedIsWhole
  BY <1>1 DEF RetriedIsWhole
<1> QED
  BY <1>2, Built, PTL

\* A handle leads to what was given for its declaration.
LEMMA HandlesAreThings ==
  ASSUME BookIs, NEW S, Chunks(S)
  PROVE  OneIdEach(Allocation(S).handles)
<1> DEFINE a == Allocation(S)
           N == Len(Declared(S))
<1>1. GivenFits(S, a, N) /\ HandlesFit(S, a, N)
  BY AllocationIs DEF AllocOf
<1>2. \A i \in 1..N : Declared(S)[i].chunk \in S /\ Declared(S)[i].of \in results[Declared(S)[i].chunk].decls
  BY DeclaredIs
<1> HIDE DEF a, N
<1>3. ASSUME NEW h \in a.handles
      PROVE  \E i \in 1..N : \E g \in a.given :
               /\ SlotAt(S, i) = g.slot /\ h.id = g.id
               /\ h.chunk = Declared(S)[i].chunk /\ h.handle = Declared(S)[i].of.handle
  <2>1. PICK i \in 1..N : \E g \in a.given : SlotAt(S, i) = g.slot /\ h = HandleOf(S, i, g)
    BY <1>1 DEF HandlesFit
  <2>2. PICK g \in a.given : SlotAt(S, i) = g.slot /\ h = HandleOf(S, i, g)
    BY <2>1
  <2>3. h.id = g.id /\ h.chunk = Declared(S)[i].chunk /\ h.handle = Declared(S)[i].of.handle
    BY <2>2 DEF HandleOf
  <2> QED
    BY <2>2, <2>3
<1>4. ASSUME NEW h \in a.handles, NEW p \in a.handles
      PROVE  /\ h.id \notin Minted
             /\ \E d \in results[h.chunk].decls, e \in results[p.chunk].decls :
                  /\ d.handle = h.handle /\ e.handle = p.handle
                  /\ h.id = p.id <=> SameThing(h.chunk, d, p.chunk, e)
  <2>1. PICK i \in 1..N : \E g \in a.given :
          /\ SlotAt(S, i) = g.slot /\ h.id = g.id
          /\ h.chunk = Declared(S)[i].chunk /\ h.handle = Declared(S)[i].of.handle
    BY <1>3
  <2>2. PICK g \in a.given : SlotAt(S, i) = g.slot /\ h.id = g.id
    BY <2>1
  <2>3. PICK j \in 1..N : \E q \in a.given :
          /\ SlotAt(S, j) = q.slot /\ p.id = q.id
          /\ p.chunk = Declared(S)[j].chunk /\ p.handle = Declared(S)[j].of.handle
    BY <1>3
  <2>4. PICK q \in a.given : SlotAt(S, j) = q.slot /\ p.id = q.id
    BY <2>3
  <2> DEFINE d == Declared(S)[i].of
             e == Declared(S)[j].of
  <2>5. /\ h.chunk \in S /\ d \in results[h.chunk].decls /\ d.handle = h.handle
        /\ p.chunk \in S /\ e \in results[p.chunk].decls /\ e.handle = p.handle
    BY <1>2, <2>1, <2>3
  <2>6. SlotAt(S, i) = SlotOf(h.chunk, d) /\ SlotAt(S, j) = SlotOf(p.chunk, e)
    BY <2>1, <2>3 DEF SlotAt
  <2> HIDE DEF d, e
  <2>7. SlotOf(h.chunk, d) = SlotOf(p.chunk, e) <=> SameThing(h.chunk, d, p.chunk, e)
    BY <2>5, SlotsAreThings
  <2>8. g.id = q.id <=> g.slot = q.slot
    BY <1>1 DEF GivenFits
  <2>9. g.id \notin Minted
    BY <1>1 DEF GivenFits
  <2> QED
    BY <2>2, <2>4, <2>5, <2>6, <2>7, <2>8, <2>9
<1> QED
  BY <1>4 DEF OneIdEach, a

\* What a row of the world is.
LEMMA RowsOfTheWorld ==
  ASSUME BuildInv, NEW row \in BuildRows
  PROVE  Chunks(batch) /\ RowOf(batch, row) /\ row \in Range(Writes(batch)) /\ batch # {}
         /\ batch \in SUBSET DOMAIN plan
<1>1. CommitIs /\ BookIs /\ ResultsAre
  BY DEF BuildInv
<1>2. batch # {} /\ batch \in SUBSET DOMAIN plan /\ DOMAIN results = DOMAIN plan /\ Accepted(batch)
      /\ BuildRows \subseteq Range(Writes(batch))
  BY <1>1 DEF CommitIs
<1>3. Chunks(batch)
  BY <1>1, <1>2, ChunksAre
<1> QED
  BY <1>1, <1>2, <1>3, WritesAre

\* A fact is of its item, and dated as that says.
LEMMA FactHas ==
  ASSUME NEW l, NEW k, NEW handles, NEW fact, fact = FactRow(l, k, handles)
  PROVE  /\ fact.kind = "fact" /\ fact.pos = Absolute(plan[k], l) /\ fact.thing[4] = l.attribute
         /\ fact.ids = {Replaced(x, k, handles) : x \in (l.ids \union {l.source}) \ {NoId}}
         /\ DatedByBuild(fact) => fact.at = k
<1> DEFINE ids == {Replaced(x, k, handles) : x \in (l.ids \union {l.source}) \ {NoId}}
           what == ItemOf(l, k)
<1>1. /\ fact.kind = "fact" /\ fact.ids = ids /\ fact.at = TimeOf(l, k) /\ fact.thing = what
      /\ fact.pos = Absolute(plan[k], l)
  BY DEF FactRow, Put
<1>2. what[1] = Dated(l) /\ what[4] = l.attribute
  <2> DEFINE d == Dated(l)
             q == <<d, k, "", l.attribute>>
  <2>1. q[1] = d /\ q[4] = l.attribute
    OBVIOUS
  <2>2. what = q
    BY DEF ItemOf, Thing
  <2> HIDE DEF q, d, what
  <2> QED
    BY <2>1, <2>2 DEF d
<1>3. Dated(l) = "chunk" => TimeOf(l, k) = k
  <2>1. ASSUME Dated(l) = "chunk" PROVE Dated(l) # "always" /\ Dated(l) # "line"
    BY <2>1
  <2> QED
    BY <2>1 DEF TimeOf
<1> HIDE DEF what, ids
<1> QED
  BY <1>1, <1>2, <1>3 DEF DatedByBuild, ids

\* No fact of the world is what it takes for a fixture.
LEMMA FixturesRefused ==
  ASSUME BuildInv, NEW row \in Range(log), row.kind = "fact"
  PROVE  row.thing[4] \notin Fixtures
<1>1. row \in BuildRows
  BY DEF BuildRows
<1>2. RowOf(batch, row) /\ Accepted(batch)
  BY <1>1, RowsOfTheWorld DEF BuildInv, CommitIs
<1>3. FactOf(batch, row)
  BY <1>2, ByKind
<1>4. PICK k \in batch : \E l \in results[k].items : row = FactRow(l, k, Allocation(batch).handles)
  BY <1>3 DEF FactOf
<1>5. PICK l \in results[k].items : row = FactRow(l, k, Allocation(batch).handles)
  BY <1>4
<1>6. l.attribute \notin Fixtures
  BY <1>2 DEF Accepted, ResultAccepted, ItemAccepted
<1> QED
  BY <1>5, <1>6, FactHas

\* Whatever the chapters, the manifest, the answers and the aliases: extraction passes a
\* line in the chunk's numbers exactly when commit accepts it in the book's, save what this
\* world takes for a fixture; of the results extraction passes, those with such an item
\* are refused and no other; and no fact of the world is one (extract.py against
\* commit.py).
THEOREM TwoChecksOneLanguage == Spec => []LanguagesAgree
<1>1. ASSUME BuildInv PROVE LanguagesAgree
  <2>1. BookIs /\ ResultsAre
    BY <1>1 DEF BuildInv
  <2>2. \A k \in DOMAIN plan : \A l :
          ItemAccepted(plan[k], l) <=> LineStands(plan[k], l) /\ l.attribute \notin Fixtures
    BY <2>1, SameVerdict
  <2>3. \A k \in DOMAIN results :
          results[k].error \/ (ResultAccepted(plan[k], results[k])
                                <=> \A l \in results[k].items : l.attribute \notin Fixtures)
    BY <2>1, Agreeing
  <2>4. \A row \in Range(log) : row.kind = "fact" => row.thing[4] \notin Fixtures
    BY <1>1, FixturesRefused
  <2> QED
    BY <2>2, <2>3, <2>4 DEF LanguagesAgree
<1> QED
  BY <1>1, Built, PTL

\* Two rows that name things speak of one thing exactly when they bear one id.
LEMMA NamedApart ==
  ASSUME BookIs, NEW S, Chunks(S), NEW r, NEW q,
         OfManifest(S, r) \/ IdentityRow(S, Allocation(S), r),
         OfManifest(S, q) \/ IdentityRow(S, Allocation(S), q)
  PROVE  r.ids = q.ids <=> r.thing = q.thing
<1> DEFINE a == Allocation(S)
<1>1. GivenFits(S, a, Len(Declared(S)))
  BY AllocationIs DEF AllocOf
<1> HIDE DEF a
<1>2. /\ \A g \in a.given : g.id \notin Minted /\ g.slot[1] \in Things
      /\ \A g, h \in a.given : g.id = h.id <=> g.slot = h.slot
  BY <1>1 DEF GivenFits, SlotHas
<1>3. DOMAIN registry = 1..Listed(manifest)
      /\ \A j, k \in DOMAIN registry : registry[j].id = registry[k].id => j = k
  BY BookHas DEF RegistryOf
<1>4. ASSUME NEW row, OfManifest(S, row)
      PROVE  \E k \in DOMAIN registry : row.ids = {registry[k].id} /\ row.thing = ManifestThing(k)
                                        /\ registry[k].id \in Minted
  <2>1. \A k \in DOMAIN registry : registry[k].id \in Minted
    BY DEF Minted, Idents, Range
  <2>2. PICK k \in DOMAIN registry : \E kind \in {"shape", "name"} :
          row = Put(kind, {registry[k].id}, GateChunk(S, registry[k].gate), ManifestThing(k), 0)
    BY <1>4 DEF OfManifest
  <2>3. row.ids = {registry[k].id} /\ row.thing = ManifestThing(k)
    BY <2>2 DEF Put
  <2> QED
    BY <2>1, <2>3
<1>5. ASSUME NEW row, IdentityRow(S, a, row)
      PROVE  \E g \in a.given : row.ids = {g.id} /\ row.thing = g.slot
  BY <1>5 DEF IdentityRow, Put
<1>6. \A k : ManifestThing(k)[1] \notin Things
  BY DEF ManifestThing, Thing, Things
<1>7. \A k : ManifestThing(k)[2] = k
  BY DEF ManifestThing, Thing
<1>8. CASE OfManifest(S, r) /\ OfManifest(S, q)
  <2>1. PICK j \in DOMAIN registry : r.ids = {registry[j].id} /\ r.thing = ManifestThing(j)
    BY <1>4, <1>8
  <2>2. PICK k \in DOMAIN registry : q.ids = {registry[k].id} /\ q.thing = ManifestThing(k)
    BY <1>4, <1>8
  <2>3. {registry[j].id} = {registry[k].id} <=> j = k
    BY <1>3
  <2>4. ManifestThing(j) = ManifestThing(k) <=> j = k
    BY <1>7
  <2>5. r.ids = q.ids <=> {registry[j].id} = {registry[k].id}
    BY <2>1, <2>2
  <2>6. r.thing = q.thing <=> ManifestThing(j) = ManifestThing(k)
    BY <2>1, <2>2
  <2> QED
    BY <2>3, <2>4, <2>5, <2>6
<1>9. CASE OfManifest(S, r) /\ IdentityRow(S, a, q)
  <2>1. PICK j \in DOMAIN registry : r.ids = {registry[j].id} /\ r.thing = ManifestThing(j)
                                    /\ registry[j].id \in Minted
    BY <1>4, <1>9
  <2>2. PICK h \in a.given : q.ids = {h.id} /\ q.thing = h.slot
    BY <1>5, <1>9
  <2>3. registry[j].id # h.id /\ ManifestThing(j) # h.slot
    BY <1>2, <1>6, <2>1
  <2>4. {registry[j].id} # {h.id}
    BY <2>3
  <2> QED
    BY <2>1, <2>2, <2>3, <2>4
<1>10. CASE IdentityRow(S, a, r) /\ OfManifest(S, q)
  BY <1>2, <1>4, <1>5, <1>6, <1>10
<1>11. CASE IdentityRow(S, a, r) /\ IdentityRow(S, a, q)
  <2>1. PICK g \in a.given : r.ids = {g.id} /\ r.thing = g.slot
    BY <1>5, <1>11
  <2>2. PICK h \in a.given : q.ids = {h.id} /\ q.thing = h.slot
    BY <1>5, <1>11
  <2>3. g.id = h.id <=> g.slot = h.slot
    BY <1>2
  <2>4. {g.id} = {h.id} <=> g.id = h.id
    OBVIOUS
  <2> QED
    BY <2>1, <2>2, <2>3, <2>4
<1> QED
  BY <1>8, <1>9, <1>10, <1>11 DEF a

\* Whatever was declared in whatever chunks, and however often the commit was begun: two
\* declarations share an id exactly when the text means one thing by them, none has an id
\* of the manifest, and no two rows of the world name one thing by two ids or two by one
\* (allocator, step 1 of commit).
THEOREM OneThingOneId == Spec => []OneIdPerThing
<1>1. ASSUME BuildInv PROVE OneIdPerThing
  <2>1. BookIs /\ ResultsAre /\ CommitIs
    BY <1>1 DEF BuildInv
  <2>2. ASSUME Writing PROVE OneIdEach(Allocation(batch).handles)
    <3>1. batch \in SUBSET DOMAIN plan /\ DOMAIN results = DOMAIN plan /\ Accepted(batch)
      BY <2>1, <2>2 DEF CommitIs
    <3> QED
      BY <2>1, <3>1, ChunksAre, HandlesAreThings
  <2>3. ASSUME NEW r \in IdentityRowsWritten, NEW q \in IdentityRowsWritten
        PROVE  r.ids = q.ids <=> r.thing = q.thing
    <3>1. /\ r \in BuildRows /\ r.kind \in {"shape", "name"}
          /\ q \in BuildRows /\ q.kind \in {"shape", "name"}
      BY DEF IdentityRowsWritten, BuildRows
    <3>2. Chunks(batch) /\ RowOf(batch, r) /\ RowOf(batch, q)
      BY <1>1, <3>1, RowsOfTheWorld
    <3> QED
      BY <2>1, <3>1, <3>2, ByKind, NamedApart
  <2> QED
    BY <2>2, <2>3 DEF OneIdPerThing, Writing
<1> QED
  BY <1>1, Built, PTL

-----------------------------------------------------------------------------
(* The times a commit gives its rows.                                      *)

Unshaped == {"mention", "doc"}
ShapeOf(row, x, at) == row.kind = "shape" /\ row.ids = {x} /\ row.at <= at
\* The shape of what a fact names, no later than the fact if the build dates that.
ShapeFor(row, x, fact) ==
  row.kind = "shape" /\ row.ids = {x} /\ (DatedByBuild(fact) => row.at <= fact.at)

\* A line that commit accepts lies in its chunk, and so does what it names.
LEMMA LineIs ==
  ASSUME BookIs, NEW S \in SUBSET DOMAIN plan, Accepted(S), NEW k \in S, NEW l \in results[k].items
  PROVE  /\ Absolute(plan[k], l) \in plan[k].first..plan[k].last /\ Absolute(plan[k], l) \in Nat
         /\ \A x \in {y \in l.ids : ~IsHandle(y)} : x \in Minted /\ Ident(x).gate <= Absolute(plan[k], l)
         /\ IsHandle(l.source) \/ SourceStands(l.source, Absolute(plan[k], l))
<1>1. ItemAccepted(plan[k], l)
  BY DEF Accepted, ResultAccepted
<1>2. plan[k].first \in Nat /\ plan[k].last \in Nat
  BY ChunkIs
<1>3. l.cites \in 1..(plan[k].last - plan[k].first + 1)
  BY <1>1 DEF ItemAccepted, Size
<1>4. Absolute(plan[k], l) = plan[k].first + l.cites - 1
  BY DEF Absolute
<1>5. Absolute(plan[k], l) \in plan[k].first..plan[k].last /\ Absolute(plan[k], l) \in Nat
  <2> DEFINE f == plan[k].first
             t == plan[k].last
             c == l.cites
             p == Absolute(plan[k], l)
  <2>1. f \in Nat /\ t \in Nat /\ c \in 1..(t - f + 1) /\ p = f + c - 1
    BY <1>2, <1>3, <1>4
  <2> HIDE DEF f, t, c, p
  <2>2. p \in f..t /\ p \in Nat
    BY <2>1
  <2> QED
    BY <2>2 DEF f, t, p
<1> QED
  BY <1>1, <1>5 DEF ItemAccepted

\* Who is of the manifest has its shape dated no later than any chunk that lies past its
\* gate.
LEMMA MintedIsKnown ==
  ASSUME BookIs, NEW S, Chunks(S), NEW k \in S, NEW x \in Minted, NEW at \in Nat,
         Ident(x).gate <= at, at <= plan[k].last
  PROVE  \E r \in Range(Knows(S)) : ShapeOf(r, x, k)
<1>1. S \in SUBSET Nat /\ S \subseteq DOMAIN plan
  <2>1. S \in SUBSET (1..Len(plan)) /\ Len(plan) \in Nat
    BY DEF Chunks
  <2>2. DOMAIN plan = 1..Len(plan)
    BY BookHas DEF PlanOf
  <2> QED
    BY <2>1, <2>2
<1>2. Ident(x) \in Idents /\ Ident(x).id = x /\ Ident(x).gate \in Sentences
  BY IdentIs
<1>3. PICK n \in DOMAIN registry : Ident(x) = registry[n]
  BY <1>2 DEF Idents, Range
<1> DEFINE gate == Ident(x).gate
           G == GateChunks(S, gate)
           r == Put("shape", {registry[n].id}, GateChunk(S, registry[n].gate), ManifestThing(n), 0)
<1>4. gate \in Nat /\ plan[k].last \in Nat /\ gate <= at
  BY <1>1, <1>2, ChunkIs, TheText
<1>5. plan[k].last >= gate
  <2> HIDE DEF gate
  <2> QED
    BY <1>4
<1>6. k \in G /\ G \in SUBSET Nat
  BY <1>1, <1>5 DEF GateChunks
<1>7. GateChunk(S, gate) <= k
  <2>1. GateChunk(S, gate) = Min(G)
    BY DEF GateChunk
  <2> HIDE DEF G, gate
  <2> QED
    BY <1>6, <2>1, MinIs
<1>8. r \in Range(Knows(S))
  <2>1. r \in Range(ManifestRows(S))
    BY ManifestRowsAre
  <2> HIDE DEF r
  <2> QED
    BY <2>1, WritesAre
<1>9. r.kind = "shape" /\ r.ids = {x} /\ r.at = GateChunk(S, gate)
  BY <1>2, <1>3 DEF Put
<1> HIDE DEF r, gate
<1> QED
  BY <1>7, <1>8, <1>9 DEF ShapeOf

\* Who a handle stands for has its shape dated no later than the chunk that uses it,
\* but for a pick.
LEMMA GivenIsKnown ==
  ASSUME BookIs, NEW S, Chunks(S), NEW k \in S, NEW d \in results[k].decls,
         NEW h, h = (CHOOSE p \in Allocation(S).handles : p.chunk = k /\ p.handle = d.handle),
         h.id[1] # "mention"
  PROVE  \E r \in Range(Knows(S)) : ShapeOf(r, h.id, k)
<1> DEFINE a == Allocation(S)
           N == Len(Declared(S))
<1>1. GivenFits(S, a, N) /\ HandlesFit(S, a, N) /\ RowsFit(S, a, N)
  BY AllocationIs DEF AllocOf
<1>2. PICK i \in 1..N : Declared(S)[i] = [chunk |-> k, of |-> d]
  BY DeclaredIs
<1>3. Declared(S)[i].chunk = k /\ Declared(S)[i].of = d
  BY <1>2
<1>4. h = CHOOSE p \in a.handles : p.chunk = k /\ p.handle = d.handle
  OBVIOUS
<1> HIDE DEF a, N
<1>5. PICK g \in a.given : HandleOf(S, i, g) \in a.handles
  BY <1>1 DEF HandlesFit
<1>6. HandleOf(S, i, g).chunk = k /\ HandleOf(S, i, g).handle = d.handle
  BY <1>3 DEF HandleOf
<1>7. h \in a.handles /\ h.chunk = k
  <2>1. \E p \in a.handles : p.chunk = k /\ p.handle = d.handle
    BY <1>5, <1>6
  <2> QED
    BY <1>4, <2>1
<1>8. PICK j \in 1..N : \E q \in a.given : SlotAt(S, j) = q.slot /\ h = HandleOf(S, j, q)
  BY <1>1, <1>7 DEF HandlesFit
<1>9. PICK q \in a.given : SlotAt(S, j) = q.slot /\ h = HandleOf(S, j, q)
  BY <1>8
<1>10. Declared(S)[j].chunk = k /\ h.id = q.id
  <2>1. HandleOf(S, j, q).chunk = Declared(S)[j].chunk /\ HandleOf(S, j, q).id = q.id
    BY DEF HandleOf
  <2>2. h = HandleOf(S, j, q) /\ h.chunk = k
    BY <1>7, <1>9
  <2> QED
    BY <2>1, <2>2
<1>11. q.slot[1] # "pick"
  BY <1>1, <1>10 DEF GivenFits
<1>12. PICK c \in S : Put("shape", {q.id}, c, q.slot, 0) \in Range(a.rows) /\ Early(S, q.slot, c, N)
  BY <1>1, <1>11 DEF RowsFit
<1> DEFINE r == Put("shape", {q.id}, c, q.slot, 0)
<1>13. r.kind = "shape" /\ r.ids = {q.id} /\ r.at = c
  BY DEF Put
<1>14. c <= k
  BY <1>9, <1>10, <1>12 DEF Early
<1>15. r \in Range(Knows(S))
  <2>1. r \in Range(a.rows)
    BY <1>12
  <2> HIDE DEF r
  <2> QED
    BY <2>1, WritesAre DEF a
<1> HIDE DEF r
<1> QED
  BY <1>10, <1>13, <1>14, <1>15 DEF ShapeOf

\* What a fact names has its shape among the first rows of the commit, dated no later
\* than a fact the build dates.
LEMMA FactNames ==
  ASSUME BookIs, ResultsAre, NEW S \in SUBSET DOMAIN plan, DOMAIN results = DOMAIN plan, Accepted(S),
         NEW fact, FactOf(S, fact), NEW x \in fact.ids, x[1] \notin Unshaped
  PROVE  \E r \in Range(Knows(S)) : ShapeFor(r, x, fact)
<1> DEFINE handles == Allocation(S).handles
<1>1. Chunks(S)
  BY ChunksAre
<1>2. PICK k \in S : \E l \in results[k].items : fact = FactRow(l, k, handles)
  BY DEF FactOf
<1>3. PICK l \in results[k].items : fact = FactRow(l, k, handles)
  BY <1>2
<1>4. /\ DatedByBuild(fact) => fact.at = k
      /\ fact.ids = {Replaced(y, k, handles) : y \in (l.ids \union {l.source}) \ {NoId}}
  BY <1>3, FactHas
<1>5. PICK y \in (l.ids \union {l.source}) \ {NoId} : x = Replaced(y, k, handles)
  BY <1>4
<1> DEFINE at == Absolute(plan[k], l)
<1>6. /\ at \in plan[k].first..plan[k].last /\ at \in Nat
      /\ \A z \in {w \in l.ids : ~IsHandle(w)} : z \in Minted /\ Ident(z).gate <= at
      /\ IsHandle(l.source) \/ SourceStands(l.source, at)
  BY LineIs
<1>7. plan[k].first \in Nat /\ plan[k].last \in Nat
  BY ChunkIs
<1> HIDE DEF at
<1>8. CASE IsHandle(y)
  <2>1. y \in Handles(l)
    BY <1>5, <1>8 DEF Handles
  <2>2. y \in Used(results[k].items)
    BY <2>1 DEF Used
  <2>3. Used(results[k].items) = {d.handle : d \in results[k].decls}
    BY DEF Accepted, ResultAccepted
  <2>4. PICK d \in results[k].decls : d.handle = y
    BY <2>2, <2>3
  <2> DEFINE h == CHOOSE p \in handles : p.chunk = k /\ p.handle = d.handle
  <2>5. x = h.id
    BY <1>5, <1>8, <2>4 DEF Replaced
  <2>6. x[1] # "mention"
    BY DEF Unshaped
  <2>7. h = CHOOSE p \in Allocation(S).handles : p.chunk = k /\ p.handle = d.handle
    OBVIOUS
  <2> HIDE DEF h
  <2>8. \E r \in Range(Knows(S)) : ShapeOf(r, h.id, k)
    BY <1>1, <2>4, <2>5, <2>6, <2>7, GivenIsKnown
  <2>9. PICK r \in Range(Knows(S)) : ShapeOf(r, x, k)
    BY <2>5, <2>8
  <2> QED
    BY <1>4, <2>9 DEF ShapeOf, ShapeFor
<1>9. CASE ~IsHandle(y)
  <2>1. x = y
    BY <1>5, <1>9 DEF Replaced
  <2>2. x \in Minted /\ Ident(x).gate <= at
    <3>1. CASE y \in l.ids
      BY <1>6, <1>9, <2>1, <3>1
    <3>2. CASE y = l.source
      <4>1. l.source \in Minted \/ l.source[1] # "person"
        BY <1>6, <1>9, <3>2 DEF SourceStands
      <4>2. l.source[1] \in {"new", "person", "doc"}
        <5>1. k \in DOMAIN results /\ l.source # NoId
          BY <1>5, <3>2
        <5> QED
          BY <5>1, ResultHas
      <4>3. l.source[1] # "new" /\ l.source[1] # "doc"
        BY <1>9, <2>1, <3>2 DEF IsHandle, Unshaped
      <4>4. l.source \in Minted
        BY <4>1, <4>2, <4>3
      <4>5. Ident(l.source).gate <= at
        BY <1>6, <1>9, <3>2, <4>4 DEF SourceStands
      <4> QED
        BY <2>1, <3>2, <4>4, <4>5
    <3> QED
      BY <1>5, <3>1, <3>2
  <2>3. at <= plan[k].last
    BY <1>6, <1>7
  <2> QED
    BY <1>1, <1>4, <1>6, <2>2, <2>3, MintedIsKnown DEF ShapeOf, ShapeFor
<1> QED
  BY <1>8, <1>9

\* The log grows by a row of the genesis or of a commit.
LEMMA LogGrows ==
  ASSUME BuildInv, [Next]_vars
  PROVE  \/ log' = log
         \/ \E row : log' = Append(log, row) /\ row.kind # "fact"
         \/ WriteRow /\ log' = Append(log, Head(todo))
<1>1. WorldIs
  BY DEF BuildInv
<1>2. CASE Found
  <2>1. proc = "genesis" /\ todo # <<>> /\ log' = Append(log, Head(todo))
    BY <1>2 DEF Found
  <2>2. Head(todo).kind = "charter" \/ Head(todo) = PhysicsRow(policy)
    BY <1>1, <2>1, GenesisTodo
  <2>3. PhysicsRow(policy).kind = "physics"
    BY DEF PhysicsRow, Put
  <2> QED
    BY <2>1, <2>2, <2>3
<1>3. CASE WriteRow
  BY <1>1, <1>3, WriteIs
<1>4. CASE UNCHANGED vars
  BY <1>4 DEF vars, world
<1>5. ASSUME \/ \E k \in DOMAIN plan : CallFails(k) \/ \E out \in Answers[plan[k].first] : Answer(k, out)
             \/ \E p \in Policies \union {NoPolicy} : Open(p)
             \/ Crash \/ Close \/ BeginBuild \/ AbortBuild
             \/ \E scope \in {"session", "all"} : SealBuild(scope) \/ SealRaises(scope)
             \/ \E S \in SUBSET DOMAIN plan : Commit(S)
             \/ Judge
      PROVE  log' = log
  BY <1>5 DEF CallFails, Answer, world, Open, Crash, Close, Down, BeginBuild, AbortBuild, SealBuild,
              SealRaises, EndSession, Commit, Judge
<1> QED
  BY <1>2, <1>3, <1>4, <1>5 DEF Next

\* When a fact is written, all that it names is in the log.
LEMMA NamedIsLogged ==
  ASSUME BuildInv, WriteRow, Head(todo).kind = "fact",
         NEW x \in Head(todo).ids, x[1] \notin Unshaped
  PROVE  \E m \in 1..Len(log) : ShapeFor(log[m], x, Head(todo))
<1> DEFINE W == Writes(batch)
           K == Knows(batch)
           row == Head(todo)
<1>1. BookIs /\ ResultsAre /\ WorldIs /\ CommitIs
  BY DEF BuildInv
<1>2. proc = "up" /\ todo # <<>>
  BY DEF WriteRow
<1>3. /\ batch \in SUBSET DOMAIN plan /\ DOMAIN results = DOMAIN plan /\ Accepted(batch)
      /\ \E off \in Nat : Suffix(todo, W, off) /\ Reached(off)
  BY <1>1, <1>2 DEF CommitIs, Writing
<1>4. PICK off \in Nat : Suffix(todo, W, off) /\ Reached(off)
  BY <1>3
<1>5. Chunks(batch) /\ off + 1 \in 1..Len(W) /\ row = W[off + 1] /\ row \in Range(W)
  BY <1>1, <1>4, NextWritten
<1>6. /\ \A r \in Range(W) : RowOf(batch, r)
      /\ Starts(K, W) /\ IsList(K) /\ \A r \in Range(K) : r.kind # "fact"
  BY <1>1, <1>5, WritesAre
<1>7. FactOf(batch, row)
  BY <1>5, <1>6, ByKind
<1>8. PICK r \in Range(K) : ShapeFor(r, x, row)
  BY <1>1, <1>3, <1>7, FactNames
<1> HIDE DEF W, K, row
<1>9. /\ Len(K) \in Nat /\ DOMAIN K = 1..Len(K) /\ Len(K) <= Len(W) /\ Len(W) \in Nat
      /\ \A i \in 1..Len(K) : W[i] = K[i]
  <2>1. Len(W) \in Nat /\ Len(K) \in Nat
    BY <1>6 DEF Starts, IsList
  <2>2. DOMAIN K = 1..Len(K)
    BY <1>6 DEF IsList
  <2> QED
    BY <1>6, <2>1, <2>2 DEF Starts
<1>10. off + 1 \notin 1..Len(K)
  <2>1. ASSUME off + 1 \in 1..Len(K) PROVE FALSE
    <3>1. row = K[off + 1]
      BY <1>5, <1>9, <2>1
    <3>2. row \in Range(K)
      BY <1>9, <2>1, <3>1 DEF Range
    <3>3. row.kind = "fact"
      BY DEF row
    <3> QED
      BY <1>6, <3>2, <3>3
  <2> QED
    BY <2>1
<1>11. PICK p \in 1..Len(K) : r = K[p]
  BY <1>9 DEF Range
<1>12. p \in 1..off
  <2> DEFINE n == Len(K)
  <2>1. n \in Nat /\ off + 1 \notin 1..n /\ p \in 1..n
    BY <1>9, <1>10
  <2> HIDE DEF n
  <2> QED
    BY <2>1
<1>13. Landed(r)
  <2>1. Landed(W[p])
    BY <1>4, <1>12 DEF Reached, W
  <2> QED
    BY <1>9, <1>11, <2>1
<1>14. r \in Range(log)
  <2>1. r.kind = "shape"
    BY <1>8 DEF ShapeFor
  <2> QED
    BY <1>13, <2>1 DEF Landed
<1>15. DOMAIN log = 1..Len(log)
  <2>1. IsList(log)
    BY <1>1 DEF WorldIs, ListsAre
  <2> QED
    BY <2>1 DEF IsList
<1> QED
  BY <1>8, <1>14, <1>15 DEF Range, row

Known(n) ==
  \A x \in {y \in log[n].ids : y[1] \notin Unshaped} : \E m \in 1..(n - 1) : ShapeFor(log[m], x, log[n])
KnownIs == \A n \in DOMAIN log : log[n].kind = "fact" => Known(n)

\* Rows are added behind what they name.
LEMMA KnownStep == ASSUME BuildInv, KnownIs, [Next]_vars PROVE KnownIs'
<1>1. IsList(log)
  BY DEF BuildInv, WorldIs, ListsAre
<1>2. CASE log' = log
  BY <1>2 DEF KnownIs, Known
<1>3. ASSUME NEW row, log' = Append(log, row),
             row.kind # "fact" \/ (WriteRow /\ row = Head(todo))
      PROVE  KnownIs'
  <2>1. /\ IsList(log') /\ Len(log') = Len(log) + 1 /\ Len(log) \in Nat
        /\ \A i \in 1..Len(log) : log'[i] = log[i]
        /\ log'[Len(log) + 1] = row /\ DOMAIN log = 1..Len(log)
    BY <1>1, <1>3, Appended
  <2>2. IsList(log')
    BY <2>1
  <2>3. DOMAIN log' = 1..(Len(log) + 1)
    BY <2>1, <2>2 DEF IsList
  <2> DEFINE n0 == Len(log)
  <2>4. /\ n0 \in Nat /\ DOMAIN log' = 1..(n0 + 1) /\ DOMAIN log = 1..n0
        /\ \A i \in 1..n0 : log'[i] = log[i]
        /\ log'[n0 + 1] = row
    BY <2>1, <2>3
  <2>5. ASSUME row.kind = "fact", NEW x \in row.ids, x[1] \notin Unshaped
        PROVE  \E m \in 1..n0 : ShapeFor(log[m], x, row)
    BY <1>3, <2>5, NamedIsLogged
  <2> HIDE DEF n0
  <2>6. ASSUME NEW n \in 1..n0, log'[n].kind = "fact",
               NEW x \in log'[n].ids, x[1] \notin Unshaped
        PROVE  \E m \in 1..(n - 1) : ShapeFor(log'[m], x, log'[n])
    <3>1. log'[n] = log[n] /\ \A m \in 1..(n - 1) : m \in 1..n0
      BY <2>4
    <3>2. \E m \in 1..(n - 1) : ShapeFor(log[m], x, log[n])
      BY <2>4, <2>6, <3>1 DEF KnownIs, Known
    <3> QED
      BY <2>4, <3>1, <3>2
  <2>7. ASSUME row.kind = "fact", NEW x \in row.ids, x[1] \notin Unshaped
        PROVE  \E m \in 1..((n0 + 1) - 1) : ShapeFor(log'[m], x, row)
    <3>1. PICK m \in 1..n0 : ShapeFor(log[m], x, row)
      BY <2>5, <2>7
    <3>2. m \in 1..((n0 + 1) - 1) /\ log'[m] = log[m]
      BY <2>4
    <3> QED
      BY <3>1, <3>2
  <2>8. \A n \in 1..(n0 + 1) : n \in 1..n0 \/ n = n0 + 1
    BY <2>4
  <2>9. ASSUME NEW n \in 1..(n0 + 1), log'[n].kind = "fact",
               NEW x \in log'[n].ids, x[1] \notin Unshaped
        PROVE  \E m \in 1..(n - 1) : ShapeFor(log'[m], x, log'[n])
    <3>1. CASE n \in 1..n0
      BY <2>6, <2>9, <3>1
    <3>2. CASE n = n0 + 1
      BY <2>4, <2>7, <2>9, <3>2
    <3> QED
      BY <2>8, <3>1, <3>2
  <2> QED
    BY <2>4, <2>9 DEF KnownIs, Known, ShapeFor, DatedByBuild
<1> QED
  BY <1>2, <1>3, LogGrows

\* A fact the build dates lies before a reveal in the text exactly when it is dated before
\* the link.
LEMMA HiddenTill ==
  ASSUME BuildInv PROVE RevealsStayHidden
<1>1. BookIs /\ ResultsAre /\ CommitIs
  BY DEF BuildInv
<1>2. PlanOf(registry, plan) /\ DOMAIN plan = 1..Len(plan) /\ Len(plan) \in Nat
  BY <1>1, BookHas DEF PlanOf
<1>3. ASSUME NEW link \in Range(log), link.kind = "aka", NEW fact \in Range(log), DatedByBuild(fact)
      PROVE  fact.pos >= link.pos <=> fact.at >= link.at
  <2>1. link \in BuildRows /\ fact \in BuildRows
    BY <1>3 DEF BuildRows, DatedByBuild
  <2>2. batch \in SUBSET DOMAIN plan /\ RowOf(batch, link) /\ RowOf(batch, fact) /\ Accepted(batch)
    <3>1. batch # {}
      BY <2>1, RowsOfTheWorld
    <3> QED
      BY <1>1, <2>1, <3>1, RowsOfTheWorld DEF CommitIs
  <2>3. LinkRow(batch, link) /\ FactOf(batch, fact)
    BY <1>3, <2>2, ByKind DEF DatedByBuild
  <2>4. PICK i \in Personas : Opening(batch, i) # {} /\ link = LinkOf(batch, i)
    BY <2>3 DEF LinkRow
  <2> DEFINE m == Min(Opening(batch, i))
  <2>5. link.at = m /\ link.pos = i.reveal
    BY <2>4 DEF LinkOf, Put
  <2>6. m \in batch /\ plan[m].first = i.reveal
    BY <1>1, <2>2, <2>4, OpeningIs
  <2>7. PICK k \in batch : \E l \in results[k].items : fact = FactRow(l, k, Allocation(batch).handles)
    BY <2>3 DEF FactOf
  <2>8. PICK l \in results[k].items : fact = FactRow(l, k, Allocation(batch).handles)
    BY <2>7
  <2>9. fact.at = k /\ fact.pos = Absolute(plan[k], l)
    BY <1>3, <2>8, FactHas
  <2>10. fact.pos \in plan[k].first..plan[k].last /\ fact.pos \in Nat
    BY <1>1, <2>2, <2>9, LineIs
  <2> HIDE DEF m
  <2>11. m \in DOMAIN plan /\ k \in DOMAIN plan
    BY <2>2, <2>6
  <2>12. /\ plan[k].first \in Nat /\ plan[k].last \in Nat /\ plan[k].first <= plan[k].last
         /\ plan[m].first \in Nat /\ plan[m].last \in Nat /\ plan[m].first <= plan[m].last
         /\ k \in Nat /\ m \in Nat
    BY <1>1, <2>11, ChunkIs
  <2>13. (k < m => plan[k].last < plan[m].first) /\ (m < k => plan[m].last < plan[k].first)
    BY <1>2, <2>11 DEF PlanOf
  <2> DEFINE kf == plan[k].first
             kl == plan[k].last
             mf == plan[m].first
             ml == plan[m].last
             pos == fact.pos
  <2>14. /\ kf \in Nat /\ kl \in Nat /\ kf <= kl /\ mf \in Nat /\ ml \in Nat /\ mf <= ml
         /\ k \in Nat /\ m \in Nat /\ pos \in Nat /\ pos \in kf..kl
         /\ (k < m => kl < mf) /\ (m < k => ml < kf) /\ (k = m => kf = mf)
    BY <2>10, <2>12, <2>13
  <2> HIDE DEF kf, kl, mf, ml, pos
  <2>15. pos >= mf <=> k >= m
    BY <2>14
  <2>16. fact.pos = pos /\ link.pos = mf /\ fact.at = k /\ link.at = m
    BY <2>5, <2>6, <2>9 DEF pos, mf
  <2> QED
    BY <2>15, <2>16
<1> QED
  BY <1>3 DEF RevealsStayHidden

\* Whatever the text, its chunks and its personas, and wherever a commit was cut short: a
\* fact names only what has its shape on an earlier row, dated no later unless the line
\* itself dates the fact, and the link of a persona to its entry is dated after every fact
\* the build dates of the text before the reveal and no later than any after it (commit,
\* steps 0 to 3 and 6; plan).
THEOREM TimesTell == Spec => []TimesTellTheText
<1>1. ASSUME Init PROVE KnownIs
  <2>1. DOMAIN log = {}
    BY <1>1 DEF Init
  <2> QED
    BY <2>1 DEF KnownIs
<1>2. BuildInv /\ KnownIs /\ [Next]_vars => KnownIs'
  BY KnownStep
<1>3. ASSUME BuildInv, KnownIs PROVE TimesTellTheText
  <2>1. KnownWhenNamed
    BY <1>3 DEF KnownIs, Known, KnownWhenNamed, ShapeFor, Unshaped, FactsAt
  <2> QED
    BY <1>3, <2>1, HiddenTill DEF TimesTellTheText
<1> QED
  BY <1>1, <1>2, <1>3, Built, PTL DEF Spec
=============================================================================
