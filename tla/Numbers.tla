------------------------------ MODULE Numbers ------------------------------
(***************************************************************************)
(* The least and the greatest of a set of numbers, by size or by rank, and *)
(* lists laid end to end.                                                  *)
(*                                                                         *)
(* The code asks for them everywhere: the latest declaration in force, the *)
(* first guardrail that applies, the newest marker; rows behind rows.  The *)
(* numbers are what the proofs use in place of induction: a claim that     *)
(* fails somewhere fails at a least number.                                *)
(***************************************************************************)
EXTENDS Integers, Sequences, Functions, FiniteSetsExt, WellFoundedInduction, TLAPS

\* The order of the numbers is well-founded.
LEMMA NatOrder ==
  \E R : IsWellFoundedOn(R, Nat) /\ \A x, y \in Nat : x < y => <<x, y>> \in R
<1>1. IsWellFoundedOn(OpToRel(<, Nat), Nat)
  BY NatLessThanWellFounded
<1>2. \A x, y \in Nat : x < y => <<x, y>> \in OpToRel(<, Nat)
  BY DEF OpToRel
<1> QED
  BY <1>1, <1>2, Zenon

\* A set of numbers has a least one.
LEMMA LeastOf ==
  ASSUME NEW S \in SUBSET Nat, S # {}
  PROVE  \E x \in S : \A y \in S : x <= y
<1>1. PICK R : IsWellFoundedOn(R, Nat) /\ \A x, y \in Nat : x < y => <<x, y>> \in R
  BY NatOrder
<1>2. S \subseteq Nat
  OBVIOUS
<1>3. PICK x \in S : \A y \in S : ~(<<y, x>> \in R)
  <2>1. IsWellFoundedOn(R, Nat)
    BY <1>1
  <2>2. \E x \in S : \A y \in S : ~(<<y, x>> \in R)
    BY <2>1, <1>2, WFMin, Zenon
  <2> QED
    BY <2>2
<1>4. \A y \in S : ~(y < x)
  BY <1>1, <1>3
<1> QED
  BY <1>4

\* A set of numbers up to n has a greatest one.
LEMMA GreatestOf ==
  ASSUME NEW n \in Nat, NEW S \in SUBSET (1..n), S # {}
  PROVE  \E x \in S : \A y \in S : y <= x
<1> DEFINE T == {n - x : x \in S}
<1>1. T \in SUBSET Nat /\ T # {}
  <2>1. \A x \in S : n - x \in Nat
    OBVIOUS
  <2> QED
    BY <2>1
<1> HIDE DEF T
<1>2. PICK m \in T : \A y \in T : m <= y
  BY <1>1, LeastOf
<1>3. PICK x \in S : m = n - x
  BY DEF T
<1>4. \A y \in S : n - x <= n - y
  BY <1>2, <1>3 DEF T
<1> QED
  BY <1>4

\* A bounded set of numbers holds its Max.
LEMMA MaxIs ==
  ASSUME NEW n \in Nat, NEW S \in SUBSET (1..n), S # {}
  PROVE  Max(S) \in S /\ \A y \in S : y <= Max(S)
<1>1. PICK x \in S : \A y \in S : x >= y
  BY GreatestOf
<1> QED
  BY <1>1 DEF Max

\* A set of numbers holds its Min.
LEMMA MinIs ==
  ASSUME NEW S \in SUBSET Nat, S # {}
  PROVE  Min(S) \in S /\ \A y \in S : Min(S) <= y
<1>1. PICK x \in S : \A y \in S : x <= y
  BY LeastOf
<1> QED
  BY <1>1 DEF Min

\* Of the rows of a bounded set, one is as high as any, by whatever they are ranked.
LEMMA PeakOf ==
  ASSUME NEW n \in Nat, NEW S \in SUBSET (1..n), S # {}, NEW f, \A i \in S : f[i] \in Int
  PROVE  \E i \in S : \A j \in S : f[j] <= f[i]
<1> DEFINE Upto(k) == S \cap (1..k)
           Peak(k) == \E i \in Upto(k) : \A j \in Upto(k) : f[j] <= f[i]
           Bad == {k \in 0..n : Upto(k) # {} /\ ~Peak(k)}
<1>1. ASSUME Bad # {} PROVE FALSE
  <2>1. Bad \in SUBSET Nat
    OBVIOUS
  <2>2. PICK k \in Bad : \A l \in Bad : k <= l
    <3> HIDE DEF Bad
    <3> QED
      BY <1>1, <2>1, LeastOf
  <2>3. k \in 1..n /\ k - 1 \in 0..n /\ k - 1 \notin Bad
    BY <2>2
  <2>4. Upto(k) \subseteq Upto(k - 1) \union {k} /\ Upto(k - 1) \subseteq Upto(k)
    BY <2>3
  <2>5. CASE k \notin S
    <3>1. Upto(k) = Upto(k - 1)
      BY <2>4, <2>5
    <3> QED
      BY <2>2, <2>3, <3>1
  <2>6. CASE k \in S /\ Upto(k - 1) = {}
    <3>1. Upto(k) = {k}
      BY <2>3, <2>4, <2>6
    <3> QED
      BY <2>2, <3>1
  <2>7. CASE k \in S /\ Upto(k - 1) # {}
    <3>1. PICK i \in Upto(k - 1) : \A j \in Upto(k - 1) : f[j] <= f[i]
      BY <2>3, <2>7
    <3>2. i \in Upto(k) /\ k \in Upto(k)
      BY <2>3, <2>4, <2>7
    <3>3. f[i] \in Int /\ f[k] \in Int /\ \A j \in Upto(k - 1) : f[j] \in Int
      BY <2>7
    <3>4. CASE f[k] <= f[i]
      BY <2>2, <2>4, <3>1, <3>2, <3>4
    <3>5. CASE ~(f[k] <= f[i])
      <4>1. \A j \in Upto(k) : f[j] <= f[k]
        BY <2>4, <3>1, <3>3, <3>5
      <4> QED
        BY <2>2, <3>2, <4>1
    <3> QED
      BY <3>4, <3>5
  <2> QED
    BY <2>5, <2>6, <2>7
<1>2. Upto(n) = S /\ n \in 0..n
  <2>1. S \subseteq 1..n
    OBVIOUS
  <2>2. S \cap (1..n) = S
    BY <2>1
  <2>3. n \in 0..n
    OBVIOUS
  <2> QED
    BY <2>2, <2>3
<1>3. Upto(n) # {} => Peak(n)
  BY <1>1, <1>2
<1> QED
  BY <1>2, <1>3

-----------------------------------------------------------------------------
(* Lists.                                                                 *)

IsList(s) == s \in Seq(Range(s))

\* A list of whatever it holds.
LEMMA ListOf == ASSUME NEW T, NEW s \in Seq(T) PROVE IsList(s) /\ Range(s) \subseteq T
<1>1. \A i \in 1..Len(s) : s[i] \in T /\ s[i] \in Range(s)
  BY DEF Range
<1>2. Range(s) \subseteq T
  BY <1>1 DEF Range
<1>3. s = [i \in 1..Len(s) |-> s[i]] /\ Len(s) \in Nat
  OBVIOUS
<1>4. s \in [1..Len(s) -> Range(s)]
  BY <1>1, <1>3
<1> QED
  BY <1>2, <1>3, <1>4 DEF IsList

\* What is written out by number is a list.
LEMMA Numbered ==
  ASSUME NEW n \in Nat, NEW f, f = [i \in 1..n |-> f[i]]
  PROVE  IsList(f) /\ Len(f) = n /\ DOMAIN f = 1..n /\ Range(f) = {f[i] : i \in 1..n}
<1>1. f \in [1..n -> {f[i] : i \in 1..n}]
  OBVIOUS
<1>2. f \in Seq({f[i] : i \in 1..n}) /\ Len(f) = n /\ DOMAIN f = 1..n
  BY <1>1
<1>3. Range(f) = {f[i] : i \in 1..n}
  BY <1>2 DEF Range
<1> QED
  BY <1>2, <1>3 DEF IsList

\* Two lists, one after the other.
LEMMA Joined ==
  ASSUME NEW s, NEW t, IsList(s), IsList(t)
  PROVE  /\ IsList(s \o t) /\ Len(s \o t) = Len(s) + Len(t)
         /\ Len(s) \in Nat /\ Len(t) \in Nat /\ DOMAIN s = 1..Len(s) /\ DOMAIN t = 1..Len(t)
         /\ \A i \in 1..Len(s) : (s \o t)[i] = s[i]
         /\ \A i \in 1..Len(t) : (s \o t)[Len(s) + i] = t[i]
         /\ Range(s \o t) = Range(s) \union Range(t)
<1> DEFINE T == Range(s) \union Range(t)
<1>1. s \in Seq(T) /\ t \in Seq(T)
  BY DEF IsList
<1> HIDE DEF T
<1>2. s \o t \in Seq(T) /\ Len(s \o t) = Len(s) + Len(t)
  BY <1>1
<1>3. /\ Len(s) \in Nat /\ Len(t) \in Nat /\ DOMAIN s = 1..Len(s) /\ DOMAIN t = 1..Len(t)
      /\ \A i \in 1..Len(s) : (s \o t)[i] = s[i]
      /\ \A i \in 1..Len(t) : (s \o t)[Len(s) + i] = t[i]
  BY <1>1
<1>4. Range(s \o t) = Range(s) \union Range(t)
  <2>1. \A i \in 1..Len(s \o t) : (s \o t)[i] \in Range(s) \union Range(t)
    <3>1. ASSUME NEW i \in 1..Len(s \o t) PROVE (s \o t)[i] \in Range(s) \union Range(t)
      <4>1. CASE i <= Len(s)
        BY <1>3, <4>1 DEF Range
      <4>2. CASE i > Len(s)
        <5>1. i - Len(s) \in 1..Len(t) /\ i = Len(s) + (i - Len(s))
          BY <1>2, <1>3, <4>2
        <5> QED
          BY <1>3, <5>1 DEF Range
      <4> QED
        BY <1>3, <4>1, <4>2
    <3> QED
      BY <3>1
  <2>2. /\ \A i \in 1..Len(s) : i \in 1..Len(s \o t)
        /\ \A i \in 1..Len(t) : Len(s) + i \in 1..Len(s \o t)
    BY <1>2, <1>3
  <2>3. DOMAIN (s \o t) = 1..Len(s \o t)
    BY <1>2
  <2>4. Range(s \o t) \subseteq Range(s) \union Range(t)
    BY <2>1, <2>3 DEF Range
  <2>5. Range(s) \subseteq Range(s \o t)
    BY <1>3, <2>2, <2>3 DEF Range
  <2>6. Range(t) \subseteq Range(s \o t)
    BY <1>3, <2>2, <2>3 DEF Range
  <2> QED
    BY <2>4, <2>5, <2>6
<1>5. IsList(s \o t)
  BY <1>2, ListOf
<1> QED
  BY <1>2, <1>3, <1>4, <1>5

\* A list with one more at its end.
LEMMA Appended ==
  ASSUME NEW s, IsList(s), NEW x
  PROVE  /\ IsList(Append(s, x)) /\ Len(s) \in Nat /\ Len(Append(s, x)) = Len(s) + 1
         /\ \A i \in 1..Len(s) : Append(s, x)[i] = s[i]
         /\ Append(s, x)[Len(s) + 1] = x
         /\ DOMAIN s = 1..Len(s) /\ Range(Append(s, x)) = Range(s) \union {x}
<1> DEFINE T == Range(s) \union {x}
           a == Append(s, x)
<1>1. s \in Seq(T) /\ x \in T
  BY DEF IsList
<1> HIDE DEF T
<1>2. /\ a \in Seq(T) /\ Len(s) \in Nat /\ Len(a) = Len(s) + 1 /\ DOMAIN s = 1..Len(s)
      /\ DOMAIN a = 1..Len(a)
      /\ \A i \in 1..Len(s) : a[i] = s[i]
      /\ a[Len(s) + 1] = x
  BY <1>1
<1> HIDE DEF a
<1>3. \A i \in 1..Len(a) : i \in 1..Len(s) \/ i = Len(s) + 1
  BY <1>2
<1>4. \A i \in 1..Len(s) : i \in 1..Len(a)
  BY <1>2
<1>5. Len(s) + 1 \in 1..Len(a)
  BY <1>2
<1>6. Range(a) \subseteq Range(s) \union {x}
  BY <1>2, <1>3 DEF Range
<1>7. Range(s) \subseteq Range(a)
  BY <1>2, <1>4 DEF Range
<1>8. x \in Range(a)
  BY <1>2, <1>5 DEF Range
<1>9. IsList(a)
  BY <1>2, ListOf
<1> QED
  BY <1>2, <1>6, <1>7, <1>8, <1>9 DEF a

=============================================================================
