------------------------------ MODULE FoldProofs ------------------------------
(***************************************************************************)
(* For any rows, sources, verdicts and merges, and any bounds: a fold      *)
(* answers with rows of its key, and is listed as an open conflict iff it  *)
(* says it is one (ConflictsListed); later rows never move what an earlier *)
(* log position answered (PastIsFixed); and who said a thing, and when,    *)
(* weighs as much as it should (SourcesWeighRight).                        *)
(***************************************************************************)
EXTENDS Fold, Numbers, FiniteSetTheorems

-----------------------------------------------------------------------------
(* The invariant: the rows, and what moves under them.                     *)

Facts == {i \in DOMAIN log : log[i].kind = "fact"}
LogInv ==
  /\ \E S : log \in Seq(S)
  /\ \A i \in DOMAIN log : log[i].at \in Int /\ log[i].about \in 0..(i - 1)
  /\ Len(log) <= 2 * Cardinality(Facts) + edits
  /\ edits + Cardinality(Facts) <= MaxSteps
TypeInv ==
  /\ policy \in Policies /\ edits \in 0..MaxEdits
  /\ verdict \in [1..MaxRows -> {"none", "CONSTITUTIVE", "DISPOSITIONAL"}]
  /\ canon \in [Ids -> Ids] /\ \A id \in Ids : canon[canon[id]] = canon[id]
Inv == TypeInv /\ LogInv

-----------------------------------------------------------------------------
(* What the helpers of a fold return.                                      *)

\* Rows of the log up to s, some of them.
Some(S, s) == S \in SUBSET (1..s) /\ S # {}

\* What the log's rows are.
LEMMA LogFacts ==
  ASSUME Inv
  PROVE  /\ Len(log) \in Nat /\ DOMAIN log = 1..Len(log)
         /\ \A s \in 0..Len(log) : s \in Nat /\ 1..s \subseteq DOMAIN log
BY DEF Inv, LogInv

\* Of some rows, some are the latest.
LEMMA LatestIs ==
  ASSUME Inv, NEW s \in 0..Len(log), NEW S, Some(S, s)
  PROVE  /\ Some(LatestAt(S), s) /\ LatestAt(S) \subseteq S
         /\ Latest(S) \in LatestAt(S)
<1>1. \A i \in S : log[i].at \in Int
  BY LogFacts DEF Inv, LogInv, Some
<1>2. s \in Nat
  BY LogFacts
<1> DEFINE at == [i \in S |-> log[i].at]
<1>3. \A i \in S : at[i] = log[i].at
  OBVIOUS
<1> HIDE DEF at
<1>4. PICK i \in S : \A j \in S : at[j] <= at[i]
  BY <1>1, <1>2, <1>3, PeakOf DEF Some
<1>5. Some(LatestAt(S), s) /\ LatestAt(S) \subseteq S
  BY <1>3, <1>4 DEF LatestAt, Some
<1> QED
  BY <1>2, <1>5, MaxIs DEF Latest, Some

\* Of some rows, some have the best evidence.
LEMMA TopIs ==
  ASSUME Inv, NEW s \in 0..Len(log), NEW S, Some(S, s)
  PROVE  Some(TopEvidence(S), s) /\ TopEvidence(S) \subseteq S
<1>1. s \in Nat
  BY LogFacts
<1> DEFINE rank == [i \in S |-> Rank(i)]
<1>2. \A i \in S : rank[i] = Rank(i) /\ rank[i] \in Int
  BY DEF Rank
<1> HIDE DEF rank
<1>3. PICK i \in S : \A j \in S : rank[j] <= rank[i]
  BY <1>1, <1>2, PeakOf DEF Some
<1> QED
  BY <1>2, <1>3 DEF TopEvidence, Some

\* The state rows, or all: some.
LEMMA CurrentIs ==
  ASSUME NEW s, NEW S, Some(S, s)
  PROVE  Some(Current(S), s) /\ Current(S) \subseteq S
BY DEF Current, States, Some

\* The classes share the rows out.
LEMMA ClassesAre ==
  ASSUME NEW s, NEW S, Some(S, s)
  PROVE  /\ ByClass(S, s) # {} /\ \A c \in ByClass(S, s) : Some(c, s) /\ c \subseteq S
         /\ UNION ByClass(S, s) = S
<1> DEFINE class == [i \in S |-> SourceClass(i, s)]
           of(c) == {i \in S : class[i] = c}
<1>1. ByClass(S, s) = {of(c) : c \in {class[j] : j \in S}}
  BY DEF ByClass
<1>2. \A j \in S : of(class[j]) \in ByClass(S, s) /\ j \in of(class[j])
  BY <1>1
<1>3. \A c \in ByClass(S, s) : c \subseteq S /\ c # {}
  BY <1>1
<1> HIDE DEF of, class
<1> QED
  BY <1>2, <1>3 DEF Some

\* Each step of who serves.
LEMMA ServingIs ==
  ASSUME NEW W, NEW A, NEW s \in Nat
  PROVE  /\ Serving(W, A, s)[0] = 0
         /\ \A n \in 1..s :
              Serving(W, A, s)[n] =
                IF n \in W /\ (Serving(W, A, s)[n - 1] = 0 \/ <<Serving(W, A, s)[n - 1], n>> \in A)
                THEN n ELSE Serving(W, A, s)[n - 1]
<1> DEFINE Step(g, n) ==
             CASE n = 0 -> 0
               [] n > 0 /\ n \in W /\ (g[n - 1] = 0 \/ <<g[n - 1], n>> \in A) -> n
               [] OTHER -> g[n - 1]
           Is(g, m) == g = [n \in 0..m |-> Step(g, n)]
           Bad == {m \in Nat : ~\E g : Is(g, m)}
<1>1. ASSUME NEW m \in Nat \ {0}, NEW g, Is(g, m - 1) PROVE \E f : Is(f, m)
  <2> DEFINE f == [n \in 0..m |-> IF n = m THEN Step(g, m) ELSE g[n]]
  <2>1. \A n \in 0..(m - 1) : f[n] = g[n]
    OBVIOUS
  <2>2. ASSUME NEW n \in 0..m PROVE f[n] = Step(f, n)
    <3>1. n # 0 => f[n - 1] = g[n - 1]
      BY <2>1
    <3>2. CASE n = m
      BY <3>1, <3>2
    <3>3. CASE n # m
      <4>1. n \in 0..(m - 1)
        BY <3>3
      <4>2. g[n] = Step(g, n)
        BY <1>1, <4>1
      <4> QED
        BY <2>1, <3>1, <4>1, <4>2
    <3> QED
      BY <3>2, <3>3
  <2>3. f = [n \in 0..m |-> f[n]]
    OBVIOUS
  <2> HIDE DEF f, Step
  <2>4. Is(f, m)
    BY <2>2, <2>3
  <2> QED
    BY <2>4
<1>2. \E g : Is(g, 0)
  <2>1. Is([n \in 0..0 |-> 0], 0)
    OBVIOUS
  <2> QED
    BY <2>1
<1>3. ASSUME Bad # {} PROVE FALSE
  <2> HIDE DEF Is
  <2>1. PICK m \in Bad : \A l \in Bad : m <= l
    <3>1. Bad \in SUBSET Nat
      OBVIOUS
    <3> HIDE DEF Bad
    <3> QED
      BY <1>3, <3>1, LeastOf
  <2>2. m # 0 /\ m - 1 \in Nat /\ m - 1 \notin Bad
    BY <1>2, <2>1
  <2> QED
    BY <1>1, <2>1, <2>2
<1>4. \E g : Is(g, s)
  BY <1>3
<1>5. Is(Serving(W, A, s), s)
  BY <1>4 DEF Serving
<1> HIDE DEF Step
<1>6. \A n \in 0..s : Serving(W, A, s)[n] = Step(Serving(W, A, s), n)
  BY <1>5
<1>7. ASSUME NEW g
      PROVE  /\ Step(g, 0) = 0
             /\ \A n \in 1..s : Step(g, n) = IF n \in W /\ (g[n - 1] = 0 \/ <<g[n - 1], n>> \in A)
                                            THEN n ELSE g[n - 1]
  <2>1. \A n \in 1..s : n # 0 /\ n > 0
    OBVIOUS
  <2> QED
    BY <2>1 DEF Step
<1>8. 0 \in 0..s /\ \A n \in 1..s : n \in 0..s
  OBVIOUS
<1> HIDE DEF Step
<1> QED
  BY <1>6, <1>7, <1>8

\* Who serves is one of the winners, as soon as there is one.
LEMMA ServingHas ==
  ASSUME NEW s \in Nat, NEW W \in SUBSET (1..s), NEW A
  PROVE  \A n \in 0..s : /\ Serving(W, A, s)[n] \in {0} \union (W \cap (1..n))
                         /\ W \cap (1..n) # {} => Serving(W, A, s)[n] # 0
<1> DEFINE sv == Serving(W, A, s)
           Good(n) == /\ sv[n] \in {0} \union (W \cap (1..n))
                      /\ W \cap (1..n) # {} => sv[n] # 0
           Bad == {n \in 0..s : ~Good(n)}
<1>1. /\ sv[0] = 0
      /\ \A n \in 1..s : sv[n] = IF n \in W /\ (sv[n - 1] = 0 \/ <<sv[n - 1], n>> \in A)
                                 THEN n ELSE sv[n - 1]
  BY ServingIs
<1> HIDE DEF sv
<1>2. ASSUME Bad # {} PROVE FALSE
  <2>1. PICK n \in Bad : \A m \in Bad : n <= m
    <3>1. Bad \in SUBSET Nat
      OBVIOUS
    <3> HIDE DEF Bad
    <3> QED
      BY <1>2, <3>1, LeastOf
  <2>2. n \in 0..s /\ ~Good(n)
    OBVIOUS
  <2>3. n # 0
    BY <1>1, <2>2
  <2>4. n \in 1..s /\ n - 1 \in 0..s
    BY <2>2, <2>3
  <2>5. Good(n - 1)
    BY <2>1, <2>4
  <2>6. W \cap (1..n) \subseteq (W \cap (1..(n - 1))) \union {n}
    BY <2>4
  <2>7. W \cap (1..(n - 1)) \subseteq W \cap (1..n) /\ n # 0 /\ (n \in W => n \in W \cap (1..n))
    BY <2>4
  <2> QED
    BY <1>1, <2>2, <2>4, <2>5, <2>6, <2>7
<1>3. \A n \in 0..s : Good(n)
  BY <1>2
<1> QED
  BY <1>3 DEF sv

\* The winners up to a row, and which of them agree.
Alike(W, A, V, B, r) ==
  /\ W \cap (1..r) = V \cap (1..r)
  /\ A \cap ((1..r) \X (1..r)) = B \cap ((1..r) \X (1..r))

\* Who serves after a row depends on the rows up to it.
LEMMA ServingSame ==
  ASSUME NEW r \in Nat, NEW s \in Nat, r <= s,
         NEW W, NEW V \in SUBSET (1..s), NEW A, NEW B, Alike(W, A, V, B, r)
  PROVE  Serving(W, A, r)[r] = Serving(V, B, s)[r]
<1> DEFINE w == Serving(W, A, r)
           v == Serving(V, B, s)
           Bad == {n \in 0..r : w[n] # v[n]}
<1>1. /\ w[0] = 0
      /\ \A n \in 1..r : w[n] = IF n \in W /\ (w[n - 1] = 0 \/ <<w[n - 1], n>> \in A)
                                THEN n ELSE w[n - 1]
  BY ServingIs
<1>2. /\ v[0] = 0
      /\ \A n \in 1..s : v[n] = IF n \in V /\ (v[n - 1] = 0 \/ <<v[n - 1], n>> \in B)
                                THEN n ELSE v[n - 1]
  BY ServingIs
<1>3. \A n \in 0..s : v[n] \in {0} \union (V \cap (1..n))
  BY ServingHas
<1> HIDE DEF w, v
<1>4. ASSUME Bad # {} PROVE FALSE
  <2>1. PICK n \in Bad : \A m \in Bad : n <= m
    <3>1. Bad \in SUBSET Nat
      OBVIOUS
    <3> HIDE DEF Bad
    <3> QED
      BY <1>4, <3>1, LeastOf
  <2>2. n \in 1..r /\ n \in 1..s /\ n - 1 \in 0..r /\ n - 1 \in 0..s
    BY <1>1, <1>2, <2>1
  <2>3. w[n - 1] = v[n - 1]
    BY <2>1, <2>2
  <2>4. v[n - 1] = 0 \/ v[n - 1] \in 1..r
    <3>1. 1..(n - 1) \subseteq 1..r
      BY <2>2
    <3> QED
      BY <1>3, <2>2, <3>1
  <2>5. n \in W <=> n \in V
    BY <2>2 DEF Alike
  <2>6. v[n - 1] # 0 => (<<v[n - 1], n>> \in A <=> <<v[n - 1], n>> \in B)
    <3>1. v[n - 1] # 0 => <<v[n - 1], n>> \in (1..r) \X (1..r)
      BY <2>2, <2>4
    <3> QED
      BY <3>1 DEF Alike
  <2>7. w[n] = v[n]
    BY <1>1, <1>2, <2>2, <2>3, <2>5, <2>6
  <2> QED
    BY <2>1, <2>7
<1>5. r \in 0..r
  OBVIOUS
<1>6. w[r] = v[r]
  BY <1>4, <1>5
<1> QED
  BY <1>6 DEF w, v

\* After the last winner nobody takes over.
LEMMA ServingRests ==
  ASSUME NEW r \in Nat, NEW s \in Nat, r <= s, NEW W, NEW A, \A n \in (r + 1)..s : n \notin W
  PROVE  Serving(W, A, s)[s] = Serving(W, A, s)[r]
<1> DEFINE w == Serving(W, A, s)
           Bad == {n \in r..s : w[n] # w[r]}
<1>1. \A n \in 1..s : w[n] = IF n \in W /\ (w[n - 1] = 0 \/ <<w[n - 1], n>> \in A)
                             THEN n ELSE w[n - 1]
  BY ServingIs
<1> HIDE DEF w
<1>2. ASSUME Bad # {} PROVE FALSE
  <2>1. PICK n \in Bad : \A m \in Bad : n <= m
    <3>1. Bad \in SUBSET Nat
      OBVIOUS
    <3> HIDE DEF Bad
    <3> QED
      BY <1>2, <3>1, LeastOf
  <2>2. n # r /\ n \in (r + 1)..s /\ n \in 1..s /\ n - 1 \in r..s /\ n - 1 < n
    BY <2>1
  <2>3. n - 1 \notin Bad
    BY <2>1, <2>2
  <2> QED
    BY <1>1, <2>1, <2>2, <2>3
<1>3. s \in r..s
  OBVIOUS
<1>4. w[s] = w[r]
  BY <1>2, <1>3
<1> QED
  BY <1>4 DEF w

-----------------------------------------------------------------------------
(* What a fold answers is of its rows.                                     *)

\* An answer out of S: its winner is a party to the dispute, if there is one, and
\* a dispute is between two rows at least.
Lands(fold, S) ==
  /\ fold.winner \in {0} \union S
  /\ fold.parties # {} => fold.winner \in fold.parties /\ \E i, j \in fold.parties : i # j
  /\ fold.parties \union fold.agreed \union fold.members \subseteq S

\* The parts of the plain answers.
LEMMA ResultIs ==
  ASSUME NEW i, NEW S
  PROVE  /\ Serve(i).winner = i /\ Serve(i).parties = {}
         /\ Serve(i).agreed = {} /\ Serve(i).members = {}
         /\ Dispute(i, S).winner = i /\ Dispute(i, S).parties = S
         /\ Dispute(i, S).agreed = {} /\ Dispute(i, S).members = {}
         /\ Nothing.winner = 0 /\ Nothing.parties = {}
         /\ Nothing.agreed = {} /\ Nothing.members = {}
BY DEF Serve, Dispute, Nothing

\* One row is served, or all of them dispute.
LEMMA PlainLands ==
  ASSUME NEW S, NEW i \in S
  PROVE  /\ Lands(Serve(i), S) /\ Lands(Nothing, S)
         /\ (\E j, k \in S : j # k) => Lands(Dispute(i, S), S)
BY ResultIs DEF Lands

\* A set holds what a smaller one does.
LEMMA LandsIn ==
  ASSUME NEW S, NEW T, S \subseteq T, NEW fold, Lands(fold, S)
  PROVE  Lands(fold, T)
BY DEF Lands

\* What is structural.
LEMMA StructuralLands ==
  ASSUME NEW s, NEW S, Some(S, s)
  PROVE  Lands(Structural(S), S)
<1>1. Min(S) \in S
  BY MinIs DEF Some
<1>2. Contradict(S) => \E j, k \in S : j # k
  BY DEF Contradict
<1> QED
  BY <1>1, <1>2, PlainLands DEF Structural

\* A ledger's total comes with the row it was last changed by.
LEMMA AccruedLands ==
  ASSUME Inv, NEW s \in 0..Len(log), NEW S \in SUBSET (1..s)
  PROVE  Lands(Accrued(S), S) /\ Accrued(S).parties = {}
<1> DEFINE absolutes == {i \in S : log[i].type = "literal"}
           since == {i \in S : log[i].type = "delta"
                               /\ (absolutes = {} \/ Older(Latest(absolutes), i))}
           rows == IF since # {} THEN since ELSE absolutes
           base == IF absolutes = {} THEN 0 ELSE log[Latest(absolutes)].value
           total == base + Total([i \in since |-> log[i].value])
<1>1. absolutes \subseteq S /\ since \subseteq S
  OBVIOUS
<1>2. Accrued(S) = IF absolutes \union since = {} THEN Nothing
                   ELSE [Nothing EXCEPT !.winner = Latest(rows), !.quantity = total]
  BY DEF Accrued
<1> HIDE DEF total, absolutes, since
<1>3. absolutes \union since # {} => Some(rows, s) /\ rows \subseteq S
  BY <1>1 DEF Some
<1> HIDE DEF rows
<1>4. absolutes \union since # {} => Latest(rows) \in S
  BY <1>3, LatestIs
<1>5. LET r == [Nothing EXCEPT !.winner = Latest(rows), !.quantity = total]
      IN r.winner = Latest(rows) /\ r.parties = {} /\ r.agreed = {} /\ r.members = {}
  BY DEF Nothing
<1>6. CASE absolutes \union since = {}
  BY <1>2, <1>6, ResultIs DEF Lands
<1>7. CASE absolutes \union since # {}
  BY <1>2, <1>4, <1>5, <1>7 DEF Lands
<1> QED
  BY <1>6, <1>7

\* The members of a set are rows of it.
LEMMA MembersLands ==
  ASSUME Inv, NEW s \in 0..Len(log), NEW S, Some(S, s)
  PROVE  Lands(Members(S), S) /\ Members(S).parties = {}
<1> DEFINE alike(i) == {j \in S : ValueKey(j) = ValueKey(i)}
           current == {Latest(alike(i)) : i \in S}
<1>1. \A i \in S : Some(alike(i), s) /\ alike(i) \subseteq S
  BY DEF Some
<1>2. Members(S) = [Serve(Latest(current)) EXCEPT !.members = current]
  BY DEF Members
<1> HIDE DEF alike
<1>3. Some(current, s) /\ current \subseteq S
  <2>1. \A i \in S : Latest(alike(i)) \in S
    BY <1>1, LatestIs
  <2> QED
    BY <2>1 DEF Some
<1> HIDE DEF current
<1>4. Latest(current) \in S
  BY <1>3, LatestIs
<1>5. /\ Members(S).winner = Latest(current) /\ Members(S).parties = {}
      /\ Members(S).agreed = {} /\ Members(S).members = current
  BY <1>2 DEF Serve, Nothing
<1> QED
  BY <1>3, <1>4, <1>5 DEF Lands

\* The rows that say where a thing is now.
Standing(S) == Current(LatestAt(S))

\* Whoever speaks, the latest rows of the classes at the latest time are the latest
\* rows.
LEMMA MovedIs ==
  ASSUME Inv, NEW s \in 0..Len(log), NEW S, Some(S, s)
  PROVE  /\ Some(Standing(S), s) /\ Standing(S) \subseteq LatestAt(S)
         /\ Moved(S, s) = IF Contradict(States(Standing(S))) THEN Dispute(Min(Standing(S)), Standing(S))
                          ELSE Serve(Max(Standing(S)))
<1>1. /\ \A c \in ByClass(S, s) : Some(c, s) /\ c \subseteq S
      /\ UNION ByClass(S, s) = S
  BY ClassesAre
<1> DEFINE spoken == UNION {LatestAt(c) : c \in ByClass(S, s)}
<1>2. LatestAt(S) \subseteq spoken /\ spoken \subseteq S
  <2>1. ASSUME NEW i \in LatestAt(S) PROVE i \in spoken
    <3>1. PICK c \in ByClass(S, s) : i \in c
      BY <1>1 DEF LatestAt
    <3>2. i \in LatestAt(c)
      BY <1>1, <3>1 DEF LatestAt
    <3> QED
      BY <3>2
  <2> QED
    BY <1>1, <2>1 DEF LatestAt
<1> HIDE DEF spoken
<1>3. LatestAt(spoken) = LatestAt(S)
  <2>1. Some(LatestAt(S), s)
    BY LatestIs
  <2>2. PICK top \in LatestAt(S) : TRUE
    BY <2>1 DEF Some
  <2>3. \A i \in S : log[i].at \in Int
    BY LogFacts DEF Inv, LogInv, Some
  <2>4. LatestAt(S) \subseteq LatestAt(spoken)
    BY <1>2 DEF LatestAt
  <2>5. ASSUME NEW i \in LatestAt(spoken) PROVE i \in LatestAt(S)
    <3>1. i \in S /\ top \in S /\ log[top].at <= log[i].at /\ \A j \in S : log[j].at <= log[top].at
      BY <1>2, <2>2 DEF LatestAt
    <3>2. \A j \in S : log[j].at <= log[i].at
      BY <2>3, <3>1
    <3> QED
      BY <3>1, <3>2 DEF LatestAt
  <2> QED
    BY <2>4, <2>5
<1>4. Some(LatestAt(S), s)
  BY LatestIs
<1>5. Some(Standing(S), s) /\ Standing(S) \subseteq LatestAt(S)
  BY <1>4, CurrentIs DEF Standing
<1>6. Moved(S, s) = IF Contradict(States(Standing(S))) THEN Dispute(Min(Standing(S)), Standing(S))
                    ELSE Serve(Max(Standing(S)))
  BY <1>3 DEF Moved, Standing, spoken
<1> QED
  BY <1>5, <1>6

\* So a move is served from the latest rows.
LEMMA MovedLands ==
  ASSUME Inv, NEW s \in 0..Len(log), NEW S, Some(S, s)
  PROVE  Lands(Moved(S, s), S)
<1>1. /\ Some(Standing(S), s) /\ Standing(S) \subseteq S
      /\ Moved(S, s) = IF Contradict(States(Standing(S))) THEN Dispute(Min(Standing(S)), Standing(S))
                       ELSE Serve(Max(Standing(S)))
  BY MovedIs, LatestIs
<1>2. Min(Standing(S)) \in Standing(S) /\ Max(Standing(S)) \in Standing(S)
  <2>1. s \in Nat /\ Standing(S) \in SUBSET (1..s) /\ Standing(S) # {}
    BY <1>1, LogFacts DEF Some
  <2>2. Standing(S) \in SUBSET Nat
    BY <2>1
  <2> QED
    BY <2>1, <2>2, MinIs, MaxIs
<1>3. Contradict(States(Standing(S))) => \E j, k \in Standing(S) : j # k
  BY DEF Contradict, States
<1>4. Lands(Moved(S, s), Standing(S))
  BY <1>1, <1>2, <1>3, PlainLands
<1> QED
  BY <1>1, <1>4, LandsIn

\* The winner of a class is one of its latest rows.
WinnerOf(c) == Max(Current(LatestAt(c)))

LEMMA WinnerIs ==
  ASSUME Inv, NEW s \in 0..Len(log), NEW S, Some(S, s)
  PROVE  WinnerOf(S) \in Current(LatestAt(S)) /\ WinnerOf(S) \in S
<1>1. Some(LatestAt(S), s) /\ LatestAt(S) \subseteq S
  BY LatestIs
<1>2. Some(Current(LatestAt(S)), s) /\ Current(LatestAt(S)) \subseteq LatestAt(S)
  BY <1>1, CurrentIs
<1>3. s \in Nat
  BY LogFacts
<1> QED
  BY <1>1, <1>2, <1>3, MaxIs DEF WinnerOf, Some

\* The classes that contradict themselves, the first of them, and what it gives.
LEMMA TornLands ==
  ASSUME NEW s, NEW classes, classes # {}, \A c \in classes : Some(c, s)
  PROVE  FirstSeen(classes) \in classes
<1> DEFINE mins == {Min(c) : c \in classes}
<1>1. mins \in SUBSET Nat /\ mins # {}
  <2>1. ASSUME NEW c \in classes PROVE Min(c) \in Nat
    <3>1. c \in SUBSET Nat /\ c # {}
      BY DEF Some
    <3> QED
      BY <3>1, MinIs
  <2> QED
    BY <2>1
<1>2. PICK m \in mins : \A n \in mins : m <= n
  <2> HIDE DEF mins
  <2> QED
    BY <1>1, LeastOf
<1>3. PICK c \in classes : \A d \in classes : Min(c) <= Min(d)
  BY <1>2
<1> QED
  BY <1>3, Zenon DEF FirstSeen

\* Who is served among the winners, by the order they arrived in.
LEMMA ServedLands ==
  ASSUME NEW s \in Nat, NEW W, Some(W, s)
  PROVE  /\ Lands(ServedBy(W, s), W) /\ ServedBy(W, s).winner # 0
<1> DEFINE agreeing == {ij \in W \X W : Agrees(ij[1], ij[2])}
           served == Serving(W, agreeing, s)[s]
           heard == {n \in W : <<Serving(W, agreeing, s)[n - 1], n>> \in agreeing}
           r == ServedBy(W, s)
<1>1. r = [Nothing EXCEPT !.winner = served, !.parties = InDispute(served, W), !.agreed = heard]
  BY DEF ServedBy
<1>2. heard \subseteq W
  OBVIOUS
<1>3. served \in W /\ served # 0
  <2>1. W \in SUBSET (1..s) /\ s \in 0..s
    BY DEF Some
  <2>2. W \cap (1..s) # {} /\ 0 \notin W
    <3>1. W \subseteq 1..s /\ W # {}
      BY DEF Some
    <3>2. W \cap (1..s) = W
      BY <3>1
    <3> QED
      BY <3>1, <3>2
  <2> HIDE DEF agreeing
  <2> QED
    BY <2>1, <2>2, ServingHas
<1> HIDE DEF served, heard, agreeing, r
<1>4. /\ r.winner = served /\ r.parties = InDispute(served, W)
      /\ r.agreed = heard /\ r.members = {}
  BY <1>1 DEF Nothing
<1>5. InDispute(served, W) # {} => /\ served \in InDispute(served, W)
                                   /\ \E i, j \in InDispute(served, W) : i # j
  BY DEF InDispute
<1>6. InDispute(served, W) \subseteq W
  BY <1>3 DEF InDispute
<1> QED
  BY <1>2, <1>3, <1>4, <1>5, <1>6 DEF Lands, r

\* The classes weighed.
LEMMA WeighedLands ==
  ASSUME Inv, NEW s \in 0..Len(log), NEW S, Some(S, s)
  PROVE  Lands(Weighed(S, s), S) /\ Weighed(S, s).winner # 0
<1> DEFINE classes == ByClass(S, s)
           winners == {WinnerOf(c) : c \in classes}
<1>1. classes # {} /\ \A c \in classes : Some(c, s) /\ c \subseteq S
  BY ClassesAre
<1>2. Weighed(S, s) = IF TornIn(classes) # {} THEN TornBy(FirstSeen(TornIn(classes)))
                      ELSE ServedBy(winners, s)
  BY DEF Weighed, WeighedBy, WinnerOf
<1> HIDE DEF classes
<1>3. CASE TornIn(classes) # {}
  <2> DEFINE c == FirstSeen(TornIn(classes))
             torn == States(LatestAt(c))
  <2>1. c \in TornIn(classes)
    BY <1>1, <1>3, TornLands DEF TornIn
  <2>2. Some(c, s) /\ c \subseteq S /\ Contradict(torn)
    BY <1>1, <2>1 DEF TornIn
  <2>3. torn \subseteq S /\ Some(torn, s)
    BY <2>2, LatestIs DEF States, Contradict, Some
  <2>4. Min(torn) \in torn /\ Min(torn) # 0
    <3>1. torn \in SUBSET Nat /\ torn # {} /\ 0 \notin torn
      BY <2>3 DEF Some
    <3> HIDE DEF torn
    <3> QED
      BY <3>1, MinIs
  <2>5. \E j, k \in torn : j # k
    BY <2>2 DEF Contradict
  <2> HIDE DEF torn
  <2>6. Lands(Dispute(Min(torn), torn), S)
    BY <2>3, <2>4, <2>5, PlainLands, LandsIn
  <2>7. Weighed(S, s) = Dispute(Min(torn), torn)
    BY <1>2, <1>3 DEF TornBy, torn
  <2> QED
    BY <2>4, <2>6, <2>7, ResultIs
<1>4. CASE TornIn(classes) = {}
  <2>1. winners \subseteq S
    BY <1>1, WinnerIs
  <2>2. winners # {}
    BY <1>1
  <2> HIDE DEF winners
  <2>3. Some(winners, s) /\ s \in Nat
    BY <2>1, <2>2, LogFacts DEF Some
  <2> QED
    BY <1>2, <1>4, <2>1, <2>3, ServedLands, LandsIn
<1> QED
  BY <1>3, <1>4

\* What stands of a key is of its rows.
LEMMA ConcreteIs ==
  ASSUME NEW s, NEW S
  PROVE  Concrete(S, s) \subseteq S
BY DEF Concrete

\* The rows of a key are rows of the log.
LEMMA KeyRowsIn ==
  ASSUME NEW s, NEW x
  PROVE  KeyRows(x, s) \in SUBSET (1..s)
BY DEF KeyRows

\* What stands of a key, and what of it is structure.
Live(x, s) == Concrete(KeyRows(x, s), s)
Fixed(x, s) == {i \in Live(x, s) : Durability(i) = "CONSTITUTIVE"}

\* A fold, by declaration.
LEMMA FoldIs ==
  ASSUME Inv, NEW s \in 0..Len(log), NEW x
  PROVE  /\ policy \in {"by_class", "containment", "last_write", "set_valued", "accrue"}
         /\ policy = "accrue" => FoldKey(x, s) = Accrued(KeyRows(x, s))
         /\ policy # "accrue" /\ Live(x, s) = {} => FoldKey(x, s) = Nothing
         /\ policy = "set_valued" /\ Live(x, s) # {} => FoldKey(x, s) = Members(Live(x, s))
         /\ policy = "last_write" /\ Live(x, s) # {} =>
              FoldKey(x, s) = Serve(Latest(TopEvidence(Live(x, s))))
         /\ policy \in {"by_class", "containment"} /\ Fixed(x, s) # {} =>
              FoldKey(x, s) = Structural(TopEvidence(Fixed(x, s)))
         /\ policy = "containment" /\ Live(x, s) # {} /\ Fixed(x, s) = {} =>
              FoldKey(x, s) = Moved(TopEvidence(Live(x, s)), s)
         /\ policy = "by_class" /\ Live(x, s) # {} /\ Fixed(x, s) = {} =>
              FoldKey(x, s) = Weighed(TopEvidence(Live(x, s)), s)
<1> DEFINE rows == KeyRows(x, s)
           live == Concrete(rows, s)
           fixed == {i \in live : Durability(i) = "CONSTITUTIVE"}
<1>1. rows = KeyRows(x, s) /\ live = Live(x, s) /\ fixed = Fixed(x, s)
  BY DEF Live, Fixed
<1> HIDE DEF rows
<1>2. FoldKey(x, s) =
        CASE policy = "accrue" -> Accrued(rows)
          [] policy # "accrue" /\ live = {} -> Nothing
          [] policy = "set_valued" /\ live # {} -> Members(live)
          [] policy = "last_write" /\ live # {} -> Serve(Latest(TopEvidence(live)))
          [] policy \in {"by_class", "containment"} /\ fixed # {} -> Structural(TopEvidence(fixed))
          [] policy = "containment" /\ live # {} /\ fixed = {} -> Moved(TopEvidence(live), s)
          [] policy = "by_class" /\ live # {} /\ fixed = {} -> Weighed(TopEvidence(live), s)
  BY DEF FoldKey, rows
<1>3. fixed # {} => live # {}
  OBVIOUS
<1>4. policy \in {"by_class", "containment", "last_write", "set_valued", "accrue"}
  BY FoldConstants DEF Inv, TypeInv
<1> HIDE DEF live, fixed
<1> QED
  BY <1>1, <1>2, <1>3, <1>4

\* The best evidence of what stands, and of what is structure.
LEMMA BestIs ==
  ASSUME Inv, NEW s \in 0..Len(log), NEW x
  PROVE  /\ KeyRows(x, s) \in SUBSET (1..s)
         /\ Live(x, s) \subseteq KeyRows(x, s) /\ Fixed(x, s) \subseteq Live(x, s)
         /\ \A S : S \subseteq KeyRows(x, s) /\ S # {} =>
              /\ Some(S, s) /\ Some(TopEvidence(S), s)
              /\ TopEvidence(S) \subseteq S
<1>1. KeyRows(x, s) \in SUBSET (1..s)
  BY KeyRowsIn
<1>2. Live(x, s) \subseteq KeyRows(x, s) /\ Fixed(x, s) \subseteq Live(x, s)
  BY ConcreteIs DEF Live, Fixed
<1>3. ASSUME NEW S, S \subseteq KeyRows(x, s), S # {}
      PROVE  Some(S, s) /\ Some(TopEvidence(S), s) /\ TopEvidence(S) \subseteq S
  <2>1. Some(S, s)
    BY <1>1, <1>3 DEF Some
  <2> QED
    BY <2>1, TopIs
<1> QED
  BY <1>1, <1>2, <1>3

\* A fold answers with rows of its key, and a set is never in dispute.
LEMMA FoldLands ==
  ASSUME Inv, NEW s \in 0..Len(log), NEW x
  PROVE  /\ Lands(FoldKey(x, s), KeyRows(x, s))
         /\ policy = "set_valued" => FoldKey(x, s).parties = {}
<1>1. /\ KeyRows(x, s) \in SUBSET (1..s)
      /\ Live(x, s) \subseteq KeyRows(x, s) /\ Fixed(x, s) \subseteq Live(x, s)
      /\ \A S : S \subseteq KeyRows(x, s) /\ S # {} =>
           /\ Some(S, s) /\ Some(TopEvidence(S), s)
           /\ TopEvidence(S) \subseteq S
  BY BestIs
<1>2. CASE policy = "accrue"
  BY <1>1, <1>2, AccruedLands, FoldIs
<1>3. CASE policy # "accrue" /\ Live(x, s) = {} /\ Fixed(x, s) = {}
  BY <1>3, FoldIs, ResultIs DEF Lands
<1>4. CASE policy = "set_valued" /\ Live(x, s) # {}
  BY <1>1, <1>4, FoldIs, MembersLands, LandsIn
<1>5. CASE policy = "last_write" /\ Live(x, s) # {}
  <2>1. Latest(TopEvidence(Live(x, s))) \in KeyRows(x, s)
    BY <1>1, <1>5, LatestIs
  <2> QED
    BY <1>5, <2>1, FoldIs, PlainLands
<1>6. CASE policy \in {"by_class", "containment"} /\ Fixed(x, s) # {}
  <2>1. /\ Some(TopEvidence(Fixed(x, s)), s)
        /\ TopEvidence(Fixed(x, s)) \subseteq KeyRows(x, s)
    BY <1>1, <1>6
  <2> QED
    BY <1>6, <2>1, FoldIs, StructuralLands, LandsIn
<1>7. ASSUME Live(x, s) # {}
      PROVE  /\ Some(TopEvidence(Live(x, s)), s)
             /\ TopEvidence(Live(x, s)) \subseteq KeyRows(x, s)
  BY <1>1, <1>7
<1>8. CASE policy = "containment" /\ Live(x, s) # {} /\ Fixed(x, s) = {}
  BY <1>7, <1>8, FoldIs, MovedLands, LandsIn
<1>9. CASE policy = "by_class" /\ Live(x, s) # {} /\ Fixed(x, s) = {}
  BY <1>7, <1>9, FoldIs, WeighedLands, LandsIn
<1> QED
  BY <1>1, <1>2, <1>3, <1>4, <1>5, <1>6, <1>8, <1>9, FoldIs

-----------------------------------------------------------------------------
(* The invariant holds.                                                    *)

\* The facts of a log are finitely many.
LEMMA FactsAre ==
  ASSUME Inv
  PROVE  /\ IsFiniteSet(Facts) /\ Cardinality(Facts) \in Nat /\ Facts \subseteq 1..Len(log)
         /\ edits \in Nat /\ Len(log) <= MaxRows
<1>1. Len(log) \in Nat /\ Facts \subseteq 1..Len(log)
  BY LogFacts DEF Facts
<1>2. IsFiniteSet(1..Len(log))
  BY <1>1, FS_Interval
<1>3. IsFiniteSet(Facts) /\ Cardinality(Facts) \in Nat
  BY <1>1, <1>2, FS_Subset, FS_CardinalityType
<1>4. edits \in Nat /\ MaxSteps \in Nat
  BY FoldConstants DEF Inv, TypeInv
<1>5. Len(log) <= 2 * Cardinality(Facts) + edits /\ edits + Cardinality(Facts) <= MaxSteps
  BY DEF Inv, LogInv
<1> QED
  BY <1>1, <1>3, <1>4, <1>5 DEF MaxRows

\* The model's first state.
LEMMA InitHolds == Init => Inv
<1> SUFFICES ASSUME Init PROVE Inv
  OBVIOUS
<1>1. TypeInv
  BY FoldConstants DEF Init, TypeInv
<1>2. log = <<>> /\ edits = 0 /\ Facts = {}
  BY DEF Init, Facts
<1>3. \E S : log \in Seq(S)
  <2>1. log \in Seq({})
    BY <1>2
  <2> QED
    BY <2>1
<1>4. Cardinality(Facts) = 0
  BY <1>2, FS_EmptySet
<1>5. LogInv
  BY <1>2, <1>3, <1>4, FoldConstants DEF LogInv
<1> QED
  BY <1>1, <1>5 DEF Inv

\* A log to which rows are appended.
LEMMA LogExtends ==
  ASSUME Inv, NEW T, NEW rows \in Seq(T), log' = log \o rows
  PROVE  /\ \E S : log' \in Seq(S)
         /\ Len(log') = Len(log) + Len(rows) /\ DOMAIN log' = 1..(Len(log) + Len(rows))
         /\ \A i \in 1..Len(log) : log'[i] = log[i]
         /\ \A k \in 1..Len(rows) : log'[Len(log) + k] = rows[k]
<1>1. PICK S : log \in Seq(S)
  BY DEF Inv, LogInv
<1> DEFINE U == S \union T
<1>2. log \in Seq(U) /\ rows \in Seq(U)
  <2>1. log \in Seq(U)
    BY <1>1, SMT
  <2>2. rows \in Seq(U)
    BY SMT
  <2> QED
    BY <2>1, <2>2
<1> HIDE DEF U
<1>3. log' \in Seq(U)
  BY <1>2
<1> QED
  BY <1>2, <1>3

\* One row, about an earlier one or none, that is no fact.
LEMMA MetaKeeps ==
  ASSUME Inv, NEW row, log' = log \o <<row>>, edits' = edits + 1,
         edits < MaxEdits, Steps < MaxSteps, UNCHANGED <<policy, verdict, canon>>,
         row.at \in Int, row.about \in 0..Len(log), row.kind # "fact"
  PROVE  Inv'
<1>1. /\ \E S : log' \in Seq(S)
      /\ Len(log') = Len(log) + 1 /\ DOMAIN log' = 1..(Len(log) + 1)
      /\ \A i \in 1..Len(log) : log'[i] = log[i]
      /\ log'[Len(log) + 1] = row
  <2> DEFINE rows == <<row>>
  <2>1. rows \in Seq({row}) /\ Len(rows) = 1 /\ rows[1] = row
    OBVIOUS
  <2>2. log' = log \o rows
    OBVIOUS
  <2> HIDE DEF rows
  <2>3. /\ \E S : log' \in Seq(S)
        /\ Len(log') = Len(log) + Len(rows) /\ DOMAIN log' = 1..(Len(log) + Len(rows))
        /\ \A i \in 1..Len(log) : log'[i] = log[i]
        /\ \A k \in 1..Len(rows) : log'[Len(log) + k] = rows[k]
    BY <2>1, <2>2, LogExtends
  <2> QED
    BY <2>1, <2>3
<1>2. Len(log) \in Nat /\ DOMAIN log = 1..Len(log)
  BY LogFacts
<1>3. Facts' = Facts
  BY <1>1, <1>2 DEF Facts
<1>4. \A i \in DOMAIN log' : log'[i].at \in Int /\ log'[i].about \in 0..(i - 1)
  BY <1>1, <1>2 DEF Inv, LogInv
<1>5. Steps = edits + Cardinality(Facts)
  BY DEF Steps, Facts
<1>6. edits \in Nat /\ Cardinality(Facts) \in Nat /\ MaxSteps \in Nat /\ MaxEdits \in Nat
  BY FactsAre, FoldConstants
<1>7. Len(log) <= 2 * Cardinality(Facts) + edits
  BY DEF Inv, LogInv
<1>8. LogInv'
  BY <1>1, <1>2, <1>3, <1>4, <1>5, <1>6, <1>7 DEF LogInv
<1>9. TypeInv'
  BY <1>6 DEF Inv, TypeInv
<1> QED
  BY <1>8, <1>9 DEF Inv

\* What an item of the host's puts in the log: a fact, and its source if it has one.
LEMMA ItemIs ==
  ASSUME Inv, NEW said \in Offers[policy]
  PROVE  /\ \E T : ItemRows(said) \in Seq(T)
         /\ Len(ItemRows(said)) \in {1, 2}
         /\ ItemRows(said)[1].kind = "fact" /\ ItemRows(said)[1].about = 0
         /\ ItemRows(said)[1].at \in Int
         /\ Len(ItemRows(said)) = 2 =>
              /\ ItemRows(said)[2].kind = "source" /\ ItemRows(said)[2].about = Len(log) + 1
              /\ ItemRows(said)[2].at \in Int
<1>1. policy \in Policies
  BY DEF Inv, TypeInv
<1>2. said.at \in Int
  BY <1>1, FoldConstants
<1>3. Fact(said).kind = "fact" /\ Fact(said).about = 0 /\ Fact(said).at \in Int
  BY <1>2 DEF Fact
<1> DEFINE fact == Fact(said)
           meta == Meta("source", Len(log) + 1, CHOOSE v \in said.by : TRUE)
<1>4. meta.kind = "source" /\ meta.about = Len(log) + 1 /\ meta.at \in Int
  BY DEF Meta, NoTime
<1>5. ItemRows(said) = IF said.by = {} THEN <<fact>> ELSE <<fact, meta>>
  BY DEF ItemRows
<1> HIDE DEF meta
<1>6. fact.kind = "fact" /\ fact.about = 0 /\ fact.at \in Int
  BY <1>3
<1> HIDE DEF fact
<1>7. <<fact>> \in Seq({fact}) /\ <<fact, meta>> \in Seq({fact, meta})
  OBVIOUS
<1>8. \E T : ItemRows(said) \in Seq(T)
  BY <1>5, <1>7
<1>9. CASE said.by = {}
  BY <1>5, <1>6, <1>8, <1>9
<1>10. CASE said.by # {}
  BY <1>4, <1>5, <1>6, <1>8, <1>10
<1> QED
  BY <1>9, <1>10

\* An item keeps the invariant.
LEMMA SayKeeps ==
  ASSUME Inv, NEW said \in Offers[policy], Say(said)
  PROVE  Inv'
<1> DEFINE rows == ItemRows(said)
<1>1. /\ log' = log \o rows /\ UNCHANGED <<policy, verdict, canon, edits>>
      /\ Steps < MaxSteps
  BY DEF Say, Append1
<1>2. /\ \E T : rows \in Seq(T)
      /\ Len(rows) \in {1, 2}
      /\ rows[1].kind = "fact" /\ rows[1].about = 0 /\ rows[1].at \in Int
      /\ Len(rows) = 2 => rows[2].kind = "source" /\ rows[2].about = Len(log) + 1 /\ rows[2].at \in Int
  BY ItemIs
<1> HIDE DEF rows
<1>3. /\ \E S : log' \in Seq(S)
      /\ Len(log') = Len(log) + Len(rows) /\ DOMAIN log' = 1..(Len(log) + Len(rows))
      /\ \A i \in 1..Len(log) : log'[i] = log[i]
      /\ \A k \in 1..Len(rows) : log'[Len(log) + k] = rows[k]
  BY <1>1, <1>2, LogExtends
<1>4. Len(log) \in Nat /\ DOMAIN log = 1..Len(log)
  BY LogFacts
<1>5. \A i \in DOMAIN log' : i \in 1..Len(log) \/ i = Len(log) + 1 \/ (Len(rows) = 2 /\ i = Len(log) + 2)
  BY <1>2, <1>3, <1>4
<1>6. log'[Len(log) + 1] = rows[1] /\ (Len(rows) = 2 => log'[Len(log) + 2] = rows[2])
  BY <1>2, <1>3
<1>7. Facts' = Facts \union {Len(log) + 1} /\ Len(log) + 1 \notin Facts
  <2>1. \A i \in DOMAIN log' : log'[i].kind = "fact" <=> i \in Facts \union {Len(log) + 1}
    BY <1>2, <1>3, <1>4, <1>5, <1>6 DEF Facts
  <2>2. Facts \union {Len(log) + 1} \subseteq DOMAIN log'
    BY <1>2, <1>3, <1>4 DEF Facts
  <2> QED
    BY <1>4, <2>1, <2>2 DEF Facts
<1>8. Cardinality(Facts') = Cardinality(Facts) + 1
  BY <1>7, FactsAre, FS_AddElement
<1>9. \A i \in DOMAIN log' : log'[i].at \in Int /\ log'[i].about \in 0..(i - 1)
  BY <1>2, <1>3, <1>4, <1>5, <1>6 DEF Inv, LogInv
<1>10. Steps = edits + Cardinality(Facts)
  BY DEF Steps, Facts
<1>11. edits \in Nat /\ Cardinality(Facts) \in Nat /\ MaxSteps \in Nat
  BY FactsAre, FoldConstants
<1>12. Len(log) <= 2 * Cardinality(Facts) + edits
  BY DEF Inv, LogInv
<1>13. LogInv'
  <2>1. Len(log') <= 2 * Cardinality(Facts') + edits'
    <3>1. Len(log') = Len(log) + Len(rows) /\ Len(rows) \in {1, 2} /\ Len(log) \in Nat
      BY <1>2, <1>3, <1>4
    <3>2. edits' = edits /\ Cardinality(Facts') = Cardinality(Facts) + 1
      BY <1>1, <1>8
    <3>3. \A l, m, n, c, e \in Nat :
            n \in {1, 2} /\ l <= 2 * c + e /\ m = l + n => m <= 2 * (c + 1) + e
      OBVIOUS
    <3>4. Len(log') \in Nat /\ Len(rows) \in Nat
      BY <3>1
    <3>5. Len(log') <= 2 * (Cardinality(Facts) + 1) + edits
      BY <1>11, <1>12, <3>1, <3>3, <3>4
    <3> QED
      BY <3>2, <3>5
  <2>2. edits' + Cardinality(Facts') <= MaxSteps
    BY <1>1, <1>8, <1>10, <1>11
  <2> QED
    BY <1>3, <1>9, <2>1, <2>2 DEF LogInv
<1>14. TypeInv'
  BY <1>1 DEF Inv, TypeInv
<1> QED
  BY <1>13, <1>14 DEF Inv

\* A verdict or a merge moves no row.
LEMMA RereadKeeps ==
  ASSUME Inv, Edit, Reread, TypeInv'
  PROVE  Inv'
<1>1. log' = log /\ edits' = edits + 1
  BY DEF Edit, Reread
<1>2. Facts' = Facts
  BY <1>1 DEF Facts
<1>3. Steps = edits + Cardinality(Facts) /\ Steps < MaxSteps
  BY DEF Steps, Facts, Edit
<1>4. edits \in Nat /\ Cardinality(Facts) \in Nat /\ MaxSteps \in Nat /\ Len(log) \in Nat
  BY FactsAre, LogFacts, FoldConstants
<1>5. LogInv'
  BY <1>1, <1>2, <1>3, <1>4 DEF Inv, LogInv
<1> QED
  BY <1>5 DEF Inv

\* No step breaks the invariant.
LEMMA NextKeeps == Inv /\ [Next]_vars => Inv'
<1> SUFFICES ASSUME Inv, [Next]_vars PROVE Inv'
  OBVIOUS
<1>1. Len(log) \in Nat /\ DOMAIN log = 1..Len(log) /\ edits \in Nat /\ MaxEdits \in Nat
  BY LogFacts, FactsAre, FoldConstants
<1>2. ASSUME NEW i \in DOMAIN log, NEW v \in Voices, Cite(i, v) PROVE Inv'
  <2>1. /\ Meta("source", i, v).at \in Int /\ Meta("source", i, v).about = i
        /\ Meta("source", i, v).kind # "fact"
    BY DEF Meta, NoTime
  <2> QED
    BY <1>1, <1>2, <2>1, MetaKeeps DEF Cite, Edit, Append1
<1>3. ASSUME NEW i \in DOMAIN log, Retract(i) PROVE Inv'
  <2> DEFINE row == [Meta("retracts", i, 0) EXCEPT !.status = "retracted"]
  <2>1. row.at \in Int /\ row.about = i /\ row.kind # "fact"
    BY DEF Meta, NoTime
  <2>2. log' = log \o <<row>>
    BY <1>3 DEF Retract, Append1
  <2>3. /\ edits' = edits + 1 /\ edits < MaxEdits /\ Steps < MaxSteps
        /\ UNCHANGED <<policy, verdict, canon>>
    BY <1>3 DEF Retract, Edit, Append1
  <2>4. row.about \in 0..Len(log)
    BY <1>1, <2>1
  <2> HIDE DEF row
  <2> QED
    BY <2>1, <2>2, <2>3, <2>4, MetaKeeps
<1>4. ASSUME NEW i \in DOMAIN log, Spend(i) PROVE Inv'
  <2> DEFINE row == [Meta("resolved_by", i, 0) EXCEPT !.status = "generated"]
  <2>1. row.at \in Int /\ row.about = i /\ row.kind # "fact"
    BY DEF Meta, NoTime
  <2>2. log' = log \o <<row>>
    BY <1>4 DEF Spend, Append1
  <2>3. /\ edits' = edits + 1 /\ edits < MaxEdits /\ Steps < MaxSteps
        /\ UNCHANGED <<policy, verdict, canon>>
    BY <1>4 DEF Spend, Edit, Append1
  <2>4. row.about \in 0..Len(log)
    BY <1>1, <2>1
  <2> HIDE DEF row
  <2> QED
    BY <2>1, <2>2, <2>3, <2>4, MetaKeeps
<1>5. ASSUME NEW i \in DOMAIN log, NEW d \in {"CONSTITUTIVE", "DISPOSITIONAL"}, Classify(i, d)
      PROVE  Inv'
  <2>1. i \in 1..MaxRows
    <3>1. MaxRows \in Nat /\ Len(log) <= MaxRows
      BY FactsAre, FoldConstants DEF MaxRows
    <3> QED
      BY <1>1, <3>1
  <2>2. verdict' \in [1..MaxRows -> {"none", "CONSTITUTIVE", "DISPOSITIONAL"}]
    BY <1>5, <2>1 DEF Classify, Inv, TypeInv
  <2>3. TypeInv'
    BY <1>1, <1>5, <2>2 DEF Classify, Edit, Reread, Inv, TypeInv
  <2> QED
    BY <1>5, <2>3, RereadKeeps DEF Classify
<1>6. ASSUME NEW x \in Ids, NEW y \in Ids, Merge(x, y) PROVE Inv'
  <2>1. canon' = [id \in Ids |-> IF canon[id] = canon[y] THEN canon[x] ELSE canon[id]]
    BY <1>6 DEF Merge
  <2>2. canon \in [Ids -> Ids] /\ \A id \in Ids : canon[canon[id]] = canon[id]
    BY DEF Inv, TypeInv
  <2>3. canon' \in [Ids -> Ids] /\ \A id \in Ids : canon'[canon'[id]] = canon'[id]
    BY <2>1, <2>2
  <2>4. TypeInv'
    BY <1>1, <1>6, <2>3 DEF Merge, Edit, Reread, Inv, TypeInv
  <2> QED
    BY <1>6, <2>4, RereadKeeps DEF Merge
<1>7. CASE UNCHANGED vars
  BY <1>7 DEF vars, Inv, TypeInv, LogInv, Facts
<1>8. Subjects \subseteq Ids /\ Places \subseteq Ids /\ Documents \subseteq Ids /\ Voices \ Documents \subseteq Ids
  BY FoldConstants DEF Ids
<1>9. (\E Kin \in {Subjects, Places, Documents, Voices \ Documents} : \E x, y \in Kin : Merge(x, y))
        => \E x, y \in Ids : Merge(x, y)
  BY <1>8
<1> QED
  BY <1>2, <1>3, <1>4, <1>5, <1>6, <1>7, <1>9, SayKeeps DEF Next

\* What every state satisfies.
THEOREM Invariance == Spec => []Inv
  BY InitHolds, NextKeeps, PTL DEF Spec

-----------------------------------------------------------------------------
(* Conflicts are listed.                                                   *)

\* A key is among the open conflicts iff reading it says it is in dispute; whatever is
\* answered is of rows of the key.
THEOREM DisputesAreListed == Spec => []ConflictsListed
<1>1. ASSUME Inv PROVE TypeOK
  <2>1. \A x \in Subjects, s \in 0..Len(log) :
          LET fold == FoldKey(x, s) IN
          /\ fold.winner \in {0} \union KeyRows(x, s)
          /\ fold.parties # {} => fold.winner \in fold.parties
          /\ fold.parties \union fold.agreed \union fold.members \subseteq KeyRows(x, s)
    BY <1>1, FoldLands DEF Lands
  <2> QED
    BY <1>1, <2>1, FactsAre DEF TypeOK, Inv, TypeInv, LogInv
<1>2. ASSUME Inv, NEW x \in Subjects, NEW s \in 0..Len(log), FoldKey(x, s).parties # {}
      PROVE  Listed(x, s)
  <2>1. /\ policy # "set_valued"
        /\ \E i, j \in KeyRows(x, s) : i # j
    BY <1>2, FoldLands DEF Lands
  <2>2. PICK i \in KeyRows(x, s), j \in KeyRows(x, s) : i # j
    BY <2>1
  <2>3. IsFiniteSet(KeyRows(x, s))
    <3>1. s \in Nat /\ KeyRows(x, s) \subseteq 1..s
      BY <1>2, LogFacts, KeyRowsIn
    <3> QED
      <4>1. IsFiniteSet(1..s)
        BY <3>1, FS_Interval
      <4> QED
        BY <3>1, <4>1, FS_Subset
  <2>4. Cardinality({i, j}) = 2 /\ {i, j} \subseteq KeyRows(x, s)
    <3>1. IsFiniteSet({i}) /\ Cardinality({i}) = 1
      BY FS_Singleton
    <3>2. j \notin {i}
      BY <2>2
    <3>3. Cardinality({i} \union {j}) = Cardinality({i}) + 1
      BY <3>1, <3>2, FS_AddElement
    <3>4. {i} \union {j} = {i, j}
      OBVIOUS
    <3> QED
      BY <3>1, <3>3, <3>4
  <2>5. Cardinality({i, j}) <= Cardinality(KeyRows(x, s)) /\ Cardinality(KeyRows(x, s)) \in Nat
    BY <2>3, <2>4, FS_Subset, FS_CardinalityType
  <2> QED
    BY <1>2, <2>1, <2>4, <2>5 DEF Listed
<1>3. Inv => ConflictsListed
  BY <1>1, <1>2 DEF ConflictsListed, Listed
<1> QED
  BY <1>3, Invariance, PTL

-----------------------------------------------------------------------------
(* The past is fixed.                                                      *)

\* Rows were appended, and nothing moved under those that stand.
Grows ==
  /\ Len(log) \in Nat /\ Len(log) <= Len(log')
  /\ \A i \in 1..Len(log) : log'[i] = log[i]
  /\ UNCHANGED <<policy, verdict, canon>>

\* What a row of the past is, as of a position of the past.
LEMMA RowsStay ==
  ASSUME Grows, NEW s \in 0..Len(log)
  PROVE  /\ \A i \in 1..s : /\ log'[i] = log[i] /\ Rank(i)' = Rank(i)
                            /\ ValueKey(i)' = ValueKey(i) /\ Durability(i)' = Durability(i)
                            /\ SourceClass(i, s)' = SourceClass(i, s)
         /\ \A kind : \A i \in 1..s : About(kind, i, s)' = About(kind, i, s)
         /\ \A x : KeyRows(x, s)' = KeyRows(x, s)
         /\ \A i, j \in 1..s : /\ Agrees(i, j)' <=> Agrees(i, j)
                               /\ Older(i, j)' <=> Older(i, j)
<1>1. \A i \in 1..s : log'[i] = log[i] /\ canon' = canon /\ verdict' = verdict
  BY DEF Grows
<1>2. \A i : Retracted(i, s)' <=> Retracted(i, s)
  BY <1>1 DEF Retracted
<1>3. \A i \in 1..s : /\ Rank(i)' = Rank(i)
                      /\ ValueKey(i)' = ValueKey(i) /\ Durability(i)' = Durability(i)
  BY <1>1 DEF Rank, ValueKey, Durability
<1>4. ASSUME NEW kind, NEW i \in 1..s
      PROVE  About(kind, i, s)' = About(kind, i, s) /\ About(kind, i, s) \subseteq 1..s
  <2>1. (i + 1)..s \subseteq 1..s
    BY DEF Grows
  <2> QED
    BY <1>1, <1>2, <2>1 DEF About
<1>5. \A x : KeyRows(x, s)' = KeyRows(x, s)
  BY <1>1, <1>2 DEF KeyRows
<1>6. \A i, j \in 1..s : /\ Agrees(i, j)' <=> Agrees(i, j)
                         /\ Older(i, j)' <=> Older(i, j)
  BY <1>1, <1>3 DEF Agrees, Older
<1>7. ASSUME NEW i \in 1..s PROVE SourceClass(i, s)' = SourceClass(i, s)
  <2>1. SourcesRaw(i, s)' = SourcesRaw(i, s)
    BY <1>1, <1>4 DEF SourcesRaw
  <2>2. {canon[v] : v \in SourcesRaw(i, s)}' = {canon[v] : v \in SourcesRaw(i, s)}
    BY <1>1, <2>1
  <2>3. \A sources : ClassFrom(i, sources)' = ClassFrom(i, sources)
    BY <1>1 DEF ClassFrom
  <2> QED
    BY <2>2, <2>3 DEF SourceClass
<1> QED
  BY <1>1, <1>3, <1>4, <1>5, <1>6, <1>7

\* What sets of such rows are.
LEMMA SetsStay ==
  ASSUME Grows, NEW s \in 0..Len(log), NEW S \in SUBSET (1..s)
  PROVE  /\ LatestAt(S)' = LatestAt(S) /\ LatestAt(S) \in SUBSET (1..s)
         /\ Latest(S)' = Latest(S)
         /\ TopEvidence(S)' = TopEvidence(S) /\ TopEvidence(S) \in SUBSET (1..s)
         /\ States(S)' = States(S) /\ States(S) \in SUBSET (1..s)
         /\ Current(S)' = Current(S) /\ Current(S) \in SUBSET (1..s)
         /\ Contradict(S)' <=> Contradict(S)
         /\ Concrete(S, s)' = Concrete(S, s) /\ Concrete(S, s) \in SUBSET (1..s)
         /\ ByClass(S, s)' = ByClass(S, s) /\ ByClass(S, s) \in SUBSET SUBSET (1..s)
<1>1. \A i \in S : /\ log'[i] = log[i] /\ Rank(i)' = Rank(i)
                   /\ ValueKey(i)' = ValueKey(i) /\ Durability(i)' = Durability(i)
                   /\ SourceClass(i, s)' = SourceClass(i, s)
                   /\ About("resolved_by", i, s)' = About("resolved_by", i, s)
  BY RowsStay
<1>2. LatestAt(S)' = LatestAt(S) /\ LatestAt(S) \in SUBSET (1..s)
  BY <1>1 DEF LatestAt
<1>3. Latest(S)' = Latest(S)
  BY <1>2 DEF Latest
<1>4. TopEvidence(S)' = TopEvidence(S) /\ TopEvidence(S) \in SUBSET (1..s)
  BY <1>1 DEF TopEvidence
<1>5. States(S)' = States(S) /\ States(S) \in SUBSET (1..s)
  BY <1>1 DEF States
<1>6. Current(S)' = Current(S) /\ Current(S) \in SUBSET (1..s)
  BY <1>5 DEF Current
<1>7. Contradict(S)' <=> Contradict(S)
  BY <1>1 DEF Contradict
<1>8. Concrete(S, s)' = Concrete(S, s) /\ Concrete(S, s) \in SUBSET (1..s)
  <2> DEFINE values == {i \in S : log[i].type # "delta"}
             open == {i \in values : log[i].type # "unresolved" \/ About("resolved_by", i, s) = {}}
             concrete == {i \in open : log[i].type # "unresolved"}
  <2>1. open' = open /\ concrete' = concrete
    BY <1>1
  <2>2. open \in SUBSET (1..s) /\ concrete \in SUBSET (1..s)
    OBVIOUS
  <2>3. /\ Concrete(S, s) = IF concrete # {} THEN concrete ELSE open
        /\ Concrete(S, s)' = IF concrete' # {} THEN concrete' ELSE open'
    BY DEF Concrete
  <2> HIDE DEF open, concrete
  <2> QED
    BY <2>1, <2>2, <2>3
<1>9. ByClass(S, s)' = ByClass(S, s) /\ ByClass(S, s) \in SUBSET SUBSET (1..s)
  <2> DEFINE class == [i \in S |-> SourceClass(i, s)]
  <2>1. class' = class
    BY <1>1
  <2>2. /\ ByClass(S, s) = {{i \in S : class[i] = c} : c \in {class[j] : j \in S}}
        /\ ByClass(S, s)' = {{i \in S : class'[i] = c} : c \in {class'[j] : j \in S}}
    BY DEF ByClass
  <2> HIDE DEF class
  <2> QED
    BY <2>1, <2>2
<1> QED
  BY <1>2, <1>3, <1>4, <1>5, <1>6, <1>7, <1>8, <1>9

\* What a ledger, a set and a move answer.
LEMMA PlainStays ==
  ASSUME Inv, Grows, NEW s \in 0..Len(log), NEW S \in SUBSET (1..s)
  PROVE  /\ Accrued(S)' = Accrued(S)
         /\ Members(S)' = Members(S)
         /\ Structural(S)' = Structural(S)
         /\ Moved(S, s)' = Moved(S, s)
<1>1. \A i \in S : log'[i] = log[i] /\ ValueKey(i)' = ValueKey(i)
  BY RowsStay
<1>2. Accrued(S)' = Accrued(S)
  <2> DEFINE absolutes == {i \in S : log[i].type = "literal"}
             since == {i \in S : log[i].type = "delta"
                                 /\ (absolutes = {} \/ Older(Latest(absolutes), i))}
             rows == IF since # {} THEN since ELSE absolutes
             base == IF absolutes = {} THEN 0 ELSE log[Latest(absolutes)].value
             total == base + Total([i \in since |-> log[i].value])
             answer == IF absolutes \union since = {} THEN Nothing
                       ELSE [Nothing EXCEPT !.winner = Latest(rows), !.quantity = total]
  <2>1. absolutes' = absolutes /\ absolutes \in SUBSET (1..s)
    BY <1>1
  <2>2. Latest(absolutes)' = Latest(absolutes)
    <3> HIDE DEF absolutes
    <3>1. \A T \in SUBSET (1..s) : Latest(T)' = Latest(T)
      BY SetsStay
    <3> QED
      BY <2>1, <3>1
  <2>3. absolutes # {} => Latest(absolutes) \in 1..s
    <3> HIDE DEF absolutes
    <3>1. absolutes # {} => Some(absolutes, s)
      BY <2>1 DEF Some
    <3>2. absolutes # {} => Latest(absolutes) \in absolutes
      BY <3>1, LatestIs
    <3> QED
      BY <2>1, <3>2
  <2> DEFINE last == Latest(absolutes)
  <2>4. last' = last
    BY <2>2
  <2>5. absolutes # {} => log'[last] = log[last]
    BY <2>3, RowsStay
  <2>6. \A i \in S : absolutes # {} => (Older(last, i)' <=> Older(last, i))
    <3> HIDE DEF last, absolutes
    <3> QED
      BY <1>1, <2>4, <2>5 DEF Older
  <2>7. since' = since /\ since \in SUBSET (1..s)
    <3>1. since = {i \in S : log[i].type = "delta" /\ (absolutes = {} \/ Older(last, i))}
      OBVIOUS
    <3>2. since' = {i \in S : log'[i].type = "delta" /\ (absolutes' = {} \/ Older(last, i)')}
      OBVIOUS
    <3> HIDE DEF absolutes, last, since
    <3> QED
      BY <1>1, <2>1, <2>6, <3>1, <3>2
  <2>8. base' = base
    BY <2>1, <2>4, <2>5
  <2>9. [i \in since |-> log[i].value]' = [i \in since |-> log[i].value]
    <3> HIDE DEF since
    <3>1. \A i \in since : log'[i] = log[i]
      BY <2>7, RowsStay
    <3> QED
      BY <2>7, <3>1
  <2>10. total' = total
    BY <2>8, <2>9
  <2>11. rows' = rows /\ rows \in SUBSET (1..s)
    <3> HIDE DEF since, absolutes
    <3> QED
      BY <2>1, <2>7
  <2>12. Latest(rows)' = Latest(rows)
    <3> HIDE DEF rows
    <3>1. \A T \in SUBSET (1..s) : Latest(T)' = Latest(T)
      BY SetsStay
    <3> QED
      BY <2>11, <3>1
  <2>13. Accrued(S) = answer /\ Accrued(S)' = answer'
    BY DEF Accrued
  <2>14. answer' = answer
    <3> HIDE DEF rows, total, since, absolutes
    <3> QED
      BY <2>1, <2>7, <2>10, <2>12 DEF Nothing
  <2> HIDE DEF answer
  <2> QED
    BY <2>13, <2>14
<1>3. Members(S)' = Members(S)
  <2> DEFINE alike(i) == {j \in S : ValueKey(j) = ValueKey(i)}
             current == {Latest(alike(i)) : i \in S}
             answer == [Serve(Latest(current)) EXCEPT !.members = current]
  <2>1. ASSUME NEW i \in S PROVE Latest(alike(i))' = Latest(alike(i)) /\ Latest(alike(i)) \in S
    <3>1. alike(i)' = alike(i) /\ alike(i) \in SUBSET (1..s) /\ alike(i) \subseteq S /\ Some(alike(i), s)
      BY <1>1 DEF Some
    <3> HIDE DEF alike
    <3>2. \A T \in SUBSET (1..s) : Latest(T)' = Latest(T)
      BY SetsStay
    <3> QED
      BY <3>1, <3>2, LatestIs
  <2>2. current' = current /\ current \in SUBSET (1..s)
    BY <2>1
  <2>3. Latest(current)' = Latest(current)
    <3> HIDE DEF current
    <3>1. \A T \in SUBSET (1..s) : Latest(T)' = Latest(T)
      BY SetsStay
    <3> QED
      BY <2>2, <3>1
  <2>4. Members(S) = answer /\ Members(S)' = answer'
    BY DEF Members
  <2>5. answer' = answer
    <3> HIDE DEF current
    <3> QED
      BY <2>2, <2>3 DEF Serve, Nothing
  <2> HIDE DEF answer
  <2> QED
    BY <2>4, <2>5
<1>4. Structural(S)' = Structural(S)
  BY SetsStay DEF Structural, Dispute, Serve, Nothing
<1>5. Moved(S, s)' = Moved(S, s)
  <2> DEFINE spoken == UNION {LatestAt(c) : c \in ByClass(S, s)}
             now == Current(LatestAt(spoken))
             torn == Contradict(States(now))
  <2>1. spoken' = spoken /\ spoken \in SUBSET (1..s)
    <3>1. \A T \in SUBSET (1..s) : LatestAt(T)' = LatestAt(T) /\ LatestAt(T) \in SUBSET (1..s)
      BY SetsStay
    <3>2. ByClass(S, s)' = ByClass(S, s) /\ ByClass(S, s) \in SUBSET SUBSET (1..s)
      BY SetsStay
    <3> QED
      BY <3>1, <3>2
  <2> HIDE DEF spoken
  <2>2. LatestAt(spoken)' = LatestAt(spoken) /\ LatestAt(spoken) \in SUBSET (1..s)
    <3>1. \A T \in SUBSET (1..s) : LatestAt(T)' = LatestAt(T) /\ LatestAt(T) \in SUBSET (1..s)
      BY SetsStay
    <3> QED
      BY <2>1, <3>1
  <2>3. now' = now /\ now \in SUBSET (1..s)
    <3>1. \A T \in SUBSET (1..s) : Current(T)' = Current(T) /\ Current(T) \in SUBSET (1..s)
      BY SetsStay
    <3> QED
      BY <2>2, <3>1
  <2> HIDE DEF now
  <2>4. torn' <=> torn
    <3>1. \A T \in SUBSET (1..s) : States(T)' = States(T) /\ States(T) \in SUBSET (1..s)
      BY SetsStay
    <3>2. \A T \in SUBSET (1..s) : Contradict(T)' <=> Contradict(T)
      BY SetsStay
    <3> QED
      BY <2>3, <3>1, <3>2
  <2> HIDE DEF torn
  <2>5. /\ Moved(S, s) = IF torn THEN Dispute(Min(now), now) ELSE Serve(Max(now))
        /\ Moved(S, s)' = IF torn' THEN Dispute(Min(now'), now') ELSE Serve(Max(now'))
    BY DEF Moved, torn, now, spoken
  <2> QED
    BY <2>3, <2>4, <2>5
<1> QED
  BY <1>2, <1>3, <1>4, <1>5

\* What the classes answer.
LEMMA WeighedStays ==
  ASSUME Inv, Grows, NEW s \in 0..Len(log), NEW S \in SUBSET (1..s)
  PROVE  Weighed(S, s)' = Weighed(S, s)
<1>1. s \in Nat
  BY LogFacts
<1>2. ByClass(S, s)' = ByClass(S, s) /\ ByClass(S, s) \in SUBSET SUBSET (1..s)
  BY SetsStay
<1>3. \A c \in SUBSET (1..s) :
        /\ States(LatestAt(c))' = States(LatestAt(c)) /\ States(LatestAt(c)) \in SUBSET (1..s)
        /\ Current(LatestAt(c))' = Current(LatestAt(c)) /\ Current(LatestAt(c)) \in SUBSET (1..s)
  <2>1. \A T \in SUBSET (1..s) :
          /\ LatestAt(T)' = LatestAt(T) /\ LatestAt(T) \in SUBSET (1..s)
          /\ States(T)' = States(T) /\ States(T) \in SUBSET (1..s)
          /\ Current(T)' = Current(T) /\ Current(T) \in SUBSET (1..s)
    BY SetsStay
  <2> SUFFICES ASSUME NEW c \in SUBSET (1..s)
               PROVE  /\ States(LatestAt(c))' = States(LatestAt(c)) /\ States(LatestAt(c)) \in SUBSET (1..s)
                      /\ Current(LatestAt(c))' = Current(LatestAt(c)) /\ Current(LatestAt(c)) \in SUBSET (1..s)
    OBVIOUS
  <2> DEFINE last == LatestAt(c)
  <2>2. last' = last /\ last \in SUBSET (1..s)
    BY <2>1
  <2> HIDE DEF last
  <2>3. /\ States(last)' = States(last) /\ States(last) \in SUBSET (1..s)
        /\ Current(last)' = Current(last) /\ Current(last) \in SUBSET (1..s)
    BY <2>1, <2>2 DEF States, Current
  <2> QED
    BY <2>3 DEF last
<1>4. \A c \in SUBSET (1..s) : Contradict(States(LatestAt(c)))' <=> Contradict(States(LatestAt(c)))
  <2> SUFFICES ASSUME NEW c \in SUBSET (1..s)
               PROVE  Contradict(States(LatestAt(c)))' <=> Contradict(States(LatestAt(c)))
    OBVIOUS
  <2> DEFINE torn == States(LatestAt(c))
  <2>1. torn' = torn /\ torn \in SUBSET (1..s)
    BY <1>3
  <2> HIDE DEF torn
  <2>2. Contradict(torn)' <=> Contradict(torn)
    BY <2>1, SetsStay DEF Contradict
  <2> QED
    BY <2>2 DEF torn
<1>5. ASSUME NEW classes \in SUBSET SUBSET (1..s)
      PROVE  TornIn(classes)' = TornIn(classes) /\ TornIn(classes) \in SUBSET SUBSET (1..s)
  BY <1>4 DEF TornIn
<1>6. ASSUME NEW c \in SUBSET (1..s) PROVE TornBy(c)' = TornBy(c)
  BY <1>3 DEF TornBy, Dispute, Nothing
<1>7. ASSUME NEW W \in SUBSET (1..s) PROVE ServedBy(W, s)' = ServedBy(W, s)
  <2> DEFINE agreeing == {ij \in W \X W : Agrees(ij[1], ij[2])}
             serving == Serving(W, agreeing, s)
             heard == {n \in W : <<serving[n - 1], n>> \in agreeing}
             answer == [Nothing EXCEPT !.winner = serving[s], !.parties = InDispute(serving[s], W),
                                       !.agreed = heard]
  <2>1. \A i, j \in 1..s : Agrees(i, j)' <=> Agrees(i, j)
    BY RowsStay
  <2>2. agreeing' = agreeing
    BY <2>1
  <2> HIDE DEF agreeing
  <2>3. serving' = serving /\ heard' = heard
    BY <2>2
  <2>4. W = {} \/ serving[s] \in W
    <3>1. s \in 0..s /\ W \cap (1..s) = W
      <4>1. W \subseteq 1..s
        OBVIOUS
      <4>2. W \cap (1..s) = W
        BY <4>1
      <4>3. s \in 0..s
        BY <1>1
      <4> QED
        BY <4>2, <4>3
    <3>2. /\ serving[s] \in {0} \union (W \cap (1..s))
          /\ W \cap (1..s) # {} => serving[s] # 0
      BY <1>1, <3>1, ServingHas
    <3> QED
      BY <3>1, <3>2
  <2> DEFINE served == serving[s]
  <2>5. served' = served
    BY <2>3
  <2>6. InDispute(served, W)' = InDispute(served, W)
    <3>1. CASE W = {}
      BY <3>1 DEF InDispute
    <3>2. CASE served \in W
      <4> DEFINE against == {i \in W \ {served} : ~Compatible(served, i)}
      <4> HIDE DEF served
      <4>1. \A i \in W : Compatible(served, i)' <=> Compatible(served, i)
        BY <2>1, <2>5, <3>2 DEF Compatible
      <4>2. against' = against
        BY <2>5, <4>1
      <4>3. /\ InDispute(served, W) = IF against = {} THEN {} ELSE {served} \union against
            /\ InDispute(served, W)' = IF against' = {} THEN {} ELSE {served'} \union against'
        BY DEF InDispute
      <4> QED
        BY <2>5, <4>2, <4>3
    <3> QED
      BY <2>4, <3>1, <3>2
  <2>7. ServedBy(W, s) = answer /\ ServedBy(W, s)' = answer'
    BY DEF ServedBy, agreeing
  <2>8. answer' = answer
    <3> HIDE DEF serving, heard
    <3> QED
      BY <2>3, <2>5, <2>6 DEF Nothing
  <2> HIDE DEF answer
  <2> QED
    BY <2>7, <2>8
<1> DEFINE classes == ByClass(S, s)
           torn == TornIn(classes)
           winners == {Max(Current(LatestAt(c))) : c \in classes}
<1>8. classes' = classes /\ classes \in SUBSET SUBSET (1..s)
  BY <1>2
<1> HIDE DEF classes
<1>9. torn' = torn /\ torn \in SUBSET SUBSET (1..s)
  BY <1>5, <1>8 DEF TornIn
<1>10. torn # {} => FirstSeen(torn) \in torn
  <2>1. \A c \in torn : Some(c, s)
    BY <1>8 DEF TornIn, Contradict, States, LatestAt, Some
  <2> HIDE DEF torn
  <2> QED
    BY <2>1, TornLands
<1> DEFINE first == FirstSeen(torn)
<1>11. first' = first
  BY <1>9
<1>12. torn # {} => TornBy(first)' = TornBy(first)
  <2>1. torn # {} => first \in SUBSET (1..s)
    BY <1>9, <1>10
  <2> HIDE DEF first, torn
  <2>2. \A c \in SUBSET (1..s) : States(LatestAt(c))' = States(LatestAt(c))
    BY <1>3
  <2>3. torn # {} => States(LatestAt(first))' = States(LatestAt(first))
    BY <1>11, <2>1, <2>2 DEF States, LatestAt
  <2> QED
    BY <1>11, <2>3 DEF TornBy
<1>13. winners' = winners /\ winners \in SUBSET (1..s)
  <2>1. ASSUME NEW c \in classes
        PROVE  Max(Current(LatestAt(c)))' = Max(Current(LatestAt(c)))
    BY <1>3, <1>8
  <2>2. winners' = winners
    BY <1>8, <2>1
  <2>3. S # {} => \A c \in classes : Some(c, s)
    <3>1. S # {} => Some(S, s)
      BY DEF Some
    <3> QED
      BY <3>1, ClassesAre DEF classes
  <2>4. S = {} => classes = {}
    BY DEF classes, ByClass
  <2>5. \A c \in classes : Max(Current(LatestAt(c))) \in 1..s
    BY <2>3, <2>4, WinnerIs DEF WinnerOf, Some
  <2> QED
    BY <2>2, <2>5
<1>14. ServedBy(winners, s)' = ServedBy(winners, s)
  BY <1>7, <1>13
<1>15. /\ Weighed(S, s) = IF torn # {} THEN TornBy(first) ELSE ServedBy(winners, s)
       /\ Weighed(S, s)' = IF torn' # {} THEN TornBy(first)' ELSE ServedBy(winners, s)'
  BY DEF Weighed, WeighedBy, classes
<1> HIDE DEF torn, first, winners
<1> QED
  BY <1>9, <1>12, <1>14, <1>15

\* What a key answers as of a position of the past.
LEMMA FoldStays ==
  ASSUME Inv, Grows, NEW s \in 0..Len(log), NEW x
  PROVE  FoldKey(x, s)' = FoldKey(x, s)
<1> DEFINE rows == KeyRows(x, s)
           live == Concrete(rows, s)
           fixed == {i \in live : Durability(i) = "CONSTITUTIVE"}
           best == TopEvidence(live)
           set == TopEvidence(fixed)
<1>1. rows' = rows /\ rows \in SUBSET (1..s)
  BY RowsStay, KeyRowsIn
<1> HIDE DEF rows
<1>2. \A S \in SUBSET (1..s) :
        /\ LatestAt(S)' = LatestAt(S) /\ Latest(S)' = Latest(S)
        /\ TopEvidence(S)' = TopEvidence(S) /\ TopEvidence(S) \in SUBSET (1..s)
        /\ Concrete(S, s)' = Concrete(S, s) /\ Concrete(S, s) \in SUBSET (1..s)
  BY SetsStay
<1>3. live' = live /\ live \in SUBSET (1..s)
  BY <1>1, <1>2
<1> HIDE DEF live
<1>4. fixed' = fixed /\ fixed \in SUBSET (1..s)
  <2>1. \A i \in live : Durability(i)' = Durability(i)
    BY <1>3, RowsStay
  <2> QED
    BY <1>3, <2>1
<1> HIDE DEF fixed
<1>5. best' = best /\ best \in SUBSET (1..s) /\ set' = set /\ set \in SUBSET (1..s)
  BY <1>2, <1>3, <1>4
<1> HIDE DEF best, set
<1>6. /\ Accrued(rows)' = Accrued(rows) /\ Members(live)' = Members(live)
      /\ Serve(Latest(best))' = Serve(Latest(best)) /\ Structural(set)' = Structural(set)
      /\ Moved(best, s)' = Moved(best, s) /\ Weighed(best, s)' = Weighed(best, s)
  <2>1. \A S \in SUBSET (1..s) :
          /\ Accrued(S)' = Accrued(S) /\ Members(S)' = Members(S)
          /\ Structural(S)' = Structural(S) /\ Moved(S, s)' = Moved(S, s)
          /\ Weighed(S, s)' = Weighed(S, s)
    BY PlainStays, WeighedStays
  <2>2. Latest(best)' = Latest(best)
    BY <1>2, <1>5
  <2> QED
    BY <1>1, <1>3, <1>5, <2>1, <2>2
<1>7. policy' = policy
  BY DEF Grows
<1> DEFINE answer ==
             CASE policy = "accrue" -> Accrued(rows)
               [] policy # "accrue" /\ live = {} -> Nothing
               [] policy = "set_valued" /\ live # {} -> Members(live)
               [] policy = "last_write" /\ live # {} -> Serve(Latest(best))
               [] policy \in {"by_class", "containment"} /\ fixed # {} -> Structural(set)
               [] policy = "containment" /\ live # {} /\ fixed = {} -> Moved(best, s)
               [] policy = "by_class" /\ live # {} /\ fixed = {} -> Weighed(best, s)
<1>8. FoldKey(x, s) = answer /\ FoldKey(x, s)' = answer'
  BY DEF FoldKey, rows, live, fixed, best, set
<1>9. answer' = answer
  BY <1>1, <1>3, <1>4, <1>6, <1>7 DEF Nothing
<1> HIDE DEF answer
<1> QED
  BY <1>8, <1>9

\* What is told is told of positions of the log.
PastInv == PastIsFixed /\ DOMAIN told \subseteq 0..Len(log)

\* Rows appended: what was answered before them is what is told, and stays.
LEMMA AppendFixes ==
  ASSUME Inv, NEW T, NEW rows \in Seq(T), Append1(rows)
  PROVE  PastInv'
<1>1. /\ log' = log \o rows /\ UNCHANGED <<policy, verdict, canon>>
      /\ told' = [s \in 0..Len(log) |-> [x \in Subjects |-> FoldKey(x, s)]]
  BY DEF Append1
<1>2. Grows
  <2>1. /\ Len(log') = Len(log) + Len(rows)
        /\ \A i \in 1..Len(log) : log'[i] = log[i]
    BY <1>1, LogExtends
  <2>2. Len(log) \in Nat /\ Len(rows) \in Nat
    BY LogFacts
  <2> QED
    BY <1>1, <2>1, <2>2 DEF Grows
<1>3. \A s \in 0..Len(log), x \in Subjects : FoldKey(x, s)' = FoldKey(x, s)
  BY <1>2, FoldStays
<1>4. /\ DOMAIN told' = 0..Len(log)
      /\ \A s \in 0..Len(log), x \in Subjects : told'[s][x] = FoldKey(x, s)
  BY <1>1
<1>5. \A s \in DOMAIN told' : \A x \in Subjects : FoldKey(x, s)' = told'[s][x]
  BY <1>3, <1>4
<1>6. DOMAIN told' \subseteq 0..Len(log')
  BY <1>2, <1>4 DEF Grows
<1> QED
  BY <1>5, <1>6 DEF PastInv, PastIsFixed

\* No later row, source, marker or retraction moves what a log position answered.
THEOREM PastStays == Spec => []PastIsFixed
<1>1. Init => PastInv
  BY DEF Init, PastInv, PastIsFixed
<1>2. ASSUME Inv, PastInv, [Next]_vars PROVE PastInv'
  <2>1. ASSUME NEW rows, \E T : rows \in Seq(T), Append1(rows) PROVE PastInv'
    BY <1>2, <2>1, AppendFixes
  <2>2. \A row : \E T : <<row>> \in Seq(T)
    <3>1. \A row : <<row>> \in Seq({row})
      OBVIOUS
    <3> QED
      BY <3>1
  <2>3. ASSUME NEW said \in Offers[policy], Say(said) PROVE PastInv'
    BY <1>2, <2>1, <2>3, ItemIs DEF Say
  <2>4. ASSUME NEW i \in DOMAIN log, NEW v \in Voices, Cite(i, v) PROVE PastInv'
    BY <2>1, <2>2, <2>4 DEF Cite
  <2>5. ASSUME NEW i \in DOMAIN log, Retract(i) PROVE PastInv'
    BY <2>1, <2>2, <2>5 DEF Retract
  <2>6. ASSUME NEW i \in DOMAIN log, Spend(i) PROVE PastInv'
    BY <2>1, <2>2, <2>6 DEF Spend
  <2>7. ASSUME Reread PROVE PastInv'
    BY <2>7 DEF Reread, PastInv, PastIsFixed
  <2>8. CASE UNCHANGED vars
    <3>1. Grows
      BY <1>2, <2>8, LogFacts DEF Grows, vars
    <3>2. \A s \in 0..Len(log), x \in Subjects : FoldKey(x, s)' = FoldKey(x, s)
      BY <1>2, <3>1, FoldStays
    <3> QED
      BY <1>2, <2>8, <3>2 DEF PastInv, PastIsFixed, vars
  <2> QED
    BY <1>2, <2>3, <2>4, <2>5, <2>6, <2>7, <2>8 DEF Next, Classify, Merge
<1> QED
  BY <1>1, <1>2, Invariance, PTL DEF Spec, PastInv

-----------------------------------------------------------------------------
(* Time decides where a thing is.                                          *)

\* Of the best rows, those at the latest time decide, and only they dispute.
LEMMA MovesRight == Inv => LaterMoveServes
<1> SUFFICES ASSUME Inv, policy = "containment", NEW x \in Subjects, NEW s \in 0..Len(log),
                    Live(x, s) # {}, \A i \in Live(x, s) : Durability(i) # "CONSTITUTIVE"
             PROVE  LET best == TopEvidence(Live(x, s))
                        now == {i \in best : \A j \in best : log[j].at <= log[i].at}
                        right == {i \in now : Durability(i) = "STATE"}
                        fold == FoldKey(x, s)
                    IN /\ (fold.parties # {}) <=> \E i, j \in right : ValueKey(i) # ValueKey(j)
                       /\ fold.winner = IF fold.parties # {} THEN Min(right)
                                        ELSE Max(IF right # {} THEN right ELSE now)
  BY DEF LaterMoveServes, Live
<1> DEFINE best == TopEvidence(Live(x, s))
           now == LatestAt(best)
           right == States(now)
           fold == FoldKey(x, s)
<1>1. /\ now = {i \in best : \A j \in best : log[j].at <= log[i].at}
      /\ right = {i \in now : Durability(i) = "STATE"}
  BY DEF LatestAt, States
<1>2. fold = Moved(best, s) /\ Some(best, s)
  <2>1. Fixed(x, s) = {}
    BY DEF Fixed
  <2> QED
    BY <2>1, FoldIs, BestIs
<1> HIDE DEF best, fold
<1>3. /\ Some(Standing(best), s)
      /\ fold = IF Contradict(States(Standing(best))) THEN Dispute(Min(Standing(best)), Standing(best))
                ELSE Serve(Max(Standing(best)))
  BY <1>2, MovedIs
<1>4. Standing(best) = IF right # {} THEN right ELSE now
  BY DEF Standing, Current
<1>5. States(Standing(best)) = right
  BY <1>4 DEF States
<1>6. /\ (fold.parties # {}) <=> Contradict(right)
      /\ fold.winner = IF Contradict(right) THEN Min(Standing(best)) ELSE Max(Standing(best))
  BY <1>3, <1>5, ResultIs DEF Some
<1>7. Contradict(right) => right # {}
  BY DEF Contradict
<1>8. /\ (fold.parties # {}) <=> \E i, j \in right : ValueKey(i) # ValueKey(j)
      /\ fold.winner = IF fold.parties # {} THEN Min(right)
                       ELSE Max(IF right # {} THEN right ELSE now)
  <2> HIDE DEF right, now
  <2> QED
    BY <1>4, <1>6, <1>7 DEF Contradict
<1> HIDE DEF right, now
<1> QED
  BY <1>1, <1>8 DEF best, fold

-----------------------------------------------------------------------------
(* One document is one voice.                                              *)

\* Rows all of one class.
Alone(S, s) == \E c : \A i \in S : SourceClass(i, s) = c

\* Rows a document stated are of its class.
LEMMA DocumentIs ==
  ASSUME NEW S, NEW s, NEW d \in Documents,
         \A i \in S : log[i].status = "stated" /\ {canon[v] : v \in SourcesRaw(i, s)} = {d}
  PROVE  Alone(S, s)
<1>1. \A i \in S : SourceClass(i, s) = <<"document", {d}>>
  <2> SUFFICES ASSUME NEW i \in S PROVE SourceClass(i, s) = <<"document", {d}>>
    OBVIOUS
  <2>1. SourceClass(i, s) = ClassFrom(i, {d}) /\ log[i].status = "stated"
    BY DEF SourceClass
  <2>2. {d} \intersect Documents = {d} /\ {d} # {}
    OBVIOUS
  <2> QED
    BY <2>1, <2>2 DEF ClassFrom
<1> QED
  BY <1>1 DEF Alone

\* One class speaks at one moment, if it disputes at all.
LEMMA AloneAgrees ==
  ASSUME Inv, NEW s \in 0..Len(log), NEW S, Some(S, s), Alone(S, s)
  PROVE  \A i, j \in Weighed(S, s).parties : i \in LatestAt(S) /\ j \in LatestAt(S)
<1>1. ByClass(S, s) = {S}
  <2>1. PICK c : \A i \in S : SourceClass(i, s) = c
    BY DEF Alone
  <2> DEFINE class == [i \in S |-> SourceClass(i, s)]
             of(k) == {i \in S : class[i] = k}
  <2>2. \A i \in S : class[i] = c
    BY <2>1
  <2>3. ByClass(S, s) = {of(k) : k \in {class[j] : j \in S}}
    BY DEF ByClass
  <2> HIDE DEF class
  <2>4. {class[j] : j \in S} = {c}
    BY <2>2 DEF Some
  <2>5. of(c) = S
    BY <2>2
  <2> HIDE DEF of
  <2> QED
    BY <2>3, <2>4, <2>5
<1>2. Weighed(S, s) = IF TornIn({S}) # {} THEN TornBy(FirstSeen(TornIn({S})))
                      ELSE ServedBy({WinnerOf(S)}, s)
  BY <1>1 DEF Weighed, WeighedBy, WinnerOf
<1>3. CASE TornIn({S}) # {}
  <2>1. TornIn({S}) = {S}
    BY <1>3 DEF TornIn
  <2>2. FirstSeen({S}) = S
    <3>1. FirstSeen({S}) \in {S}
      BY TornLands
    <3> QED
      BY <3>1
  <2>3. Weighed(S, s) = Dispute(Min(States(LatestAt(S))), States(LatestAt(S)))
    BY <1>2, <2>1, <2>2 DEF TornBy
  <2>4. Weighed(S, s).parties = States(LatestAt(S))
    BY <2>3, ResultIs
  <2> QED
    BY <2>4 DEF States
<1>4. CASE TornIn({S}) = {}
  <2> DEFINE W == {WinnerOf(S)}
             r == ServedBy(W, s)
  <2>1. Some(W, s) /\ s \in Nat
    BY WinnerIs, LogFacts DEF Some
  <2>2. Lands(r, W)
    BY <2>1, ServedLands
  <2>3. r.parties = {}
    <3> HIDE DEF r
    <3>1. \A i, j \in r.parties : i = j
      BY <2>2 DEF Lands
    <3> QED
      BY <2>2, <3>1 DEF Lands
  <2> QED
    BY <1>2, <1>4, <2>3
<1> QED
  BY <1>3, <1>4

\* A document under however many ids corroborates nothing, and disputes only with
\* what it says itself of the same moment.
LEMMA DocumentsAreOne == Inv => OneVoice
<1> SUFFICES ASSUME Inv, policy \in {"by_class", "containment", "last_write"},
                    NEW x \in Subjects, NEW s \in 0..Len(log), NEW d \in Documents,
                    \A i \in KeyRows(x, s) :
                      log[i].status = "stated" /\ {canon[v] : v \in SourcesRaw(i, s)} = {d}
             PROVE  /\ Corroboration(x, s) = 0
                    /\ \A i, j \in FoldKey(x, s).parties :
                         log[i].at = log[j].at \/ Durability(i) = "CONSTITUTIVE"
  BY DEF OneVoice
<1> DEFINE fold == FoldKey(x, s)
           rows == KeyRows(x, s)
<1>1. Alone(rows, s) /\ \A S \in SUBSET rows : Alone(S, s)
  <2>1. Alone(rows, s)
    BY DocumentIs
  <2> HIDE DEF rows
  <2> QED
    BY <2>1 DEF Alone
<1>2. Lands(fold, rows)
  BY FoldLands
<1>3. Corroboration(x, s) = 0
  <2> DEFINE same == {i \in rows : log[i].type = log[fold.winner].type
                                   /\ ValueKey(i) = ValueKey(fold.winner)}
             heard == {fold.winner} \union fold.agreed \union same
             classes == {SourceClass(i, s) : i \in heard}
  <2>1. Corroboration(x, s) = IF fold.winner = 0 THEN 0 ELSE Cardinality(classes) - 1
    BY DEF Corroboration
  <2>2. fold.winner # 0 => heard \subseteq rows /\ fold.winner \in heard
    BY <1>2 DEF Lands
  <2> HIDE DEF fold, rows, heard
  <2>3. PICK c : \A i \in rows : SourceClass(i, s) = c
    BY <1>1 DEF Alone
  <2>4. fold.winner # 0 => classes = {c}
    BY <2>2, <2>3
  <2> HIDE DEF classes
  <2>5. Cardinality({c}) = 1
    BY FS_Singleton
  <2> QED
    BY <2>1, <2>4, <2>5
<1>4. ASSUME NEW S, Some(S, s), NEW i \in LatestAt(S), NEW j \in LatestAt(S)
      PROVE  log[i].at = log[j].at
  <2>1. log[i].at \in Int /\ log[j].at \in Int
    BY <1>4, LogFacts DEF Inv, LogInv, Some, LatestAt
  <2>2. log[i].at <= log[j].at /\ log[j].at <= log[i].at
    BY DEF LatestAt
  <2> QED
    BY <2>1, <2>2
<1>5. \A i, j \in fold.parties : log[i].at = log[j].at \/ Durability(i) = "CONSTITUTIVE"
  <2>1. CASE Live(x, s) = {} \/ (policy = "last_write" /\ Live(x, s) # {})
    <3>1. fold = Nothing \/ \E i : fold = Serve(i)
      BY <2>1, FoldIs
    <3> HIDE DEF fold
    <3>2. fold.parties = {}
      BY <3>1, ResultIs
    <3> QED
      BY <3>2
  <2>2. CASE policy # "last_write" /\ Fixed(x, s) # {}
    <3>1. fold = Structural(TopEvidence(Fixed(x, s))) /\ Some(TopEvidence(Fixed(x, s)), s)
      BY <2>2, FoldIs, BestIs
    <3>2. fold.parties \subseteq TopEvidence(Fixed(x, s))
      BY <3>1, StructuralLands DEF Lands
    <3> QED
      BY <3>2 DEF TopEvidence, Fixed
  <2>3. CASE policy # "last_write" /\ Live(x, s) # {} /\ Fixed(x, s) = {}
    <3> DEFINE best == TopEvidence(Live(x, s))
    <3>1. Some(best, s) /\ best \subseteq rows
      BY <2>3, BestIs
    <3>2. policy = "containment" => fold = Moved(best, s)
      BY <2>3, FoldIs
    <3>3. policy = "by_class" => fold = Weighed(best, s)
      BY <2>3, FoldIs
    <3> HIDE DEF best, fold, rows
    <3>4. policy = "containment" => fold.parties \subseteq LatestAt(best)
      BY <3>1, <3>2, MovedIs, ResultIs
    <3>5. policy = "by_class" => \A i, j \in fold.parties : i \in LatestAt(best) /\ j \in LatestAt(best)
      BY <1>1, <3>1, <3>3, AloneAgrees
    <3> QED
      BY <1>4, <2>3, <3>1, <3>4, <3>5
  <2> QED
    BY <2>1, <2>2, <2>3
<1> QED
  BY <1>3, <1>5

-----------------------------------------------------------------------------
(* An answer is earned.                                                    *)

\* Row i was said after position r; at position s so was its source, if it has one.
Heeds(i, r, s) ==
  /\ i \in DOMAIN log /\ r = i - 1 /\ s \in {i, i + 1} /\ s \in DOMAIN log
  /\ log[i].kind = "fact"
  /\ s # i => log[s].kind = "source" /\ log[s].about = i

\* The positions before and after a row.
LEMMA HeedsIs ==
  ASSUME Inv, NEW i, NEW r, NEW s, Heeds(i, r, s)
  PROVE  /\ i \in Nat /\ r \in Nat /\ s \in Nat /\ r <= s /\ i = r + 1
         /\ r \in 0..Len(log) /\ s \in 0..Len(log) /\ i \in 1..s /\ i \notin 1..r
         /\ 1..r \subseteq 1..s /\ \A m \in 1..s : m \in 1..r \/ m = i \/ m = s
BY LogFacts DEF Heeds

\* Neither a row nor its source moves what the rows before it are.
LEMMA HeedsStay ==
  ASSUME Inv, NEW i, NEW r, NEW s, Heeds(i, r, s)
  PROVE  /\ \A j \in 1..r : Retracted(j, s) <=> Retracted(j, r)
         /\ \A kind \in {"source", "resolved_by"} :
              \A j \in 1..r : About(kind, j, s) = About(kind, j, r)
         /\ \A j \in 1..r : SourceClass(j, s) = SourceClass(j, r)
         /\ \A x : KeyRows(x, s) = KeyRows(x, r) \/ KeyRows(x, s) = KeyRows(x, r) \union {i}
<1>1. /\ i \in Nat /\ r \in Nat /\ s \in Nat /\ i = r + 1
      /\ i \in 1..s /\ i \notin 1..r /\ 1..r \subseteq 1..s
      /\ \A m \in 1..s : m \in 1..r \/ m = i \/ m = s
  BY HeedsIs
<1>2. /\ log[i].kind = "fact"
      /\ s # i => log[s].kind = "source" /\ log[s].about = i
  BY DEF Heeds
<1>3. \A j \in 1..r : Retracted(j, s) <=> Retracted(j, r)
  BY <1>1, <1>2 DEF Retracted
<1>4. ASSUME NEW kind \in {"source", "resolved_by"}, NEW j \in 1..r
      PROVE  About(kind, j, s) = About(kind, j, r)
  <2>1. /\ About(kind, j, s) = {m \in (j + 1)..s : log[m].kind = kind /\ log[m].about = j /\ ~Retracted(m, s)}
        /\ About(kind, j, r) = {m \in (j + 1)..r : log[m].kind = kind /\ log[m].about = j /\ ~Retracted(m, r)}
    BY DEF About
  <2>2. j # i /\ (j + 1)..r \subseteq (j + 1)..s /\ (j + 1)..r \subseteq 1..r
        /\ \A m \in (j + 1)..s : m \in (j + 1)..r \/ m = i \/ m = s
    BY <1>1
  <2>3. ASSUME NEW m \in (j + 1)..s, log[m].kind = kind, log[m].about = j
        PROVE  m \in (j + 1)..r
    BY <1>2, <2>2, <2>3
  <2> QED
    BY <1>3, <2>1, <2>2, <2>3
<1>5. ASSUME NEW j \in 1..r PROVE SourceClass(j, s) = SourceClass(j, r)
  <2>1. SourcesRaw(j, s) = SourcesRaw(j, r)
    BY <1>4 DEF SourcesRaw
  <2> QED
    BY <2>1 DEF SourceClass
<1>6. ASSUME NEW x
      PROVE  KeyRows(x, s) = KeyRows(x, r) \/ KeyRows(x, s) = KeyRows(x, r) \union {i}
  <2>1. \A j \in 1..r : j \in KeyRows(x, s) <=> j \in KeyRows(x, r)
    BY <1>1, <1>3 DEF KeyRows
  <2>2. KeyRows(x, r) \subseteq 1..r /\ KeyRows(x, s) \subseteq 1..r \union {i}
    <3>1. \A j \in KeyRows(x, s) : j \in 1..s /\ log[j].kind = "fact"
      BY DEF KeyRows
    <3> QED
      BY <1>1, <1>2, <3>1 DEF KeyRows
  <2> QED
    BY <2>1, <2>2
<1> QED
  BY <1>3, <1>4, <1>5, <1>6

\* What stands of a key before stands after, if a value stood: and the row, if it is one.
LEMMA LiveGains ==
  ASSUME Inv, NEW i, NEW r, NEW s, Heeds(i, r, s), NEW x,
         NEW old \in Live(x, r), log[old].type # "unresolved"
  PROVE  Live(x, s) = Live(x, r) \/ Live(x, s) = Live(x, r) \union {i}
<1> DEFINE concrete(S) == {j \in S : log[j].type # "delta" /\ log[j].type # "unresolved"}
<1>1. ASSUME NEW S, NEW t PROVE concrete(S) # {} => Concrete(S, t) = concrete(S)
  <2> DEFINE values == {j \in S : log[j].type # "delta"}
             open == {j \in values : log[j].type # "unresolved" \/ About("resolved_by", j, t) = {}}
             left == {j \in open : log[j].type # "unresolved"}
  <2>1. left = concrete(S)
    OBVIOUS
  <2>2. Concrete(S, t) = IF left # {} THEN left ELSE open
    BY DEF Concrete
  <2> QED
    BY <2>1, <2>2
<1>2. old \in concrete(KeyRows(x, r))
  BY DEF Live, Concrete
<1>3. concrete(KeyRows(x, r)) \subseteq concrete(KeyRows(x, s))
  BY HeedsStay
<1>4. /\ Live(x, r) = concrete(KeyRows(x, r))
      /\ Live(x, s) = concrete(KeyRows(x, s))
  BY <1>1, <1>2, <1>3 DEF Live
<1> QED
  BY <1>4, HeedsStay

\* The winner is who serves after the last row.
LEMMA ServedIs ==
  ASSUME NEW W, NEW s
  PROVE  ServedBy(W, s).winner = Serving(W, {ij \in W \X W : Agrees(ij[1], ij[2])}, s)[s]
<1> DEFINE agreeing == {ij \in W \X W : Agrees(ij[1], ij[2])}
           serving == Serving(W, agreeing, s)
           heard == {n \in W : <<serving[n - 1], n>> \in agreeing}
           answer == [Nothing EXCEPT !.winner = serving[s], !.parties = InDispute(serving[s], W),
                                     !.agreed = heard]
<1>1. ServedBy(W, s) = answer
  BY DEF ServedBy
<1> HIDE DEF serving, heard
<1>2. answer.winner = serving[s]
  BY DEF Nothing
<1> QED
  BY <1>1, <1>2 DEF serving

\* Rows that win nothing change nothing.
LEMMA ServedHeld ==
  ASSUME Inv, NEW r \in Nat, NEW s \in Nat, r <= s, NEW W, Some(W, r)
  PROVE  ServedBy(W, s).winner = ServedBy(W, r).winner
<1> DEFINE A == {ij \in W \X W : Agrees(ij[1], ij[2])}
<1>1. /\ ServedBy(W, r).winner = Serving(W, A, r)[r]
      /\ ServedBy(W, s).winner = Serving(W, A, s)[s]
  BY ServedIs
<1>2. W \in SUBSET (1..s) /\ \A n \in (r + 1)..s : n \notin W
  BY DEF Some
<1> HIDE DEF A
<1>3. Alike(W, A, W, A, r)
  BY DEF Alike
<1>4. Serving(W, A, r)[r] = Serving(W, A, s)[r]
  BY <1>2, <1>3, ServingSame
<1>5. Serving(W, A, s)[s] = Serving(W, A, s)[r]
  BY <1>2, ServingRests
<1> QED
  BY <1>1, <1>4, <1>5

\* A row that wins takes over only from one it agrees with.
LEMMA ServedGains ==
  ASSUME Inv, NEW i, NEW r, NEW s, Heeds(i, r, s), NEW W, Some(W, r)
  PROVE  \/ ServedBy(W \union {i}, s).winner = ServedBy(W, r).winner
         \/ ServedBy(W \union {i}, s).winner = i /\ Agrees(ServedBy(W, r).winner, i)
<1> DEFINE V == W \union {i}
           A == {ij \in W \X W : Agrees(ij[1], ij[2])}
           B == {ij \in V \X V : Agrees(ij[1], ij[2])}
<1>1. /\ i \in Nat /\ r \in Nat /\ s \in Nat /\ r <= s /\ i = r + 1
      /\ i \in 1..s /\ i \notin 1..r /\ 1..r \subseteq 1..s
  BY HeedsIs
<1>2. W \subseteq 1..r /\ V \in SUBSET (1..s)
  BY <1>1 DEF Some
<1>3. /\ ServedBy(W, r).winner = Serving(W, A, r)[r]
      /\ ServedBy(V, s).winner = Serving(V, B, s)[s]
  BY ServedIs
<1>4. Alike(W, A, V, B, r)
  <2>1. \A j \in 1..r : j \in W <=> j \in V
    BY <1>1
  <2> HIDE DEF V
  <2> QED
    BY <2>1 DEF Alike
<1>5. ServedBy(W, r).winner # 0
  BY <1>1, ServedLands
<1>6. \A n \in (i + 1)..s : n \notin V
  BY <1>1, <1>2
<1>7. \A j : <<j, i>> \in B => Agrees(j, i)
  OBVIOUS
<1> HIDE DEF A, B, V
<1>8. Serving(W, A, r)[r] = Serving(V, B, s)[r]
  BY <1>1, <1>2, <1>4, ServingSame
<1>9. Serving(V, B, s)[s] = Serving(V, B, s)[i]
  <2>1. i <= s
    BY <1>1
  <2> QED
    BY <1>1, <1>6, <2>1, ServingRests
<1>10. Serving(V, B, s)[i] = Serving(V, B, s)[r]
       \/ (Serving(V, B, s)[i] = i /\ <<Serving(V, B, s)[r], i>> \in B)
  <2>1. i - 1 = r /\ Serving(V, B, s)[r] # 0
    BY <1>1, <1>3, <1>5, <1>8
  <2>2. Serving(V, B, s)[i] =
          IF i \in V /\ (Serving(V, B, s)[i - 1] = 0 \/ <<Serving(V, B, s)[i - 1], i>> \in B)
          THEN i ELSE Serving(V, B, s)[i - 1]
    BY <1>1, ServingIs
  <2> QED
    BY <2>1, <2>2
<1>11. \/ ServedBy(V, s).winner = ServedBy(W, r).winner
       \/ ServedBy(V, s).winner = i /\ Agrees(ServedBy(W, r).winner, i)
  BY <1>3, <1>7, <1>8, <1>9, <1>10
<1> QED
  BY <1>11 DEF V

\* Classes unchanged weigh the same, with whatever was said since.
LEMMA WeighedHeld ==
  ASSUME Inv, NEW i, NEW r, NEW s, Heeds(i, r, s), NEW S, Some(S, r)
  PROVE  ByClass(S, s) = ByClass(S, r) /\ Weighed(S, s).winner = Weighed(S, r).winner
<1> DEFINE classes == ByClass(S, r)
           winners == {WinnerOf(c) : c \in classes}
<1>1. ByClass(S, s) = classes
  <2>1. \A j \in S : SourceClass(j, s) = SourceClass(j, r)
    BY HeedsStay DEF Some
  <2> DEFINE old == [j \in S |-> SourceClass(j, r)]
             new == [j \in S |-> SourceClass(j, s)]
             of(f, c) == {j \in S : f[j] = c}
  <2>2. old = new
    BY <2>1
  <2>3. /\ ByClass(S, r) = {of(old, c) : c \in {old[j] : j \in S}}
        /\ ByClass(S, s) = {of(new, c) : c \in {new[j] : j \in S}}
    BY DEF ByClass
  <2> HIDE DEF old, new, of
  <2> QED
    BY <2>2, <2>3
<1>2. r \in 0..Len(log) /\ classes # {} /\ \A c \in classes : Some(c, r)
  BY HeedsIs, ClassesAre
<1>3. \A t : ByClass(S, t) = classes =>
        Weighed(S, t) = IF TornIn(classes) # {} THEN TornBy(FirstSeen(TornIn(classes)))
                        ELSE ServedBy(winners, t)
  BY DEF Weighed, WeighedBy, WinnerOf
<1> HIDE DEF classes
<1>4. Some(winners, r)
  <2>1. \A c \in classes : WinnerOf(c) \in c
    BY <1>2, WinnerIs
  <2> QED
    BY <1>2, <2>1 DEF Some
<1> HIDE DEF winners
<1>5. ServedBy(winners, s).winner = ServedBy(winners, r).winner
  BY <1>4, HeedsIs, ServedHeld
<1>6. /\ Weighed(S, s) = IF TornIn(classes) # {} THEN TornBy(FirstSeen(TornIn(classes)))
                         ELSE ServedBy(winners, s)
      /\ Weighed(S, r) = IF TornIn(classes) # {} THEN TornBy(FirstSeen(TornIn(classes)))
                         ELSE ServedBy(winners, r)
  BY <1>1, <1>3 DEF classes
<1> QED
  BY <1>1, <1>5, <1>6 DEF classes

\* A row of its own class: the class, and what it gives.
LEMMA NewcomerIs ==
  ASSUME Inv, NEW i, NEW r, NEW s, Heeds(i, r, s), NEW S, Some(S, r),
         SourceClass(i, s) \notin {SourceClass(j, r) : j \in S}
  PROVE  /\ ByClass(S \union {i}, s) = ByClass(S, r) \union {{i}}
         /\ ~Contradict(States(LatestAt({i}))) /\ WinnerOf({i}) = i
<1>1. i \notin S /\ \A j \in S : SourceClass(j, s) = SourceClass(j, r)
  BY HeedsIs, HeedsStay DEF Some
<1>2. ByClass(S \union {i}, s) = ByClass(S, r) \union {{i}}
  <2> DEFINE old == [j \in S |-> SourceClass(j, r)]
             new == [j \in S \union {i} |-> SourceClass(j, s)]
             before(c) == {j \in S : old[j] = c}
             after(c) == {j \in S \union {i} : new[j] = c}
  <2>1. /\ ByClass(S, r) = {before(c) : c \in {old[j] : j \in S}}
        /\ ByClass(S \union {i}, s) = {after(c) : c \in {new[j] : j \in S \union {i}}}
    BY DEF ByClass
  <2>2. \A j \in S : new[j] = old[j] /\ new[i] # old[j]
    BY <1>1
  <2> HIDE DEF old, new
  <2>3. \A j \in S : after(new[j]) = before(old[j])
    BY <2>2
  <2>4. after(new[i]) = {i}
    BY <1>1, <2>2
  <2> HIDE DEF before, after
  <2>5. {new[j] : j \in S \union {i}} = {old[j] : j \in S} \union {new[i]}
    BY <2>2
  <2>6. \A c \in {old[j] : j \in S} : after(c) = before(c)
    BY <2>2, <2>3
  <2>7. {after(c) : c \in {old[j] : j \in S} \union {new[i]}}
          = {before(c) : c \in {old[j] : j \in S}} \union {{i}}
    BY <2>4, <2>6
  <2> QED
    BY <2>1, <2>5, <2>7
<1>3. Some({i}, s) /\ s \in 0..Len(log)
  BY HeedsIs DEF Some
<1>4. ~Contradict(States(LatestAt({i})))
  BY DEF Contradict, States, LatestAt
<1>5. WinnerOf({i}) = i
  BY <1>3, WinnerIs
<1> QED
  BY <1>2, <1>4, <1>5

\* A row of a class not heard before is served only if it agrees with what was served.
LEMMA WeighedGains ==
  ASSUME Inv, NEW i, NEW r, NEW s, Heeds(i, r, s), NEW S, Some(S, r),
         SourceClass(i, s) \notin {SourceClass(j, r) : j \in S}
  PROVE  \/ Weighed(S \union {i}, s).winner = Weighed(S, r).winner
         \/ Weighed(S \union {i}, s).winner = i /\ Agrees(Weighed(S, r).winner, i)
<1> DEFINE classes == ByClass(S, r)
           more == classes \union {{i}}
           winners == {WinnerOf(c) : c \in classes}
<1>1. /\ ByClass(S \union {i}, s) = more
      /\ ~Contradict(States(LatestAt({i}))) /\ WinnerOf({i}) = i
  BY NewcomerIs
<1>2. r \in 0..Len(log) /\ classes # {} /\ \A c \in classes : Some(c, r)
  BY HeedsIs, ClassesAre
<1>3. /\ Weighed(S, r) = IF TornIn(classes) # {} THEN TornBy(FirstSeen(TornIn(classes)))
                         ELSE ServedBy(winners, r)
      /\ Weighed(S \union {i}, s) =
           IF TornIn(more) # {} THEN TornBy(FirstSeen(TornIn(more)))
           ELSE ServedBy({WinnerOf(c) : c \in more}, s)
  BY <1>1 DEF Weighed, WeighedBy, WinnerOf
<1> HIDE DEF classes
<1>4. TornIn(more) = TornIn(classes)
  BY <1>1 DEF TornIn
<1>5. {WinnerOf(c) : c \in more} = winners \union {i}
  <2>1. \A c : c \in more <=> c \in classes \/ c = {i}
    OBVIOUS
  <2>2. WinnerOf({i}) = i
    BY <1>1
  <2>3. {WinnerOf(c) : c \in more} \subseteq winners \union {i}
    BY <2>1, <2>2
  <2>4. winners \union {i} \subseteq {WinnerOf(c) : c \in more}
    BY <2>1, <2>2
  <2> QED
    BY <2>3, <2>4
<1>6. Some(winners, r)
  <2>1. \A c \in classes : WinnerOf(c) \in c
    BY <1>2, WinnerIs
  <2> QED
    BY <1>2, <2>1 DEF Some
<1> HIDE DEF winners, more
<1>7. \/ ServedBy(winners \union {i}, s).winner = ServedBy(winners, r).winner
      \/ /\ ServedBy(winners \union {i}, s).winner = i
         /\ Agrees(ServedBy(winners, r).winner, i)
  BY <1>6, ServedGains
<1> QED
  BY <1>3, <1>4, <1>5, <1>7

\* The best evidence, with one row more.
LEMMA TopGains ==
  ASSUME NEW S, NEW i, TopEvidence(S) # {}
  PROVE  \/ TopEvidence(S \union {i}) = TopEvidence(S)
         \/ TopEvidence(S \union {i}) = TopEvidence(S) \union {i}
         \/ /\ TopEvidence(S \union {i}) = {i}
            /\ \A j \in TopEvidence(S) : Rank(j) < Rank(i)
<1>1. \A j : Rank(j) \in Int
  BY DEF Rank
<1>2. PICK top \in TopEvidence(S) : TRUE
  OBVIOUS
<1>3. top \in S /\ \A j \in S : Rank(j) <= Rank(top)
  BY DEF TopEvidence
<1>4. \A j : j \in TopEvidence(S) <=> j \in S /\ Rank(j) = Rank(top)
  <2>1. \A j \in S : Rank(j) = Rank(top) => \A k \in S : Rank(k) <= Rank(j)
    BY <1>3
  <2>2. \A j \in TopEvidence(S) : j \in S /\ Rank(j) = Rank(top)
    BY <1>1, <1>3 DEF TopEvidence
  <2> QED
    BY <2>1, <2>2 DEF TopEvidence
<1>5. CASE Rank(i) < Rank(top)
  <2>1. \A j \in S \union {i} : Rank(j) <= Rank(top)
    BY <1>1, <1>3, <1>5
  <2>2. \A j : j \in TopEvidence(S \union {i}) <=> j \in S \union {i} /\ Rank(j) = Rank(top)
    BY <1>1, <1>3, <2>1 DEF TopEvidence
  <2>3. Rank(i) # Rank(top)
    BY <1>1, <1>5
  <2>4. TopEvidence(S \union {i}) = TopEvidence(S)
    BY <1>4, <2>2, <2>3
  <2> QED
    BY <2>4
<1>6. CASE Rank(i) = Rank(top)
  <2>1. \A j \in S \union {i} : Rank(j) <= Rank(top)
    BY <1>1, <1>3, <1>6
  <2>2. \A j : j \in TopEvidence(S \union {i}) <=> j \in S \union {i} /\ Rank(j) = Rank(top)
    BY <1>1, <1>3, <2>1 DEF TopEvidence
  <2>3. TopEvidence(S \union {i}) = TopEvidence(S) \union {i}
    BY <1>4, <1>6, <2>2
  <2> QED
    BY <2>3
<1>7. CASE Rank(top) < Rank(i)
  <2>1. \A j \in S : Rank(j) < Rank(i)
    BY <1>1, <1>3, <1>7
  <2>2. TopEvidence(S \union {i}) = {i}
    <3>1. \A j \in S : ~(Rank(i) <= Rank(j)) /\ Rank(j) <= Rank(i)
      BY <1>1, <2>1
    <3>2. Rank(i) <= Rank(i)
      BY <1>1
    <3> QED
      BY <3>1, <3>2 DEF TopEvidence
  <2>3. \A j \in TopEvidence(S) : Rank(j) < Rank(i)
    BY <2>1 DEF TopEvidence
  <2> QED
    BY <2>2, <2>3
<1> QED
  BY <1>1, <1>5, <1>6, <1>7

\* What serves a key by class, and that it stands.
LEMMA ClassServes ==
  ASSUME Inv, NEW t \in 0..Len(log), NEW x, policy = "by_class", FoldKey(x, t).winner # 0
  PROVE  /\ Live(x, t) # {} /\ FoldKey(x, t).winner \in Live(x, t)
         /\ Fixed(x, t) # {} => FoldKey(x, t) = Structural(TopEvidence(Fixed(x, t)))
         /\ Fixed(x, t) = {} =>
              /\ FoldKey(x, t) = Weighed(TopEvidence(Live(x, t)), t)
              /\ FoldKey(x, t).winner \in TopEvidence(Live(x, t))
<1>1. Live(x, t) # {}
  BY FoldIs, ResultIs
<1>2. /\ Fixed(x, t) # {} => FoldKey(x, t) = Structural(TopEvidence(Fixed(x, t)))
      /\ Fixed(x, t) = {} => FoldKey(x, t) = Weighed(TopEvidence(Live(x, t)), t)
  BY <1>1, FoldIs
<1>3. CASE Fixed(x, t) # {}
  <2>1. Some(TopEvidence(Fixed(x, t)), t) /\ TopEvidence(Fixed(x, t)) \subseteq Fixed(x, t)
        /\ Fixed(x, t) \subseteq Live(x, t)
    BY <1>3, BestIs
  <2>2. FoldKey(x, t).winner \in Live(x, t)
    BY <1>2, <1>3, <2>1, StructuralLands DEF Lands
  <2> QED
    BY <1>1, <1>2, <1>3, <2>2
<1>4. CASE Fixed(x, t) = {}
  <2>1. Some(TopEvidence(Live(x, t)), t) /\ TopEvidence(Live(x, t)) \subseteq Live(x, t)
    BY <1>1, BestIs
  <2>2. FoldKey(x, t).winner \in TopEvidence(Live(x, t))
    BY <1>2, <1>4, <2>1, WeighedLands DEF Lands
  <2> QED
    BY <1>1, <1>2, <1>4, <2>1, <2>2
<1> QED
  BY <1>3, <1>4

\* One more word changes what a key serves only to better evidence, or to a refinement,
\* or on the word of a source heard on it before.
LEMMA AnswersAreEarned == Inv => AnswerIsEarned
<1> SUFFICES ASSUME Inv, NEW x \in Subjects, NEW i \in DOMAIN log, Changes(x, i)
             PROVE  LET old == Served(x, i - 1)
                        new == Served(x, Sourced(i))
                    IN \/ new.rank > old.rank
                       \/ /\ new.rank = old.rank
                          /\ Refined(x, i) \/ SourceClass(i, Sourced(i)) \in Heard(x, i - 1)
  BY DEF AnswerIsEarned
<1> DEFINE r == i - 1
           s == Sourced(i)
           old == FoldKey(x, r).winner
           new == FoldKey(x, s).winner
           best == TopEvidence(Live(x, r))
<1>1. /\ policy = "by_class" /\ log[i].kind = "fact" /\ Durability(i) # "CONSTITUTIVE"
      /\ old # 0 /\ log[old].type # "unresolved" /\ new # 0
      /\ ValueKey(old) # ValueKey(new)
  BY DEF Changes, Served
<1>2. Heeds(i, r, s)
  <2>1. i \in Nat /\ Len(log) \in Nat /\ DOMAIN log = 1..Len(log)
    BY LogFacts
  <2>2. CASE i < Len(log) /\ log[i + 1].kind = "source" /\ log[i + 1].about = i
    <3>1. s = i + 1
      BY <2>2 DEF Sourced
    <3>2. i + 1 \in DOMAIN log
      BY <2>1, <2>2
    <3> QED
      BY <1>1, <2>2, <3>1, <3>2 DEF Heeds
  <2>3. CASE ~(i < Len(log) /\ log[i + 1].kind = "source" /\ log[i + 1].about = i)
    <3>1. s = i
      BY <2>3 DEF Sourced
    <3> QED
      BY <1>1, <3>1 DEF Heeds
  <2> QED
    BY <2>2, <2>3
<1>3. /\ Served(x, r).rank = Rank(old) /\ Served(x, r).literal = log[old].value
      /\ Served(x, s).rank = Rank(new) /\ Served(x, s).literal = log[new].value
      /\ Heard(x, r) = {SourceClass(j, r) : j \in best}
  BY DEF Served, Heard, Live
<1> SUFFICES \/ Rank(new) > Rank(old)
             \/ /\ Rank(new) = Rank(old)
                /\ \/ <<log[old].value, log[new].value>> \in Refinements
                   \/ SourceClass(i, s) \in {SourceClass(j, r) : j \in best}
  BY <1>3 DEF Refined
<1> HIDE DEF r, s
<1>4. r \in 0..Len(log) /\ s \in 0..Len(log)
  BY <1>2, HeedsIs
<1>5. /\ Live(x, r) # {} /\ old \in Live(x, r)
      /\ Fixed(x, r) # {} => FoldKey(x, r) = Structural(TopEvidence(Fixed(x, r)))
      /\ Fixed(x, r) = {} => FoldKey(x, r) = Weighed(best, r) /\ old \in best
  BY <1>1, <1>4, ClassServes
<1>6. /\ Live(x, s) # {} /\ new \in Live(x, s)
      /\ Fixed(x, s) # {} => FoldKey(x, s) = Structural(TopEvidence(Fixed(x, s)))
      /\ Fixed(x, s) = {} => /\ FoldKey(x, s) = Weighed(TopEvidence(Live(x, s)), s)
                            /\ new \in TopEvidence(Live(x, s))
  BY <1>1, <1>4, ClassServes
<1>7. Live(x, s) = Live(x, r) \/ Live(x, s) = Live(x, r) \union {i}
  BY <1>1, <1>2, <1>5, LiveGains
<1>8. Fixed(x, s) = Fixed(x, r)
  BY <1>1, <1>7 DEF Fixed
<1>9. Fixed(x, r) = {}
  <2>1. Fixed(x, r) # {} => old = new
    BY <1>5, <1>6, <1>8
  <2> QED
    BY <1>1, <2>1
<1>10. Some(best, r)
  BY <1>4, <1>5, BestIs
<1>11. old = Weighed(best, r).winner /\ old \in best
  BY <1>5, <1>9
<1>12. new = Weighed(TopEvidence(Live(x, s)), s).winner /\ new \in TopEvidence(Live(x, s))
  BY <1>6, <1>8, <1>9
<1> HIDE DEF old, new
<1>13. CASE TopEvidence(Live(x, s)) = best
  <2>1. new = old
    BY <1>2, <1>10, <1>11, <1>12, <1>13, WeighedHeld
  <2> QED
    BY <1>1, <2>1
<1>14. CASE /\ TopEvidence(Live(x, s)) = {i}
            /\ \A j \in best : Rank(j) < Rank(i)
  <2>1. new = i /\ Rank(old) < Rank(i) /\ Rank(i) \in Int /\ Rank(old) \in Int
    BY <1>11, <1>12, <1>14 DEF Rank
  <2> QED
    BY <2>1
<1>15. CASE TopEvidence(Live(x, s)) = best \union {i}
  <2>1. Rank(new) = Rank(old)
    <3>1. \A j, k \in TopEvidence(Live(x, s)) : Rank(j) <= Rank(k)
      BY DEF TopEvidence
    <3>2. Rank(new) <= Rank(old) /\ Rank(old) <= Rank(new)
      BY <1>11, <1>12, <1>15, <3>1
    <3> QED
      BY <3>2 DEF Rank
  <2>2. CASE SourceClass(i, s) \in {SourceClass(j, r) : j \in best}
    BY <2>1, <2>2
  <2>3. CASE SourceClass(i, s) \notin {SourceClass(j, r) : j \in best}
    <3> HIDE DEF best
    <3>1. new = old \/ (new = i /\ Agrees(old, i))
      BY <1>2, <1>10, <1>11, <1>12, <1>15, <2>3, WeighedGains
    <3>2. <<log[old].value, log[new].value>> \in Refinements
      BY <1>1, <3>1 DEF Agrees
    <3> QED
      BY <2>1, <3>2
  <2> QED
    BY <2>2, <2>3
<1>16. \/ TopEvidence(Live(x, s)) = best
       \/ TopEvidence(Live(x, s)) = best \union {i}
       \/ TopEvidence(Live(x, s)) = {i} /\ \A j \in best : Rank(j) < Rank(i)
  <2>1. best # {}
    BY <1>10 DEF Some
  <2> QED
    BY <1>7, <2>1, TopGains
<1> QED
  BY <1>13, <1>14, <1>15, <1>16

\* Time decides where a thing is, one document is one voice, and an answer that changes
\* is earned: what a key serves weighs who said it, and when, as much as it should.
THEOREM SourcesAreWeighed == Spec => []SourcesWeighRight
<1>1. Inv => SourcesWeighRight
  BY MovesRight, DocumentsAreOne, AnswersAreEarned DEF SourcesWeighRight
<1> QED
  BY <1>1, Invariance, PTL

=============================================================================
