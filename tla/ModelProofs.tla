---------------------------- MODULE ModelProofs ----------------------------
(***************************************************************************)
(* Theorems about the two callers of the model, for every answer it gives: *)
(* Classifier for every set of rows, attributes and answers, Resolver for  *)
(* every set of keys, and both for every bound.                            *)
(*                                                                         *)
(* The classifier: what a guardrail says of a row is a function of the     *)
(* rows up to it, except for what a pin says, and a pin comes before the   *)
(* data it pins (PinsFirst).  So a verdict that was lawful when it was     *)
(* stored (Lawful) stays so while rows are added behind it, and in a       *)
(* unit's saved state, which is an earlier log with its verdicts           *)
(* (UnitInv), when rows are taken away.                                    *)
(*                                                                         *)
(* The resolver: a thunk is forced only while it has no marker, and by one *)
(* call at a time, so that what the call has made so far is exactly what   *)
(* the log holds of it (CallInv); the marker then names all of it, and     *)
(* closes the thunk (MarkInv).  A placeholder of the resolver's own is     *)
(* unmarked only inside the unit that planted it (PlantInv), so that what  *)
(* a failure leaves has its marker.  Answers are memos of durable markers, *)
(* mirrored where they were perceived (AnswerInv).                         *)
(***************************************************************************)
EXTENDS Classifier, Resolver, Numbers, FiniteSetTheorems

-----------------------------------------------------------------------------
(* The classifier: its inductive invariant, by parts.                      *)

\* Rows are what calls write and retractions.
Retraction ==
  [entity : {"row"}, attribute : {"retracts"}, value : Nat, type : {"literal"}, at : {NoTime}]
Verdicts(L, judged, seen, by) ==
  /\ L \in Seq(Kinds \union Retraction)
  /\ DOMAIN judged \subseteq DOMAIN L /\ seen \subseteq DOMAIN L /\ by \subseteq DOMAIN L
TypeInv == Verdicts(facts, sidecar, sure, told)

\* A pin is written before its attribute has data.
PinsFirst ==
  \A i, j \in DOMAIN facts :
    facts[j].attribute = "durability" /\ facts[j].entity = facts[i].attribute => j <= i

\* A verdict row i may have, when it is the model's own word at the floor or not.
Lawful(i, d, own) ==
  ~Pinned(i) =>
    IF Guarded(i)
    THEN \/ d = Guardrails(i).durability
         \/ Guardrails(i).durability = "STATE" /\ d = "DISPOSITIONAL"
    ELSE /\ d \in Standing
         /\ d = "CONSTITUTIVE" /\ facts[i].attribute \in Containment => own
LawInv == \A i \in DOMAIN sidecar \ told : Lawful(i, sidecar[i], i \in sure)

\* What a unit goes back to is an earlier log, and the verdicts it had.
Saved == unit[1]
UnitInv ==
  unit # <<>> =>
    /\ Verdicts(Saved.facts, Saved.sidecar, Saved.sure, Saved.told)
    /\ Len(Saved.facts) <= Len(facts)
    /\ \A i \in DOMAIN Saved.facts : facts[i] = Saved.facts[i]
    /\ \A i \in DOMAIN Saved.sidecar \ Saved.told :
         Lawful(i, Saved.sidecar[i], i \in Saved.sure)

ClassifierInv == TypeInv /\ PinsFirst /\ LawInv /\ UnitInv /\ MemoIsSidecar

-----------------------------------------------------------------------------
(* Rows and their guardrails.                                              *)

\* Where the log stands as one extends the other.
Extends == Len(facts) <= Len(facts') /\ \A i \in DOMAIN facts : facts'[i] = facts[i]

\* What is declared of a row is declared up to it: the fixture in force.
LEMMA FixtureStays ==
  ASSUME facts \in Seq(Kinds \union Retraction), facts' \in Seq(Kinds \union Retraction),
         NEW i \in DOMAIN facts, i \in DOMAIN facts',
         \A j \in 1..i : facts'[j] = facts[j]
  PROVE  DeclaredFixture(i)' = DeclaredFixture(i)
<1>1. i \in Nat /\ i \in 1..i
  OBVIOUS
<1>2. \A j \in 1..i : Retracted(j, i)' <=> Retracted(j, i)
  BY DEF Retracted
<1>3. InForce(i, i)' = InForce(i, i)
  BY <1>1, <1>2 DEF InForce
<1>4. InForce(i, i) \in SUBSET (1..i)
  BY DEF InForce
<1>5. CASE InForce(i, i) = {}
  BY <1>3, <1>5 DEF DeclaredFixture
<1>6. CASE InForce(i, i) # {}
  <2>1. Max(InForce(i, i)) \in 1..i
    BY <1>1, <1>4, <1>6, MaxIs
  <2>2. facts'[Max(InForce(i, i))] = facts[Max(InForce(i, i))]
    BY <2>1
  <2> QED
    BY <1>3, <2>2 DEF DeclaredFixture
<1> QED
  BY <1>5, <1>6

\* A row that is not pinned has no pin's verdict.
LEMMA NoPin ==
  ASSUME NEW i \in DOMAIN facts, ~Pinned(i)
  PROVE  Pin(facts[i].attribute) = "none"
BY DEF Pin, Pinned

\* Whether a row is pinned is settled by the rows up to it.
LEMMA PinnedStays ==
  ASSUME facts \in Seq(Kinds \union Retraction), facts' \in Seq(Kinds \union Retraction),
         PinsFirst, PinsFirst',
         NEW i \in DOMAIN facts, i \in DOMAIN facts',
         \A j \in 1..i : facts'[j] = facts[j]
  PROVE  Pinned(i)' <=> Pinned(i)
<1>1. i \in 1..i /\ 1..i \subseteq DOMAIN facts /\ 1..i \subseteq DOMAIN facts'
  OBVIOUS
<1>2. \A j \in DOMAIN facts :
        facts[j].attribute = "durability" /\ facts[j].entity = facts[i].attribute => j \in 1..i
  BY DEF PinsFirst
<1>3. \A j \in DOMAIN facts' :
        facts'[j].attribute = "durability" /\ facts'[j].entity = facts'[i].attribute => j \in 1..i
  BY DEF PinsFirst
<1> QED
  BY <1>1, <1>2, <1>3 DEF Pinned

\* So is what its guardrails say, unless it is pinned.
LEMMA GuardStays ==
  ASSUME facts \in Seq(Kinds \union Retraction), facts' \in Seq(Kinds \union Retraction),
         PinsFirst, PinsFirst',
         NEW i \in DOMAIN facts, i \in DOMAIN facts',
         \A j \in 1..i : facts'[j] = facts[j],
         ~Pinned(i)
  PROVE  Guardrails(i)' = Guardrails(i)
<1>1. facts'[i] = facts[i]
  OBVIOUS
<1>2. DeclaredFixture(i)' = DeclaredFixture(i)
  BY FixtureStays
<1>3. Pin(facts[i].attribute) = "none"
  BY NoPin
<1>4. Pin(facts[i].attribute)' = "none"
  BY PinnedStays, NoPin DEF Pin, Pinned
<1>5. Rules(i)' = Rules(i)
  BY <1>1, <1>2, <1>3, <1>4 DEF Rules
<1> QED
  BY <1>5 DEF Guardrails

\* So is what verdicts it may have.
LEMMA LawfulStays ==
  ASSUME facts \in Seq(Kinds \union Retraction), facts' \in Seq(Kinds \union Retraction),
         PinsFirst, PinsFirst',
         NEW i \in DOMAIN facts, i \in DOMAIN facts',
         \A j \in 1..i : facts'[j] = facts[j]
  PROVE  \A d, own : Lawful(i, d, own)' <=> Lawful(i, d, own)
<1>1. CASE Pinned(i)
  BY <1>1, PinnedStays DEF Lawful
<1>2. CASE ~Pinned(i)
  BY <1>2, PinnedStays, GuardStays DEF Lawful, Guarded, Silent
<1> QED
  BY <1>1, <1>2

\* What the model said, at the floor, makes a word of its own.
Own(a) == a.durability = "CONSTITUTIVE" /\ a.confidence = Floor

\* Every path judges lawfully: one by one, in a batch, and by the rules alone.
LEMMA JudgedLawfully ==
  ASSUME NEW i \in DOMAIN facts
  PROVE  /\ \A a \in Answers \union {Silent} :
              /\ Lawful(i, JudgeOne(i, a).durability, Own(a))
              /\ Lawful(i, JudgeBatch(i, a).durability, Own(a))
         /\ \A own : Lawful(i, JudgeByRules(i).durability, own)
<1> DEFINE Loose(v, a) ==
             /\ v.durability \in Standing
             /\ v.durability = "CONSTITUTIVE" /\ facts[i].attribute \in Containment => Own(a)
<1>1. ASSUME NEW a \in Answers \union {Silent}
      PROVE  Loose(Floored(i, Said(i, a)), a)
  <2>1. CASE a.durability \in Standing
    <3>1. a.confidence \in 1..4
      BY <1>1, <2>1, ClassifierConstants DEF Silent, Verdict, Standing
    <3>2. CASE a.durability = "CONSTITUTIVE" /\ a.confidence < Floor /\ facts[i].attribute \in Containment
      <4>1. Floored(i, Said(i, a)) = [a EXCEPT !.durability = "STATE"]
        BY <2>1, <3>2 DEF Floored, Said
      <4>2. a \in Answers
        BY <1>1, <2>1 DEF Silent, Verdict, Standing
      <4> QED
        BY <4>1, <4>2, <3>2, ClassifierConstants DEF Standing
    <3>3. CASE ~(a.durability = "CONSTITUTIVE" /\ a.confidence < Floor /\ facts[i].attribute \in Containment)
      <4>1. Floored(i, Said(i, a)) = a
        BY <2>1, <3>3 DEF Floored, Said
      <4> QED
        BY <4>1, <2>1, <3>1, <3>3 DEF Own, Floor
    <3> QED
      BY <3>2, <3>3
  <2>2. CASE a.durability \notin Standing
    <3>1. CASE facts[i].attribute \in Containment
      <4>1. Default(i) = [durability |-> "CONSTITUTIVE", confidence |-> 1]
        BY <3>1 DEF Default, Verdict
      <4>2. Floored(i, Said(i, a)) = [Default(i) EXCEPT !.durability = "STATE"]
        BY <2>2, <3>1, <4>1 DEF Floored, Said, Floor
      <4> QED
        BY <4>1, <4>2 DEF Standing
    <3>2. CASE facts[i].attribute \notin Containment
      BY <2>2, <3>2 DEF Floored, Said, Default, Verdict, Standing
    <3> QED
      BY <3>1, <3>2
  <2> QED
    BY <2>1, <2>2
<1>2. \A a \in Answers \union {Silent} :
        /\ Lawful(i, JudgeOne(i, a).durability, Own(a))
        /\ Lawful(i, JudgeBatch(i, a).durability, Own(a))
  <2>1. SUFFICES ASSUME NEW a \in Answers \union {Silent}
                 PROVE  /\ Lawful(i, JudgeOne(i, a).durability, Own(a))
                        /\ Lawful(i, JudgeBatch(i, a).durability, Own(a))
    OBVIOUS
  <2>2. CASE Guarded(i)
    BY <2>2 DEF Lawful, JudgeOne, JudgeBatch
  <2>3. CASE ~Guarded(i)
    <3>1. JudgeOne(i, a) = Floored(i, Said(i, a)) /\ JudgeBatch(i, a) = Floored(i, Said(i, a))
      BY <2>3 DEF JudgeOne, JudgeBatch
    <3>2. Loose(Floored(i, Said(i, a)), a)
      BY <1>1
    <3>3. Lawful(i, Floored(i, Said(i, a)).durability, Own(a))
      BY <2>3, <3>2 DEF Lawful
    <3> QED
      BY <3>1, <3>3
  <2> QED
    BY <2>2, <2>3
<1>3. \A own : Lawful(i, JudgeByRules(i).durability, own)
  BY DEF Lawful, JudgeByRules, Verdict, Standing
<1> QED
  BY <1>2, <1>3

-----------------------------------------------------------------------------
(* Every step keeps the invariant.                                         *)

\* The empty log has it.
LEMMA ClassifierInitHolds == ClassifierInit => ClassifierInv
BY DEF ClassifierInit, ClassifierInv, TypeInv, Verdicts, PinsFirst, LawInv, UnitInv, MemoIsSidecar

\* Adding a row at the end disturbs no verdict.
LEMMA GrowKeeps ==
  ASSUME ClassifierInv, NEW r \in Kinds \union Retraction, facts' = Append(facts, r),
         r.attribute = "durability" => \A j \in DOMAIN facts : facts[j].attribute # r.entity,
         memo' = <<>>, UNCHANGED <<sidecar, unit, sure, told>>
  PROVE  ClassifierInv'
<1> USE DEF ClassifierInv
<1>1. facts \in Seq(Kinds \union Retraction) /\ facts' \in Seq(Kinds \union Retraction)
  BY DEF TypeInv, Verdicts
<1>2. /\ Len(facts') = Len(facts) + 1 /\ facts'[Len(facts) + 1] = r
      /\ \A i \in DOMAIN facts : i \in DOMAIN facts' /\ facts'[i] = facts[i]
  BY <1>1
<1>3. DOMAIN facts = 1..Len(facts) /\ DOMAIN facts' = 1..Len(facts) + 1 /\ Len(facts) \in Nat
  BY <1>1, <1>2
<1>4. TypeInv'
  BY <1>1, <1>2 DEF TypeInv, Verdicts
<1>5. PinsFirst'
  BY <1>2, <1>3 DEF PinsFirst
<1>6. ASSUME NEW i \in DOMAIN facts
      PROVE  \A d, own : Lawful(i, d, own)' <=> Lawful(i, d, own)
  <2>1. \A j \in 1..i : facts'[j] = facts[j]
    BY <1>2, <1>3
  <2> QED
    BY <1>1, <1>2, <1>5, <2>1, LawfulStays
<1>7. LawInv'
  <2>1. DOMAIN sidecar \subseteq DOMAIN facts
    BY DEF TypeInv, Verdicts
  <2> QED
    BY <1>6, <2>1 DEF LawInv
<1>8. UnitInv'
  <2> SUFFICES ASSUME unit # <<>> PROVE UnitInv'
    BY DEF UnitInv
  <2>1. DOMAIN Saved.sidecar \subseteq DOMAIN Saved.facts /\ DOMAIN Saved.facts \subseteq DOMAIN facts
    BY <1>1, <1>3 DEF UnitInv, Verdicts
  <2>2. /\ Verdicts(Saved.facts, Saved.sidecar, Saved.sure, Saved.told)'
        /\ Saved' = Saved
    BY DEF UnitInv, Saved, Verdicts
  <2>3. Len(Saved.facts) <= Len(facts')
    BY <1>2, <1>3 DEF UnitInv, Verdicts
  <2>4. \A i \in DOMAIN Saved.facts : facts'[i] = Saved.facts[i]
    BY <1>2, <2>1 DEF UnitInv
  <2>5. \A i \in DOMAIN Saved.sidecar \ Saved.told :
          Lawful(i, Saved.sidecar[i], i \in Saved.sure)'
    BY <1>6, <2>1, <2>2 DEF UnitInv
  <2> QED
    BY <2>2, <2>3, <2>4, <2>5 DEF UnitInv
<1>9. MemoIsSidecar'
  BY DEF MemoIsSidecar
<1> QED
  BY <1>4, <1>5, <1>7, <1>8, <1>9

\* What only the log and the unit decide.
LEMMA SameLog ==
  ASSUME ClassifierInv, UNCHANGED <<facts, unit>>
  PROVE  /\ PinsFirst' /\ UnitInv'
         /\ \A i \in DOMAIN facts : \A d, own : Lawful(i, d, own)' <=> Lawful(i, d, own)
<1> USE DEF ClassifierInv
<1>1. PinsFirst'
  BY DEF PinsFirst
<1>2. ASSUME NEW i \in DOMAIN facts
      PROVE  \A d, own : Lawful(i, d, own)' <=> Lawful(i, d, own)
  BY <1>1, LawfulStays DEF TypeInv, Verdicts
<1>3. UnitInv'
  <2> SUFFICES ASSUME unit # <<>> PROVE UnitInv'
    BY DEF UnitInv
  <2>1. DOMAIN Saved.sidecar \subseteq DOMAIN facts
    BY DEF UnitInv, Verdicts, TypeInv
  <2>2. Saved' = Saved
    BY DEF Saved
  <2> QED
    BY <1>2, <2>1, <2>2 DEF UnitInv, Verdicts
<1> QED
  BY <1>1, <1>2, <1>3

\* Nor does judging rows that were not judged, lawfully.
LEMMA StoreKeeps ==
  ASSUME ClassifierInv, NEW S \in SUBSET (DOMAIN facts), NEW verdicts, NEW answers,
         sidecar' = Over([i \in S |-> verdicts[i].durability], sidecar),
         sure' = (sure \ S) \union {i \in S : Own(answers[i])},
         told' = told \ S,
         memo' = IF S = {} THEN memo ELSE <<>>,
         \A i \in S : Lawful(i, verdicts[i].durability, Own(answers[i])),
         UNCHANGED <<facts, unit>>
  PROVE  ClassifierInv'
<1> USE DEF ClassifierInv
<1>1. DOMAIN sidecar' = S \union DOMAIN sidecar
  BY DEF Over
<1>2. \A i \in S : sidecar'[i] = verdicts[i].durability
  BY DEF Over
<1>3. \A i \in DOMAIN sidecar \ S : sidecar'[i] = sidecar[i]
  BY DEF Over
<1>4. TypeInv'
  BY <1>1 DEF TypeInv, Verdicts
<1>5. PinsFirst' /\ UnitInv'
  BY SameLog
<1>6. \A i \in DOMAIN facts : \A d, own : Lawful(i, d, own)' <=> Lawful(i, d, own)
  BY SameLog
<1>8. LawInv'
  <2>1. DOMAIN sidecar \subseteq DOMAIN facts
    BY DEF TypeInv, Verdicts
  <2>2. ASSUME NEW i \in S
        PROVE  Lawful(i, sidecar'[i], i \in sure')
    <3>1. (i \in sure') = Own(answers[i])
      BY DEF Own
    <3> QED
      BY <1>2, <3>1
  <2>3. ASSUME NEW i \in DOMAIN sidecar \ told, i \notin S
        PROVE  Lawful(i, sidecar'[i], i \in sure')
    <3>1. (i \in sure') = (i \in sure)
      BY <2>3
    <3> QED
      BY <1>3, <2>3, <3>1 DEF LawInv
  <2> QED
    BY <1>1, <1>6, <2>1, <2>2, <2>3 DEF LawInv
<1>9. MemoIsSidecar'
  <2>1. CASE S = {}
    BY <1>1, <1>3, <2>1 DEF MemoIsSidecar
  <2>2. CASE S # {}
    BY <2>2 DEF MemoIsSidecar
  <2> QED
    BY <2>1, <2>2
<1> QED
  BY <1>4, <1>5, <1>8, <1>9

\* A row is not a declaration of its own attribute unless it is one (Write's guard).
LEMMA WriteKeeps == ASSUME NEW k \in Kinds, ClassifierInv, Write(k) PROVE ClassifierInv'
<1>1. /\ facts' = Append(facts, k) /\ memo' = <<>> /\ UNCHANGED <<sidecar, unit, sure, told>>
      /\ k.attribute = "durability" => \A j \in DOMAIN facts : facts[j].attribute # k.entity
  BY DEF Write
<1> QED
  BY <1>1, GrowKeeps

LEMMA RetractKeeps ==
  ASSUME NEW j \in DOMAIN facts, ClassifierInv, Retract(j)
  PROVE  ClassifierInv'
<1> DEFINE r == [entity |-> "row", attribute |-> "retracts", value |-> j,
                 type |-> "literal", at |-> NoTime]
<1>1. j \in Nat
  BY DEF ClassifierInv, TypeInv, Verdicts
<1>2. r \in Kinds \union Retraction /\ r.attribute # "durability"
  BY <1>1 DEF Retraction
<1>3. facts' = Append(facts, r) /\ memo' = <<>> /\ UNCHANGED <<sidecar, unit, sure, told>>
  BY DEF Retract
<1> HIDE DEF r
<1> QED
  BY <1>2, <1>3, GrowKeeps

\* One row, judged by itself.
LEMMA ClassifyKeeps ==
  ASSUME ClassifierInv, NEW i \in DOMAIN facts, NEW answer \in Answers \union {Silent}, Classify(i, answer)
  PROVE  ClassifierInv'
<1> DEFINE S == {i}
           verdicts == [j \in S |-> JudgeOne(j, answer)]
           answers == [j \in S |-> answer]
<1>1. Store(S, verdicts, answers) /\ UNCHANGED <<facts, unit>>
  BY DEF Classify
<1>2. \A j \in S : Lawful(j, verdicts[j].durability, Own(answers[j]))
  BY JudgedLawfully
<1>3. S \in SUBSET (DOMAIN facts)
  OBVIOUS
<1> HIDE DEF S, verdicts, answers
<1> QED
  BY <1>1, <1>2, <1>3, StoreKeeps DEF Store, Own

\* Rows judged in batches, as far as the run came.
LEMMA ClassifyRowsKeeps ==
  ASSUME ClassifierInv, NEW m \in Nat, ClassifyRows(m)
  PROVE  ClassifierInv'
<1> DEFINE S == {i \in Unjudged : i > m}
<1>1. PICK done \in Prefixes(S), answers \in [S -> Answers \union {Silent}] :
        /\ Store(done, [i \in done |-> JudgeBatch(i, answers[i])], answers)
        /\ UNCHANGED <<facts, unit>>
  BY DEF ClassifyRows
<1> DEFINE verdicts == [i \in done |-> JudgeBatch(i, answers[i])]
<1>2. done \in SUBSET S /\ S \in SUBSET (DOMAIN facts)
  BY DEF Prefixes, Unjudged
<1>3. \A i \in done : Lawful(i, verdicts[i].durability, Own(answers[i]))
  <2> SUFFICES ASSUME NEW i \in done
               PROVE  Lawful(i, verdicts[i].durability, Own(answers[i]))
    OBVIOUS
  <2>1. i \in DOMAIN facts /\ answers[i] \in Answers \union {Silent}
    BY <1>2
  <2>2. Lawful(i, JudgeBatch(i, answers[i]).durability, Own(answers[i]))
    BY <2>1, JudgedLawfully
  <2> QED
    BY <2>2
<1> HIDE DEF S, verdicts
<1> QED
  BY <1>1, <1>2, <1>3, StoreKeeps DEF Store, Own, verdicts

\* Rows judged without the model.
LEMMA ByRulesKeeps ==
  ASSUME ClassifierInv, NEW m \in Nat, ClassifyByRules(m) \/ ClassifyGuarded(m)
  PROVE  ClassifierInv'
<1>1. PICK S \in SUBSET Unjudged :
        /\ Store(S, [i \in S |-> JudgeByRules(i)], [i \in S |-> Silent])
        /\ UNCHANGED <<facts, unit>>
  <2>1. CASE ClassifyByRules(m)
    BY <2>1 DEF ClassifyByRules
  <2>2. CASE ClassifyGuarded(m)
    BY <2>2 DEF ClassifyGuarded
  <2> QED
    BY <2>1, <2>2
<1> DEFINE verdicts == [i \in S |-> JudgeByRules(i)]
           answers == [i \in S |-> Silent]
<1>2. S \in SUBSET (DOMAIN facts)
  BY DEF Unjudged
<1>3. \A i \in S : Lawful(i, verdicts[i].durability, Own(answers[i]))
  BY <1>2, JudgedLawfully
<1>4. Store(S, verdicts, answers)
  BY <1>1
<1> HIDE DEF verdicts, answers
<1> QED
  BY <1>1, <1>2, <1>3, <1>4, StoreKeeps DEF Store, Own

\* An injected verdict is the component's to answer for.
LEMMA SetKeeps ==
  ASSUME ClassifierInv, NEW i \in DOMAIN facts, NEW d, Set(i, d)
  PROVE  ClassifierInv'
<1> USE DEF ClassifierInv, Set
<1>1. /\ DOMAIN sidecar' = {i} \union DOMAIN sidecar
      /\ \A j \in DOMAIN sidecar : j # i => sidecar'[j] = sidecar[j]
  BY DEF Over
<1>2. PinsFirst' /\ UnitInv'
  BY SameLog
<1>3. TypeInv'
  BY <1>1 DEF TypeInv, Verdicts
<1>4. LawInv'
  <2>1. SUFFICES ASSUME NEW j \in DOMAIN sidecar' \ told'
                 PROVE  Lawful(j, sidecar[j], j \in sure)' 
    BY DEF LawInv
  <2>2. j # i /\ j \in DOMAIN sidecar \ told /\ j \in DOMAIN facts
    BY <1>1 DEF TypeInv, Verdicts
  <2>3. sidecar'[j] = sidecar[j] /\ (j \in sure') = (j \in sure)
    BY <1>1, <2>2
  <2>4. Lawful(j, sidecar[j], j \in sure)
    BY <2>2 DEF LawInv
  <2> QED
    BY <2>2, <2>3, <2>4, SameLog
<1> QED
  BY <1>2, <1>3, <1>4 DEF MemoIsSidecar

\* A habit was a state.
LEMMA PromoteKeeps == ASSUME ClassifierInv, Promote PROVE ClassifierInv'
<1> USE DEF ClassifierInv
<1>1. PICK habits \in SUBSET Observed :
        /\ sidecar' = Over([i \in habits |-> "DISPOSITIONAL"], sidecar)
        /\ sure' = sure \ habits /\ told' = told \union (habits \ DOMAIN sidecar)
        /\ memo' = <<>> /\ UNCHANGED <<facts, unit>>
  BY DEF Promote
<1>2. /\ DOMAIN sidecar' = habits \union DOMAIN sidecar
      /\ \A j \in habits : sidecar'[j] = "DISPOSITIONAL"
      /\ \A j \in DOMAIN sidecar \ habits : sidecar'[j] = sidecar[j]
  BY <1>1 DEF Over
<1>3. habits \subseteq DOMAIN facts /\ \A j \in habits \intersect DOMAIN sidecar : sidecar[j] = "STATE"
  BY DEF Observed, Durability
<1>4. PinsFirst' /\ UnitInv'
  BY <1>1, SameLog
<1>5. TypeInv'
  BY <1>1, <1>2, <1>3 DEF TypeInv, Verdicts
<1>6. LawInv'
  <2>1. SUFFICES ASSUME NEW j \in DOMAIN sidecar' \ told'
                 PROVE  Lawful(j, sidecar[j], j \in sure)' 
    BY DEF LawInv
  <2>2. j \in DOMAIN sidecar \ told /\ j \in DOMAIN facts
    BY <1>1, <1>2 DEF TypeInv, Verdicts
  <2>3. Lawful(j, sidecar[j], j \in sure)
    BY <2>2 DEF LawInv
  <2>4. CASE j \in habits
    <3>1. Lawful(j, "STATE", j \in sure)
      BY <1>3, <2>2, <2>3, <2>4
    <3>2. Lawful(j, "DISPOSITIONAL", FALSE)
      BY <3>1 DEF Lawful, Standing
    <3>3. sidecar'[j] = "DISPOSITIONAL" /\ (j \in sure') = FALSE
      BY <1>1, <1>2, <2>4
    <3> QED
      BY <1>1, <2>2, <3>2, <3>3, SameLog
  <2>5. CASE j \notin habits
    <3>1. sidecar'[j] = sidecar[j] /\ (j \in sure') = (j \in sure)
      BY <1>1, <1>2, <2>2, <2>5
    <3> QED
      BY <1>1, <2>2, <2>3, <3>1, SameLog
  <2> QED
    BY <2>4, <2>5
<1> QED
  BY <1>1, <1>4, <1>5, <1>6 DEF MemoIsSidecar

\* Dropping the sidecar, reading, and the unit's two ends without a failure.
LEMMA OthersKeep ==
  ASSUME ClassifierInv,
         \/ Rebuild \/ BeginUnit \/ Commit
         \/ \E i \in DOMAIN facts : Get(i)
         \/ UNCHANGED classifierVars
  PROVE  ClassifierInv'
<1> USE DEF ClassifierInv
<1>1. CASE Rebuild
  <2>1. PinsFirst' /\ UnitInv'
    BY <1>1, SameLog DEF Rebuild
  <2> QED
    BY <1>1, <2>1 DEF Rebuild, TypeInv, Verdicts, LawInv, MemoIsSidecar
<1>2. ASSUME UNCHANGED <<facts, sidecar, sure, told>>
      PROVE  TypeInv' /\ PinsFirst' /\ LawInv'
  <2>1. TypeInv' /\ PinsFirst'
    BY <1>2 DEF TypeInv, Verdicts, PinsFirst
  <2>2. ASSUME NEW i \in DOMAIN facts
        PROVE  \A d, own : Lawful(i, d, own)' <=> Lawful(i, d, own)
    BY <1>2, <2>1, LawfulStays DEF TypeInv, Verdicts
  <2> QED
    BY <1>2, <2>1, <2>2 DEF LawInv, TypeInv, Verdicts
<1>3. CASE \/ \E i \in DOMAIN facts : Get(i)
           \/ UNCHANGED classifierVars
  <2>1. UNCHANGED <<facts, sidecar, sure, told, unit>>
    BY <1>3 DEF Get, classifierVars
  <2>2. UnitInv'
    BY <2>1, SameLog
  <2>3. MemoIsSidecar'
    BY <1>3, <2>1 DEF MemoIsSidecar, Get, classifierVars
  <2> QED
    BY <1>2, <2>1, <2>2, <2>3
<1>4. CASE Commit
  BY <1>2, <1>4 DEF Commit, UnitInv, MemoIsSidecar
<1>5. CASE BeginUnit
  <2>1. UNCHANGED <<facts, sidecar, sure, told, memo>>
    BY <1>5 DEF BeginUnit
  <2>2. Saved' = [facts |-> facts, sidecar |-> sidecar, sure |-> sure, told |-> told]
    BY <1>5 DEF BeginUnit, Saved
  <2>3. \A i \in DOMAIN sidecar \ told : Lawful(i, sidecar[i], i \in sure)'
    BY <1>2, <2>1 DEF LawInv
  <2>4. UnitInv'
    <3>1. Verdicts(Saved.facts, Saved.sidecar, Saved.sure, Saved.told)'
      BY <2>1, <2>2 DEF TypeInv, Verdicts
    <3>2. Len(Saved'.facts) <= Len(facts') /\ \A i \in DOMAIN Saved'.facts : facts'[i] = Saved'.facts[i]
      BY <2>1, <2>2 DEF TypeInv, Verdicts
    <3>3. \A i \in DOMAIN Saved'.sidecar \ Saved'.told : Lawful(i, Saved.sidecar[i], i \in Saved.sure)'
      BY <2>1, <2>2, <2>3
    <3> QED
      BY <3>1, <3>2, <3>3 DEF UnitInv
  <2> QED
    BY <1>2, <2>1, <2>4 DEF MemoIsSidecar
<1> QED
  BY <1>1, <1>3, <1>4, <1>5

\* A unit that fails gives back an earlier log with its verdicts.
LEMMA RollbackKeeps == ASSUME ClassifierInv, Rollback PROVE ClassifierInv'
<1> USE DEF ClassifierInv
<1>1. /\ facts' = Saved.facts /\ sidecar' = Saved.sidecar
      /\ sure' = Saved.sure /\ told' = Saved.told
      /\ unit' = <<>> /\ memo' = <<>> /\ unit # <<>>
  BY DEF Rollback, Undone, Saved
<1>2. TypeInv'
  BY <1>1 DEF TypeInv, UnitInv, Verdicts
<1>3. DOMAIN facts' \subseteq DOMAIN facts /\ \A i \in DOMAIN facts' : facts'[i] = facts[i]
  BY <1>1 DEF TypeInv, UnitInv, Verdicts
<1>4. PinsFirst'
  BY <1>3 DEF PinsFirst
<1>5. ASSUME NEW i \in DOMAIN facts'
      PROVE  \A d, own : Lawful(i, d, own)' <=> Lawful(i, d, own)
  <2>1. facts \in Seq(Kinds \union Retraction) /\ facts' \in Seq(Kinds \union Retraction)
    BY <1>2 DEF TypeInv, Verdicts
  <2>2. i \in DOMAIN facts /\ 1..i \subseteq DOMAIN facts'
    BY <1>3, <2>1
  <2>3. \A j \in 1..i : facts'[j] = facts[j]
    BY <1>3, <2>2
  <2> QED
    BY <1>4, <2>1, <2>2, <2>3, LawfulStays
<1>6. LawInv'
  BY <1>1, <1>2, <1>5 DEF LawInv, UnitInv, TypeInv, Verdicts
<1> QED
  BY <1>1, <1>2, <1>4, <1>6 DEF UnitInv, MemoIsSidecar

\* So every step does.
LEMMA ClassifierStepKeeps == ClassifierInv /\ [ClassifierNext]_classifierVars => ClassifierInv'
<1> SUFFICES ASSUME ClassifierInv, [ClassifierNext]_classifierVars PROVE ClassifierInv'
  OBVIOUS
<1>1. CASE \E k \in Kinds : Write(k)
  BY <1>1, WriteKeeps
<1>2. CASE \E i \in DOMAIN facts, answer \in Answers \union {Silent} : Classify(i, answer)
  BY <1>2, ClassifyKeeps
<1>3. CASE \E m \in 0..Len(facts) : ClassifyRows(m) \/ ClassifyByRules(m) \/ ClassifyGuarded(m)
  BY <1>3, ClassifyRowsKeeps, ByRulesKeeps
<1>4. CASE \E i \in DOMAIN facts, d \in Injected : Set(i, d)
  BY <1>4, SetKeeps
<1>5. CASE \E j \in DOMAIN facts : Retract(j)
  BY <1>5, RetractKeeps
<1>6. CASE Promote \/ Rollback
  BY <1>6, PromoteKeeps, RollbackKeeps
<1>7. CASE \/ Rebuild \/ BeginUnit \/ Commit
           \/ \E i \in DOMAIN facts : Get(i)
           \/ UNCHANGED classifierVars
  BY <1>7, OthersKeep
<1> QED
  BY <1>1, <1>2, <1>3, <1>4, <1>5, <1>6, <1>7 DEF ClassifierNext

\* The invariant holds of the sidecar, the log and the open unit throughout.
THEOREM ClassifierHolds == ClassifierSpec => []ClassifierInv
BY ClassifierInitHolds, ClassifierStepKeeps, PTL DEF ClassifierSpec

-----------------------------------------------------------------------------
(* What the sidecar promises.                                              *)

\* No guess freezes a thing where it was first seen, or erases a row.
LEMMA HarmlessIs == ClassifierInv => GuessesAreHarmless
<1> SUFFICES ASSUME ClassifierInv, NEW i \in DOMAIN sidecar \ told, ~Guarded(i), ~Pinned(i)
             PROVE  /\ sidecar[i] # "EVENT"
                    /\ sidecar[i] = "CONSTITUTIVE" /\ facts[i].attribute \in Containment => i \in sure
  BY DEF GuessesAreHarmless
<1>1. Lawful(i, sidecar[i], i \in sure)
  BY DEF ClassifierInv, LawInv
<1> QED
  BY <1>1 DEF Lawful, Standing

\* The guardrails of a thing's location that nobody pinned: only a fixture's.
LEMMA LocationGuard ==
  ASSUME NEW i \in DOMAIN facts, ~Pinned(i), facts[i].attribute \in Containment \ ByHand,
         facts[i].entity = "thing", facts[i].type = "entity"
  PROVE  /\ DeclaredFixture(i) => Guardrails(i) = Verdict("CONSTITUTIVE", 4)
         /\ ~DeclaredFixture(i) => ~Guarded(i)
<1> DEFINE rules == Rules(i)
           hit == {n \in DOMAIN rules : rules[n][1]}
<1>1. Pin(facts[i].attribute) = "none"
  BY NoPin
<1>2. DOMAIN rules = 1..12
  BY DEF Rules
<1>3. ~rules[1][1] /\ ~rules[5][1]
  BY DEF Rules
<1>4. ~rules[2][1] /\ ~rules[3][1] /\ ~rules[4][1]
  BY ClassifierConstants DEF Rules
<1>5. ~rules[6][1] /\ ~rules[7][1]
  BY <1>1 DEF Rules
<1>6. ~rules[8][1] /\ ~rules[9][1] /\ ~rules[11][1] /\ ~rules[12][1]
  BY DEF Rules
<1>7. (rules[10][1] <=> DeclaredFixture(i)) /\ rules[10][2] = Verdict("CONSTITUTIVE", 4)
  BY DEF Rules, DeclaredFixture
<1>8. Guardrails(i) = IF hit = {} THEN Silent ELSE rules[Min(hit)][2]
  BY DEF Guardrails
<1> HIDE DEF rules
<1>9. hit \subseteq {10}
  BY <1>2, <1>3, <1>4, <1>5, <1>6
<1>10. CASE DeclaredFixture(i)
  <2>1. hit = {10}
    <3>1. 10 \in DOMAIN rules /\ rules[10][1]
      BY <1>2, <1>7, <1>10
    <3>2. 10 \in hit
      BY <3>1
    <3> QED
      BY <3>2, <1>9
  <2>2. Min(hit) = 10
    BY <2>1, MinIs
  <2> QED
    BY <1>7, <1>8, <1>10, <2>1, <2>2
<1>11. CASE ~DeclaredFixture(i)
  <2>1. hit = {}
    BY <1>7, <1>9, <1>11
  <2> QED
    BY <1>8, <1>11, <2>1 DEF Guarded
<1> QED
  BY <1>10, <1>11

\* A fixture declared or taken back later changes no verdict.
LEMMA AsWrittenIs == ClassifierInv => JudgedAsWritten
<1> SUFFICES ASSUME ClassifierInv, NEW i \in DOMAIN sidecar \ told, ~Pinned(i),
                    facts[i].attribute \in Containment \ ByHand,
                    facts[i].entity = "thing", facts[i].type = "entity"
             PROVE  /\ DeclaredFixture(i) => sidecar[i] = "CONSTITUTIVE"
                    /\ ~DeclaredFixture(i) /\ i \notin sure => sidecar[i] \in {"STATE", "DISPOSITIONAL"}
  BY DEF JudgedAsWritten, DeclaredFixture, InForce
<1>1. Lawful(i, sidecar[i], i \in sure) /\ i \in DOMAIN facts
  BY DEF ClassifierInv, LawInv, TypeInv, Verdicts
<1>2. /\ DeclaredFixture(i) => Guardrails(i) = Verdict("CONSTITUTIVE", 4)
      /\ ~DeclaredFixture(i) => ~Guarded(i)
  BY <1>1, LocationGuard
<1>3. Verdict("CONSTITUTIVE", 4) # Silent /\ Verdict("CONSTITUTIVE", 4).durability = "CONSTITUTIVE"
  BY DEF Verdict, Silent
<1> QED
  BY <1>1, <1>2, <1>3 DEF Lawful, Guarded, Standing

\* Unless a component said so, a location is permanent only by a guardrail or a model's
\* word at the floor, and a row is an event only by a guardrail (classify.py,
\* _apply_verdicts and _apply_containment_floor).
THEOREM GuessesStayHarmless == ClassifierSpec => []GuessesAreHarmless
BY ClassifierHolds, HarmlessIs, PTL

\* A verdict that is read is the one the row was given as it was written, however late
\* it was judged and whatever was rolled back since (classify.py, _guardrails and
\* _memoized).
THEOREM VerdictsStay == ClassifierSpec => []VerdictsHold
<1>1. ClassifierInv => VerdictsHold
  BY AsWrittenIs DEF ClassifierInv, VerdictsHold
<1> QED
  BY <1>1, ClassifierHolds, PTL

-----------------------------------------------------------------------------
(* The resolver.                                                           *)

Rows == 1..Len(log)
Is(i, kind) == log[i].kind = kind

\* How many rows a failure would leave.
Kept == IF begun = NoUnit THEN Len(log) ELSE begun

-----------------------------------------------------------------------------
(* The resolver: its inductive invariant, by parts.                        *)

\* A thunk has one marker at most; it names what one call generated for the thunk,
\* and nothing was generated for it since.
MarkInv ==
  /\ \A i \in Rows : log[i].by <= calls
  /\ \A i \in Rows : Is(i, "item") \/ Is(i, "mark") => log[i].of < i
  /\ \A m, n \in Rows : Is(m, "mark") /\ Is(n, "mark") /\ log[m].of = log[n].of => m = n
  /\ \A m, i \in Rows :
       Is(m, "mark") /\ Is(i, "item") /\ log[i].of = log[m].of
         => /\ i < m
            /\ log[i].by = log[m].by => i \in log[m].memo
  /\ \A m \in Rows : Is(m, "mark") =>
       \A i \in log[m].memo :
         i \in Rows /\ Is(i, "item") /\ log[i].of = log[m].of /\ log[i].by = log[m].by

\* Where the running call stands.
Forcing == call.pc \in {"model", "write"}
CallInv ==
  /\ call.pc = "idle" => begun = NoUnit
  /\ call.pc # "idle" /\ call.perceive => begun # NoUnit
  /\ call.pc = "asked" => begun \in {NoUnit, Len(log)}
  /\ call.pc \in {"asked", "model"} =>
       call.made = {} /\ \A i \in Rows : Is(i, "item") => log[i].by # calls
  /\ call.pc = "asked" => call.thunk = 0
  /\ Forcing => /\ call.thunk \in Rows /\ Is(call.thunk, "thunk")
                /\ \A m \in Rows : Is(m, "mark") => log[m].of # call.thunk
                /\ log[call.thunk].by # 0 => begun # NoUnit /\ begun < call.thunk
  /\ call.pc = "write" =>
       call.made = {i \in Rows : Is(i, "item") /\ log[i].of = call.thunk /\ log[i].by = calls}
  /\ call.pc = "done" /\ call.thunk # 0 =>
       \E m \in Rows : Is(m, "mark") /\ log[m].of = call.thunk /\ log[m].memo = call.made

\* A placeholder of the resolver's own has its marker, and a durable one a durable
\* marker; only the running call's may lack it.
PlantInv ==
  \A t \in Rows : Is(t, "thunk") /\ log[t].by # 0 =>
    /\ t <= Kept => \E m \in 1..Kept : Is(m, "mark") /\ log[m].of = t
    /\ ~(Forcing /\ t = call.thunk) => \E m \in Rows : Is(m, "mark") /\ log[m].of = t

\* What was answered is durable.
AnswerInv ==
  /\ \A t \in 1..MaxRows : \A rows \in served[t] :
       \E m \in 1..Kept : Is(m, "mark") /\ log[m].of = t /\ log[m].memo = rows
  /\ \A i \in shown : \E j \in 1..Kept : Is(j, "mirror") /\ log[j].of = i
  /\ \A i, j \in Rows : Is(i, "mirror") /\ Is(j, "mirror") /\ log[i].of = log[j].of => i = j

ResolverInv == TypeOK /\ MarkInv /\ CallInv /\ PlantInv /\ AnswerInv

-----------------------------------------------------------------------------
(* Rows and the log.                                                       *)

RowType ==
  [kind : {"thunk", "item", "mark", "seen", "mirror"}, key : Keys, of : 0..MaxRows,
   by : 0..MaxCalls, memo : SUBSET (1..MaxRows), policy : Policies \union {"none"}]

\* The bounds are numbers.
LEMMA Bounds == MaxItems \in Nat /\ MaxRows \in Nat /\ MaxCalls \in Nat /\ Keys # {}
BY ResolverConstants

\* No call is a call.
LEMMA NoCallIs ==
  \E k \in Keys :
    NoCall = [pc |-> "idle", key |-> k, thunk |-> 0, left |-> 0, made |-> {}, perceive |-> FALSE]
BY Bounds DEF NoCall

\* Its type.
LEMMA NoCallType ==
  /\ NoCall.pc = "idle" /\ ~NoCall.perceive
  /\ NoCall \in [pc : {"idle", "asked", "model", "write", "done"}, key : Keys,
                 thunk : 0..MaxRows, left : 0..MaxItems, made : SUBSET (1..MaxRows),
                 perceive : BOOLEAN]
BY NoCallIs, Bounds

\* What stands in the log, row by row.
LEMMA RowsAre ==
  ASSUME TypeOK
  PROVE  /\ Len(log) \in Nat /\ Len(log) <= MaxRows
         /\ \A i \in Rows : log[i] \in RowType
         /\ Kept \in 0..Len(log)
<1>1. log \in Seq(RowType) /\ Len(log) <= MaxRows /\ begun \in {NoUnit} \union 0..Len(log)
  BY DEF TypeOK, RowType
<1>2. Len(log) \in Nat /\ \A i \in Rows : log[i] \in RowType
  BY <1>1 DEF Rows
<1> QED
  BY <1>1, <1>2 DEF Kept

\* Append1 leaves every row where it is and adds one.
LEMMA Grows ==
  ASSUME TypeOK, NEW row \in RowType, Append1(row)
  PROVE  /\ log' \in Seq(RowType) /\ Len(log') = Len(log) + 1 /\ Len(log') <= MaxRows
         /\ Rows' = Rows \union {Len(log) + 1} /\ Len(log) + 1 \notin Rows
         /\ \A i \in Rows : log'[i] = log[i]
         /\ log'[Len(log) + 1] = row
<1>1. log \in Seq(RowType) /\ Len(log) \in Nat /\ Len(log) < MaxRows /\ log' = Append(log, row)
  BY DEF TypeOK, RowType, Append1
<1> QED
  BY <1>1, Bounds DEF Rows

\* What a failure would leave is the first Kept rows.
LEMMA DurableIs ==
  ASSUME TypeOK
  PROVE  /\ Durable \in Seq(RowType) /\ Len(Durable) = Kept
         /\ \A i \in 1..Kept : i \in Rows /\ Durable[i] = log[i]
<1>1. log \in Seq(RowType) /\ Kept \in 0..Len(log)
  BY RowsAre DEF TypeOK, RowType
<1>2. CASE begun = NoUnit
  BY <1>1, <1>2 DEF Durable, Kept, Rows
<1>3. CASE begun # NoUnit
  <2>1. Durable = SubSeq(log, 1, begun) /\ Kept = begun /\ begun \in 0..Len(log)
    BY <1>1, <1>3 DEF Durable, Kept
  <2> QED
    BY <1>1, <2>1 DEF Rows
<1> QED
  BY <1>2, <1>3

\* A row as the model writes it, before its fields are filled in.
LEMMA RowMade ==
  ASSUME NEW key \in Keys, NEW kind \in {"thunk", "item", "mark", "seen", "mirror"}
  PROVE  /\ Row(kind, key) \in RowType
         /\ Row(kind, key).kind = kind /\ Row(kind, key).of = 0 /\ Row(kind, key).by = 0
         /\ Row(kind, key).memo = {}
BY Bounds DEF RowType, Row

-----------------------------------------------------------------------------
(* What appending a row keeps.                                             *)

\* Of the markers' part.
LEMMA MarkKept ==
  ASSUME TypeOK, MarkInv, NEW row \in RowType, Append1(row), UNCHANGED calls,
         row.by <= calls, row.kind \notin {"item", "mark"}
  PROVE  MarkInv'
BY Grows, RowsAre DEF MarkInv, Is

\* Of the mirrors' and answers' part, when no answer is given meanwhile.
LEMMA AnswerKept ==
  ASSUME TypeOK, AnswerInv, NEW row \in RowType, Append1(row), UNCHANGED <<served, shown>>,
         Kept' \in Nat, Kept <= Kept',
         row.kind = "mirror" => \A j \in Rows : Is(j, "mirror") => log[j].of # row.of
  PROVE  AnswerInv'
<1>1. \A j \in 1..Kept : j \in Rows /\ j \in 1..Kept'
  BY RowsAre DEF Rows
<1> QED
  BY <1>1, Grows DEF AnswerInv, Is

-----------------------------------------------------------------------------
(* The steps that leave the log alone.                                     *)

\* The latest of some rows is one of them.
LEMMA LatestIs ==
  ASSUME TypeOK, NEW S \in SUBSET Rows, Latest(S) # 0
  PROVE  Latest(S) \in S
<1>1. S # {} /\ Len(log) \in Nat
  BY RowsAre DEF Latest
<1>2. \E i \in S : \A j \in S : j <= i
  BY <1>1, GreatestOf DEF Rows
<1> QED
  BY <1>1, <1>2 DEF Latest

\* The first state.
LEMMA ResolverInitHolds == Init => ResolverInv
<1> SUFFICES ASSUME Init PROVE ResolverInv
  OBVIOUS
<1>1. Rows = {} /\ log = <<>> /\ Len(log) = 0
  BY DEF Init, Rows
<1>2. TypeOK
  BY <1>1, NoCallType, Bounds DEF Init, TypeOK
<1>3. MarkInv /\ PlantInv
  BY <1>1 DEF MarkInv, PlantInv
<1>4. call.pc = "idle" /\ begun = NoUnit
  BY NoCallIs DEF Init
<1>5. CallInv
  BY <1>4 DEF CallInv, Forcing
<1>6. AnswerInv
  BY <1>1 DEF Init, AnswerInv
<1> QED
  BY <1>2, <1>3, <1>5, <1>6 DEF ResolverInv

\* A resolve begins.
LEMMA ResolveKeeps ==
  ASSUME ResolverInv, NEW k \in Keys, NEW perceive \in BOOLEAN, Resolve(k, perceive)
  PROVE  ResolverInv'
<1> USE DEF ResolverInv
<1>1. /\ call' \in [pc : {"idle", "asked", "model", "write", "done"}, key : Keys,
                    thunk : 0..MaxRows, left : 0..MaxItems, made : SUBSET (1..MaxRows),
                    perceive : BOOLEAN]
      /\ call'.pc = "asked" /\ call'.thunk = 0 /\ call'.made = {} /\ call'.perceive = perceive
      /\ call.pc = "idle" /\ calls < MaxCalls /\ calls' = calls + 1
      /\ begun' = IF perceive THEN Len(log) ELSE NoUnit
      /\ UNCHANGED <<log, served, shown>>
  <2>1. /\ NoCall.thunk = 0 /\ NoCall.left = 0 /\ NoCall.made = {}
    BY NoCallIs
  <2>2. call' = [NoCall EXCEPT !.pc = "asked", !.key = k, !.perceive = perceive]
    BY DEF Resolve
  <2> QED
    BY <2>1, <2>2, NoCallType DEF Resolve
<1>2. begun = NoUnit /\ Kept = Len(log) /\ Kept' = Len(log) /\ Rows' = Rows
  BY <1>1 DEF CallInv, Kept, Rows, TypeOK
<1>3. TypeOK'
  BY <1>1, RowsAre, Bounds DEF TypeOK
<1>4. MarkInv'
  BY <1>1, <1>2, RowsAre, Bounds DEF MarkInv, Is, TypeOK, RowType
<1>5. CallInv'
  <2>1. \A i \in Rows : log[i].by # calls'
    BY <1>1, RowsAre, Bounds DEF MarkInv, TypeOK, RowType
  <2> QED
    BY <1>1, <1>2, <2>1, RowsAre DEF CallInv, Is, Forcing, NoUnit
<1>6. PlantInv'
  BY <1>1, <1>2 DEF PlantInv, Is, Forcing
<1>7. AnswerInv'
  BY <1>1, <1>2 DEF AnswerInv, Is
<1> QED
  BY <1>3, <1>4, <1>5, <1>6, <1>7

\* What stands is found.
LEMMA StandsKeeps ==
  ASSUME ResolverInv, call.pc = "asked", NEW thunk \in 0..MaxRows, NEW rows \in SUBSET (1..MaxRows),
         Stands(thunk, rows),
         thunk # 0 => \E m \in Rows : Is(m, "mark") /\ log[m].of = thunk /\ log[m].memo = rows
  PROVE  ResolverInv'
<1> USE DEF ResolverInv
<1>1. /\ call' = [call EXCEPT !.pc = "done", !.thunk = thunk, !.made = rows]
      /\ UNCHANGED <<log, begun, calls, served, shown>>
  BY DEF Stands
<1>2. /\ call'.pc = "done" /\ call'.thunk = thunk /\ call'.made = rows
      /\ call'.perceive = call.perceive
      /\ Rows' = Rows /\ Kept' = Kept
  BY <1>1 DEF TypeOK, Rows, Kept
<1>3. TypeOK'
  BY <1>1 DEF TypeOK
<1>4. MarkInv' /\ AnswerInv'
  BY <1>1, <1>2 DEF MarkInv, AnswerInv, Is
<1>5. CallInv'
  BY <1>1, <1>2 DEF CallInv, Is, Forcing
<1>6. PlantInv'
  BY <1>1, <1>2 DEF PlantInv, Is, Forcing
<1> QED
  BY <1>3, <1>4, <1>5, <1>6

\* Something stands: a memo, a value, or nothing.
LEMMA ServeKeeps == ResolverInv /\ (ServeMemo \/ ServeConcrete \/ ServeNothing) => ResolverInv'
<1> SUFFICES ASSUME ResolverInv, ServeMemo \/ ServeConcrete \/ ServeNothing PROVE ResolverInv'
  OBVIOUS
<1>1. CASE ServeMemo
  <2> DEFINE t == Thunk(call.key)
  <2>1. call.pc = "asked" /\ t # 0 /\ Marker(t) # {} /\ Stands(t, Memo(t))
    BY <1>1 DEF ServeMemo
  <2> HIDE DEF t
  <2>2. PICK m \in Rows : Is(m, "mark") /\ log[m].of = t
    BY <2>1 DEF Marker, Rows, Is
  <2>3. \A i \in Marker(t) : i = m
    BY <2>2 DEF Marker, Rows, Is, ResolverInv, MarkInv
  <2>4. m \in Marker(t) /\ m <= m
    BY <2>2, RowsAre DEF Marker, Rows, Is, ResolverInv
  <2>5. Memo(t) = log[m].memo
    BY <2>3, <2>4 DEF Memo
  <2>6. log[m] \in RowType
    BY <2>2, RowsAre DEF ResolverInv
  <2> QED
    BY <2>1, <2>2, <2>5, <2>6, StandsKeeps DEF RowType
<1>2. CASE ServeConcrete
  <2>1. PICK i \in Concrete(call.key) : call.pc = "asked" /\ Stands(0, {i})
    BY <1>2 DEF ServeConcrete
  <2>2. {i} \in SUBSET (1..MaxRows) /\ 0 \in 0..MaxRows
    BY <2>1, RowsAre, Bounds DEF Concrete, ResolverInv
  <2> QED
    BY <2>1, <2>2, StandsKeeps
<1>3. CASE ServeNothing
  BY <1>3, Bounds, StandsKeeps DEF ServeNothing, Open
<1> QED
  BY <1>1, <1>2, <1>3

\* A standing thunk is forced.
LEMMA ForceKeeps == ResolverInv /\ ForceThunk => ResolverInv'
<1> SUFFICES ASSUME ResolverInv, ForceThunk PROVE ResolverInv'
  OBVIOUS
<1> USE DEF ResolverInv
<1> DEFINE t == Thunk(call.key)
<1>1. /\ call.pc = "asked" /\ t # 0 /\ Marker(t) = {}
      /\ call' = [call EXCEPT !.pc = "model", !.thunk = t]
      /\ UNCHANGED <<log, begun, calls, served, shown>>
  BY DEF ForceThunk, Open
<1>2. t \in Rows /\ Is(t, "thunk")
  BY <1>1, LatestIs DEF Thunk, Rows, Is
<1> HIDE DEF t
<1>3. \A m \in Rows : Is(m, "mark") => log[m].of # t
  BY <1>1 DEF Marker, Rows, Is
<1>4. Kept = Len(log)
  BY <1>1 DEF CallInv, Kept
<1>5. log[t].by = 0
  BY <1>2, <1>3, <1>4, RowsAre DEF PlantInv, Rows
<1>6. /\ call'.pc = "model" /\ call'.thunk = t /\ call'.made = call.made
      /\ call'.perceive = call.perceive
      /\ Rows' = Rows /\ Kept' = Kept
  BY <1>1 DEF TypeOK, Rows, Kept
<1>7. TypeOK'
  <2>1. t \in 0..MaxRows
    BY <1>2, RowsAre, Bounds DEF Rows
  <2> QED
    BY <1>1, <2>1 DEF TypeOK
<1>8. MarkInv' /\ AnswerInv'
  BY <1>1, <1>6 DEF MarkInv, AnswerInv, Is
<1>9. CallInv'
  BY <1>1, <1>2, <1>3, <1>5, <1>6 DEF CallInv, Is, Forcing
<1>10. PlantInv'
  BY <1>1, <1>5, <1>6 DEF PlantInv, Is, Forcing
<1> QED
  BY <1>7, <1>8, <1>9, <1>10

\* The model answers with so many items.
LEMMA ModelKeeps == ResolverInv /\ ModelAnswers => ResolverInv'
<1> SUFFICES ASSUME ResolverInv, ModelAnswers PROVE ResolverInv'
  OBVIOUS
<1> USE DEF ResolverInv
<1>1. PICK n \in 0..MaxItems : call' = [call EXCEPT !.pc = "write", !.left = n]
  BY DEF ModelAnswers
<1>2. call.pc = "model" /\ UNCHANGED <<log, begun, calls, served, shown>>
  BY DEF ModelAnswers
<1>3. /\ call'.pc = "write" /\ call'.thunk = call.thunk /\ call'.made = call.made
      /\ call'.perceive = call.perceive
      /\ Rows' = Rows /\ Kept' = Kept
  BY <1>1, <1>2 DEF TypeOK, Rows, Kept
<1>4. TypeOK'
  BY <1>1, <1>2 DEF TypeOK
<1>5. MarkInv' /\ AnswerInv'
  BY <1>2, <1>3 DEF MarkInv, AnswerInv, Is
<1>6. CallInv'
  BY <1>2, <1>3 DEF CallInv, Is, Forcing
<1>7. PlantInv'
  BY <1>2, <1>3 DEF PlantInv, Is, Forcing
<1> QED
  BY <1>4, <1>5, <1>6, <1>7

\* The call returns.
LEMMA ReturnKeeps == ResolverInv /\ Return => ResolverInv'
<1> SUFFICES ASSUME ResolverInv, Return PROVE ResolverInv'
  OBVIOUS
<1> USE DEF ResolverInv
<1>1. /\ call.pc = "done" /\ call' = NoCall /\ begun' = NoUnit
      /\ UNCHANGED <<log, calls>>
      /\ served' = IF call.thunk = 0 THEN served
                   ELSE [served EXCEPT ![call.thunk] = @ \union {call.made}]
      /\ shown' = IF call.perceive THEN shown \union call.made ELSE shown
      /\ call.perceive => \A i \in call.made : Mirrored(i)
  BY DEF Return, Returns
<1>2. /\ Rows' = Rows /\ Kept' = Len(log) /\ call'.pc = "idle" /\ Kept \in 0..Len(log)
      /\ Rows = 1..Len(log) /\ Len(log) \in Nat
  BY <1>1, NoCallIs, RowsAre DEF Kept, Rows
<1>3. TypeOK'
  BY <1>1, NoCallType, Bounds DEF TypeOK
<1>4. MarkInv'
  BY <1>1, <1>2 DEF MarkInv, Is
<1>5. CallInv'
  BY <1>1, <1>2 DEF CallInv, Forcing
<1>6. PlantInv'
  BY <1>1, <1>2 DEF PlantInv, Is, Forcing
<1>7. AnswerInv'
  <2>1. ASSUME NEW t \in 1..MaxRows, NEW rows \in served'[t]
        PROVE  \E m \in 1..Kept' : Is(m, "mark") /\ log[m].of = t /\ log[m].memo = rows
    <3>1. CASE rows \in served[t]
      BY <1>2, <3>1 DEF AnswerInv
    <3>2. CASE rows \notin served[t]
      <4>1. call.thunk = t /\ rows = call.made
        BY <1>1, <2>1, <3>2 DEF TypeOK
      <4> QED
        BY <1>1, <1>2, <4>1 DEF CallInv
    <3> QED
      BY <3>1, <3>2
  <2>2. ASSUME NEW i \in shown' PROVE \E j \in 1..Kept' : Is(j, "mirror") /\ log[j].of = i
    <3>1. CASE i \in shown
      BY <1>2, <3>1 DEF AnswerInv
    <3>2. CASE i \notin shown
      BY <1>1, <1>2, <2>2, <3>2 DEF Mirrored, Is
    <3> QED
      BY <3>1, <3>2
  <2> QED
    BY <1>1, <1>2, <2>1, <2>2 DEF AnswerInv, Is
<1> QED
  BY <1>3, <1>4, <1>5, <1>6, <1>7

-----------------------------------------------------------------------------
(* The steps that write.                                                   *)

\* The host plants a thunk, or sees what is there.
LEMMA HostKeeps ==
  ASSUME ResolverInv, NEW k \in Keys, (\E policy \in Policies : Plant(k, policy)) \/ Observe(k)
  PROVE  ResolverInv'
<1> USE DEF ResolverInv
<1>1. /\ call.pc = "idle" /\ UNCHANGED <<begun, call, calls, served, shown>>
      /\ begun = NoUnit
  BY DEF Plant, Observe, HostMayWrite, CallInv
<1>2. PICK row \in RowType : row.kind \in {"thunk", "seen"} /\ row.by = 0 /\ Append1(row)
  <2>1. CASE \E policy \in Policies : Plant(k, policy)
    <3>1. PICK policy \in Policies : Plant(k, policy)
      BY <2>1
    <3> DEFINE row == [Row("thunk", k) EXCEPT !.policy = policy]
    <3>2. row \in RowType /\ row.kind = "thunk" /\ row.by = 0
      BY RowMade DEF RowType
    <3> QED
      BY <3>1, <3>2 DEF Plant
  <2>2. CASE Observe(k)
    BY <2>2, RowMade DEF Observe
  <2> QED
    BY <2>1, <2>2
<1>3. /\ log' \in Seq(RowType) /\ Len(log') = Len(log) + 1 /\ Len(log') <= MaxRows
      /\ Rows' = Rows \union {Len(log) + 1} /\ Len(log) + 1 \notin Rows
      /\ \A i \in Rows : log'[i] = log[i]
      /\ log'[Len(log) + 1] = row
  BY <1>2, Grows
<1>4. /\ Kept = Len(log) /\ Kept' = Len(log) + 1 /\ Kept' \in Nat /\ Kept <= Kept'
      /\ Len(log) \in Nat
  BY <1>1, <1>3, RowsAre DEF Kept
<1>5. TypeOK'
  BY <1>1, <1>3 DEF TypeOK, RowType
<1>6. MarkInv'
  <2>1. row.by <= calls
    BY <1>2, Bounds DEF TypeOK
  <2> QED
    BY <1>1, <1>2, <2>1, MarkKept
<1>7. CallInv'
  BY <1>1 DEF CallInv, Forcing
<1>8. PlantInv'
  <2>1. \A m \in 1..Kept : m \in 1..Kept' /\ m \in Rows
    BY <1>4 DEF Rows
  <2> QED
    BY <1>1, <1>2, <1>3, <1>4, <2>1 DEF PlantInv, Is, Forcing, Rows
<1>9. AnswerInv'
  BY <1>1, <1>2, <1>4, AnswerKept
<1> QED
  BY <1>5, <1>6, <1>7, <1>8, <1>9

\* A placeholder of the resolver's own, in a unit.
LEMMA PlantAndForceKeeps == ResolverInv /\ PlantAndForce => ResolverInv'
<1> SUFFICES ASSUME ResolverInv, PlantAndForce PROVE ResolverInv'
  OBVIOUS
<1> USE DEF ResolverInv
<1> DEFINE row == [Row("thunk", call.key) EXCEPT !.policy = "invent_under_canon", !.by = calls]
           t == Len(log) + 1
<1>1. /\ call.pc = "asked" /\ Append1(row) /\ UNCHANGED <<calls, served, shown>>
      /\ call' = [call EXCEPT !.pc = "model", !.thunk = Len(log')]
      /\ begun' = IF begun = NoUnit THEN Len(log) ELSE begun
  BY DEF PlantAndForce, Open
<1>2. row \in RowType /\ row.kind = "thunk" /\ row.of = 0 /\ row.by = calls
  <2>1. calls \in 0..MaxCalls /\ call.key \in Keys /\ call.thunk \in 0..MaxRows
        /\ call.made \in SUBSET (1..MaxRows)
    BY DEF TypeOK
  <2>2. Row("thunk", call.key) \in RowType /\ Row("thunk", call.key).kind = "thunk" /\ Row("thunk", call.key).of = 0
    BY <2>1, RowMade
  <2> QED
    BY <2>1, <2>2 DEF RowType, Policies
<1>3. row \in RowType
  BY <1>2
<1> HIDE DEF row
<1>4. /\ log' \in Seq(RowType) /\ Len(log') = t /\ Len(log') <= MaxRows
      /\ Rows' = Rows \union {t} /\ t \notin Rows
      /\ \A i \in Rows : log'[i] = log[i]
      /\ log'[t] = row
  BY <1>1, <1>3, Grows
<1>5. /\ Len(log) \in Nat /\ begun' = Len(log) /\ Kept = Len(log) /\ Kept' = Len(log)
      /\ begun' # NoUnit
  BY <1>1, RowsAre DEF CallInv, Kept, NoUnit
<1> HIDE DEF t
<1>6. /\ call'.pc = "model" /\ call'.thunk = t /\ call'.made = call.made
      /\ call'.perceive = call.perceive
  BY <1>1, <1>4 DEF TypeOK
<1>7. TypeOK'
  <2>1. t \in 0..MaxRows /\ begun' \in 0..Len(log')
    BY <1>4, <1>5, Bounds DEF t
  <2>2. call' \in [pc : {"idle", "asked", "model", "write", "done"}, key : Keys,
                   thunk : 0..MaxRows, left : 0..MaxItems, made : SUBSET (1..MaxRows),
                   perceive : BOOLEAN]
    BY <1>1, <1>4, <2>1 DEF TypeOK
  <2> QED
    BY <1>1, <1>4, <2>1, <2>2 DEF TypeOK, RowType
<1>8. MarkInv'
  <2>1. row.by <= calls /\ row.kind = "thunk"
    BY <1>2, Bounds DEF TypeOK
  <2> QED
    BY <1>1, <1>3, <2>1, MarkKept
<1>9. CallInv'
  <2>1. \A m \in Rows' : Is(m, "mark")' => log'[m].of # t
    <3>1. \A m \in Rows : log[m] \in RowType /\ m < t
      BY <1>5, RowsAre DEF t, Rows
    <3>2. \A m \in Rows : Is(m, "mark") => log[m].of < m
      BY DEF MarkInv
    <3>3. t \in Nat
      BY <1>5 DEF t
    <3>4. \A m \in Rows : Is(m, "mark") => log[m].of # t
      BY <3>1, <3>2, <3>3, Bounds DEF Rows, RowType
    <3> QED
      BY <1>2, <1>4, <3>4 DEF Is
  <2>2. \A i \in Rows' : Is(i, "item")' => log'[i].by # calls
    BY <1>1, <1>2, <1>4 DEF CallInv, Is
  <2>3. t \in Rows' /\ log'[t].kind = "thunk" /\ begun' < t
    BY <1>2, <1>4, <1>5 DEF Is, t
  <2> QED
    BY <1>1, <1>5, <1>6, <2>1, <2>2, <2>3 DEF CallInv, Forcing, Is
<1>10. PlantInv'
  <2>1. t > Kept' /\ \A m \in 1..Kept : m \in Rows
    BY <1>5 DEF t, Rows
  <2> QED
    BY <1>1, <1>2, <1>4, <1>5, <1>6, <2>1 DEF PlantInv, Is, Forcing
<1>11. AnswerInv'
  <2>1. row.kind = "thunk" /\ Kept' \in Nat /\ Kept <= Kept'
    BY <1>2, <1>5
  <2> QED
    BY <1>1, <1>3, <2>1, AnswerKept
<1> QED
  BY <1>7, <1>8, <1>9, <1>10, <1>11

\* One item of the invention.
LEMMA ItemKeeps == ResolverInv /\ AppendItem => ResolverInv'
<1> SUFFICES ASSUME ResolverInv, AppendItem PROVE ResolverInv'
  OBVIOUS
<1> USE DEF ResolverInv
<1> DEFINE t == Len(log) + 1
<1>1. /\ call.pc = "write" /\ call.left > 0 /\ Append1(Item)
      /\ UNCHANGED <<begun, calls, served, shown>>
      /\ call' = [call EXCEPT !.left = @ - 1, !.made = @ \union {Len(log')}]
  BY DEF AppendItem
<1>2. Item \in RowType /\ Item.kind = "item" /\ Item.of = call.thunk /\ Item.by = calls
  <2>1. calls \in 0..MaxCalls /\ call.key \in Keys /\ call.thunk \in 0..MaxRows
        /\ call.made \in SUBSET (1..MaxRows)
    BY DEF TypeOK
  <2>2. Row("item", call.key) \in RowType /\ Row("item", call.key).kind = "item" /\ Row("item", call.key).of = 0
    BY <2>1, RowMade
  <2> QED
    BY <2>1, <2>2 DEF RowType, Item
<1>3. Item \in RowType
  BY <1>2
<1>4. /\ log' \in Seq(RowType) /\ Len(log') = t /\ Len(log') <= MaxRows
      /\ Rows' = Rows \union {t} /\ t \notin Rows
      /\ \A i \in Rows : log'[i] = log[i]
      /\ log'[t] = Item
  BY <1>1, <1>3, Grows
<1>5. /\ Len(log) \in Nat /\ Kept \in Nat /\ Kept' \in Nat /\ Kept <= Kept'
      /\ Kept' \in {Kept, t} /\ Kept <= Len(log) /\ t = Len(log) + 1
  BY <1>1, <1>4, RowsAre DEF Kept
<1>6. \A m \in 1..Kept : m \in Rows /\ m \in 1..Kept'
  BY <1>5 DEF Rows
<1>7. call.thunk \in Rows /\ \A i \in Rows : i < t
  BY <1>1, <1>5 DEF CallInv, Forcing, Rows
<1> HIDE DEF t
<1>8. /\ call'.pc = "write" /\ call'.thunk = call.thunk /\ call'.made = call.made \union {t}
      /\ call'.perceive = call.perceive
  BY <1>1, <1>4 DEF TypeOK
<1>9. TypeOK'
  <2>1. t \in 1..MaxRows /\ call.left - 1 \in 0..MaxItems
    BY <1>1, <1>4, <1>5, Bounds DEF TypeOK
  <2>2. call' \in [pc : {"idle", "asked", "model", "write", "done"}, key : Keys,
                   thunk : 0..MaxRows, left : 0..MaxItems, made : SUBSET (1..MaxRows),
                   perceive : BOOLEAN]
    BY <1>1, <1>4, <2>1 DEF TypeOK
  <2> QED
    BY <1>1, <1>4, <1>5, <2>2 DEF TypeOK, RowType
<1>10. MarkInv'
  <2>1. \A m \in Rows : Is(m, "mark") => log[m].of # call.thunk
    BY <1>1 DEF CallInv, Forcing
  <2>2. calls <= calls
    BY Bounds DEF TypeOK
  <2> QED
    BY <1>1, <1>2, <1>4, <1>7, <2>1, <2>2 DEF MarkInv, Is
<1>11. CallInv'
  BY <1>1, <1>2, <1>4, <1>8 DEF CallInv, Is, Forcing
<1>12. PlantInv'
  <2>1. \A i \in Rows : i <= Kept' => i <= Kept \/ begun = NoUnit
    BY <1>1 DEF Kept
  <2>2. begun = NoUnit => Kept = Len(log) /\ \A i \in Rows : i <= Kept
    BY <1>5 DEF Kept, Rows
  <2> QED
    BY <1>1, <1>2, <1>4, <1>6, <1>8, <2>1, <2>2 DEF PlantInv, Is, Forcing
<1>13. AnswerInv'
  BY <1>1, <1>2, <1>3, <1>5, AnswerKept
<1> QED
  BY <1>9, <1>10, <1>11, <1>12, <1>13

\* The marker that spends the thunk.
LEMMA MarkKeeps == ResolverInv /\ Mark => ResolverInv'
<1> SUFFICES ASSUME ResolverInv, Mark PROVE ResolverInv'
  OBVIOUS
<1> USE DEF ResolverInv
<1> DEFINE t == Len(log) + 1
           row == [Row("mark", call.key) EXCEPT !.of = call.thunk, !.by = calls,
                                                !.memo = call.made]
<1>1. /\ call.pc = "write" /\ Append1(row)
      /\ UNCHANGED <<begun, calls, served, shown>>
      /\ call' = [call EXCEPT !.pc = "done"]
  BY DEF Mark
<1>2. /\ row \in RowType
      /\ row.kind = "mark" /\ row.of = call.thunk /\ row.by = calls /\ row.memo = call.made
  <2>1. calls \in 0..MaxCalls /\ call.key \in Keys /\ call.thunk \in 0..MaxRows
        /\ call.made \in SUBSET (1..MaxRows)
    BY DEF TypeOK
  <2>2. Row("mark", call.key) \in RowType /\ Row("mark", call.key).kind = "mark" /\ Row("mark", call.key).of = 0
    BY <2>1, RowMade
  <2> QED
    BY <2>1, <2>2 DEF RowType
<1>3. row \in RowType
  BY <1>2
<1> HIDE DEF row
<1>4. /\ log' \in Seq(RowType) /\ Len(log') = t /\ Len(log') <= MaxRows
      /\ Rows' = Rows \union {t} /\ t \notin Rows
      /\ \A i \in Rows : log'[i] = log[i]
      /\ log'[t] = row
  BY <1>1, <1>3, Grows
<1>5. /\ Len(log) \in Nat /\ Kept \in Nat /\ Kept' \in Nat /\ Kept <= Kept'
      /\ Kept' \in {Kept, t} /\ Kept <= Len(log) /\ t = Len(log) + 1
      /\ (begun = NoUnit => Kept' = t)
  BY <1>1, <1>4, RowsAre DEF Kept
<1>6. \A m \in 1..Kept : m \in Rows /\ m \in 1..Kept'
  BY <1>5 DEF Rows
<1>7. call.thunk \in Rows /\ \A i \in Rows : i < t
  BY <1>1, <1>5 DEF CallInv, Forcing, Rows
<1> HIDE DEF t
<1>8. /\ call'.pc = "done" /\ call'.thunk = call.thunk /\ call'.made = call.made
      /\ call'.perceive = call.perceive
  BY <1>1 DEF TypeOK
<1>9. TypeOK'
  <2>1. begun' \in {NoUnit} \union 0..Len(log')
    BY <1>1, <1>4, <1>5 DEF TypeOK
  <2>2. call' \in [pc : {"idle", "asked", "model", "write", "done"}, key : Keys,
                   thunk : 0..MaxRows, left : 0..MaxItems, made : SUBSET (1..MaxRows),
                   perceive : BOOLEAN]
    BY <1>1 DEF TypeOK
  <2> QED
    BY <1>1, <1>4, <2>1, <2>2 DEF TypeOK, RowType
<1>10. MarkInv'
  <2>1. \A m \in Rows : Is(m, "mark") => log[m].of # call.thunk
    BY <1>1 DEF CallInv, Forcing
  <2>2. calls <= calls
    BY Bounds DEF TypeOK
  <2>3. call.made = {i \in Rows : Is(i, "item") /\ log[i].of = call.thunk /\ log[i].by = calls}
    BY <1>1 DEF CallInv
  <2>4. \A i \in Rows' : log'[i].by <= calls'
    BY <1>1, <1>2, <1>4, <2>2 DEF MarkInv
  <2>5. \A i \in Rows' : Is(i, "item")' \/ Is(i, "mark")' => log'[i].of < i
    BY <1>2, <1>4, <1>7 DEF MarkInv, Is
  <2>6. \A m, n \in Rows' : Is(m, "mark")' /\ Is(n, "mark")' /\ log'[m].of = log'[n].of => m = n
    BY <1>2, <1>4, <2>1 DEF MarkInv, Is
  <2>7. \A m, i \in Rows' :
          Is(m, "mark")' /\ Is(i, "item")' /\ log'[i].of = log'[m].of
            => /\ i < m
               /\ log'[i].by = log'[m].by => i \in log'[m].memo
    BY <1>2, <1>4, <1>7, <2>3 DEF MarkInv, Is
  <2>8. \A m \in Rows' : Is(m, "mark")' =>
          \A i \in log'[m].memo :
            i \in Rows' /\ Is(i, "item")' /\ log'[i].of = log'[m].of /\ log'[i].by = log'[m].by
    BY <1>2, <1>4, <2>3 DEF MarkInv, Is
  <2> QED
    BY <2>4, <2>5, <2>6, <2>7, <2>8 DEF MarkInv
<1>11. CallInv'
  BY <1>1, <1>2, <1>4, <1>8 DEF CallInv, Is, Forcing
<1>12. PlantInv'
  <2>1. \A i \in Rows : i <= Kept' => i <= Kept \/ begun = NoUnit
    BY <1>1 DEF Kept
  <2>2. begun = NoUnit => Kept = Len(log) /\ \A i \in Rows : i <= Kept
    BY <1>5 DEF Kept, Rows
  <2>3. ASSUME NEW q \in Rows', Is(q, "thunk")', log'[q].by # 0
        PROVE  /\ q <= Kept' => \E m \in 1..Kept' : Is(m, "mark")' /\ log'[m].of = q
               /\ \E m \in Rows' : Is(m, "mark")' /\ log'[m].of = q
    <3>1. q \in Rows /\ Is(q, "thunk") /\ log[q].by # 0
      BY <1>2, <1>4, <2>3 DEF Is
    <3>2. CASE q = call.thunk
      <4>1. log'[t].kind = "mark" /\ log'[t].of = q
        BY <1>2, <1>4, <3>2 DEF Is
      <4>2. begun # NoUnit /\ begun < q
        BY <1>1, <3>1, <3>2 DEF CallInv, Forcing
      <4>3. ~(q <= Kept')
        BY <1>1, <1>5, <4>2 DEF Kept, Rows, TypeOK
      <4> QED
        BY <1>4, <4>1, <4>3 DEF Is
    <3>3. CASE q # call.thunk
      BY <1>1, <1>4, <1>6, <2>1, <2>2, <3>1, <3>3 DEF PlantInv, Is, Forcing
    <3> QED
      BY <3>2, <3>3
  <2> QED
    BY <2>3 DEF PlantInv
<1>13. AnswerInv'
  BY <1>1, <1>2, <1>3, <1>5, AnswerKept
<1> QED
  BY <1>9, <1>10, <1>11, <1>12, <1>13

\* A row of the observer's own.
LEMMA MirrorKeeps == ResolverInv /\ MirrorOne => ResolverInv'
<1> SUFFICES ASSUME ResolverInv, MirrorOne PROVE ResolverInv'
  OBVIOUS
<1> USE DEF ResolverInv
<1> DEFINE t == Len(log) + 1
<1>1. PICK i \in call.made :
        ~Mirrored(i) /\ Append1([Row("mirror", call.key) EXCEPT !.of = i])
  BY DEF MirrorOne
<1>2. call.pc = "done" /\ call.perceive /\ UNCHANGED <<begun, call, calls, served, shown>>
  BY DEF MirrorOne
<1> DEFINE row == [Row("mirror", call.key) EXCEPT !.of = i]
<1>3. row \in RowType /\ row.kind = "mirror" /\ row.of = i /\ row.by = 0
  <2>1. i \in 0..MaxRows
    BY <1>1, Bounds DEF TypeOK
  <2> QED
    BY <2>1, RowMade DEF RowType, TypeOK
<1>4. row \in RowType
  BY <1>3
<1>5. Append1(row)
  BY <1>1
<1> HIDE DEF row
<1>6. /\ log' \in Seq(RowType) /\ Len(log') = t /\ Len(log') <= MaxRows
      /\ Rows' = Rows \union {t} /\ t \notin Rows
      /\ \A j \in Rows : log'[j] = log[j]
      /\ log'[t] = row
  BY <1>4, <1>5, Grows
<1>7. /\ Len(log) \in Nat /\ begun # NoUnit /\ Kept' = Kept /\ Kept \in Nat /\ Kept <= Len(log)
      /\ Kept <= Kept' /\ t = Len(log) + 1
  BY <1>2, RowsAre DEF Kept, CallInv
<1> HIDE DEF t
<1>8. TypeOK'
  BY <1>2, <1>6, <1>7 DEF TypeOK, RowType, t
<1>9. MarkInv'
  <2>1. row.by <= calls /\ row.kind = "mirror"
    BY <1>3, Bounds DEF TypeOK
  <2> QED
    BY <1>2, <1>4, <1>5, <2>1, MarkKept
<1>10. CallInv'
  BY <1>2, <1>6 DEF CallInv, Is, Forcing
<1>11. PlantInv'
  <2>1. \A m \in 1..Kept : m \in Rows
    BY <1>7 DEF Rows
  <2> QED
    BY <1>2, <1>3, <1>6, <1>7, <2>1 DEF PlantInv, Is, Forcing
<1>12. AnswerInv'
  <2>1. \A j \in Rows : Is(j, "mirror") => log[j].of # row.of
    BY <1>1, <1>3 DEF Mirrored, Is, Rows
  <2> QED
    BY <1>2, <1>4, <1>5, <1>7, <2>1, AnswerKept
<1> QED
  BY <1>8, <1>9, <1>10, <1>11, <1>12

\* A call raises, or the process dies.
LEMMA RaisesKeeps == ResolverInv /\ Raises => ResolverInv'
<1> SUFFICES ASSUME ResolverInv, Raises PROVE ResolverInv'
  OBVIOUS
<1> USE DEF ResolverInv
<1>1. log' = Durable /\ begun' = NoUnit /\ call' = NoCall /\ UNCHANGED <<calls, served, shown>>
  BY DEF Raises
<1>2. /\ log' \in Seq(RowType) /\ Len(log') = Kept /\ Kept' = Kept /\ Rows' = 1..Kept
      /\ \A i \in 1..Kept : i \in Rows /\ log'[i] = log[i]
      /\ Kept \in 0..Len(log) /\ Len(log) \in Nat /\ Len(log) <= MaxRows
  BY <1>1, DurableIs, RowsAre DEF Kept, Rows
<1>3. call'.pc = "idle"
  BY <1>1, NoCallType
<1>4. TypeOK'
  BY <1>1, <1>2, NoCallType, Bounds DEF TypeOK, RowType
<1>5. MarkInv'
  <2>1. \A m \in 1..Kept : Is(m, "mark") => \A i \in log[m].memo : i < m
    BY <1>2 DEF MarkInv
  <2>2. \A m \in 1..Kept : Is(m, "mark") => \A i \in log[m].memo : i \in 1..Kept
    BY <1>2, <2>1 DEF MarkInv, Rows
  <2> QED
    BY <1>1, <1>2, <2>2 DEF MarkInv, Is
<1>6. CallInv'
  BY <1>1, <1>3 DEF CallInv, Forcing
<1>7. PlantInv'
  BY <1>1, <1>2, <1>3 DEF PlantInv, Is
<1>8. AnswerInv'
  BY <1>1, <1>2 DEF AnswerInv, Is
<1> QED
  BY <1>4, <1>5, <1>6, <1>7, <1>8

-----------------------------------------------------------------------------
(* The theorems.                                                           *)

\* Every step keeps the invariant.
LEMMA ResolverStepKeeps == ResolverInv /\ [Next]_vars => ResolverInv'
<1>1. ResolverInv /\ UNCHANGED vars => ResolverInv'
  <2> SUFFICES ASSUME ResolverInv, UNCHANGED vars PROVE ResolverInv'
    OBVIOUS
  <2>1. /\ UNCHANGED <<log, begun, call, calls, served, shown>>
        /\ Rows' = Rows /\ Kept' = Kept
    BY DEF vars, Rows, Kept
  <2>2. TypeOK'
    BY <2>1 DEF ResolverInv, TypeOK
  <2>3. MarkInv' /\ AnswerInv'
    BY <2>1 DEF ResolverInv, MarkInv, AnswerInv, Is
  <2>4. CallInv' /\ PlantInv'
    BY <2>1 DEF ResolverInv, CallInv, PlantInv, Is, Forcing
  <2> QED
    BY <2>2, <2>3, <2>4 DEF ResolverInv
<1>2. ResolverInv /\ (Denied \/ Fail) => ResolverInv'
  BY RaisesKeeps DEF Denied, Fail
<1> QED
  BY <1>1, <1>2, HostKeeps, ResolveKeeps, ServeKeeps, PlantAndForceKeeps, ForceKeeps,
     ModelKeeps, ItemKeeps, MarkKeeps, MirrorKeeps, ReturnKeeps DEF Next

\* What every state satisfies.
THEOREM ResolverHolds == Spec => []ResolverInv
BY ResolverInitHolds, ResolverStepKeeps, PTL DEF Spec

\* Elements that are all equal are at most one.
LEMMA AtMostOne ==
  ASSUME NEW S, \A x, y \in S : x = y
  PROVE  Cardinality(S) <= 1
<1>1. CASE S = {}
  BY <1>1, FS_EmptySet
<1>2. CASE S # {}
  <2>1. PICK x \in S : S = {x}
    BY <1>2
  <2> QED
    BY <2>1, FS_Singleton
<1> QED
  BY <1>1, <1>2

\* A spent thunk serves its memo for ever: all answers for it are one answer, durable
\* and generated for it (Resolver.resolve_planted, _resolved_marker).
THEOREM AnswersAreOne == Spec => []OneAnswerPerThunk
<1>1. ASSUME ResolverInv PROVE OneAnswerPerThunk
  <2> SUFFICES ASSUME NEW t \in 1..MaxRows
               PROVE  /\ Cardinality(served[t]) <= 1
                      /\ \A rows \in served[t] : \A i \in rows :
                           i <= Len(Durable) /\ Durable[i].kind = "item" /\ Durable[i].of = t
    BY DEF OneAnswerPerThunk
  <2>1. /\ Len(Durable) = Kept /\ \A i \in 1..Kept : i \in Rows /\ Durable[i] = log[i]
    BY <1>1, DurableIs DEF ResolverInv
  <2>2. \A a, b \in served[t] : a = b
    BY <1>1, <2>1 DEF ResolverInv, AnswerInv, MarkInv
  <2>3. ASSUME NEW rows \in served[t], NEW i \in rows
        PROVE  i <= Len(Durable) /\ Durable[i].kind = "item" /\ Durable[i].of = t
    <3>1. PICK m \in 1..Kept : Is(m, "mark") /\ log[m].of = t /\ log[m].memo = rows
      BY <1>1 DEF ResolverInv, AnswerInv
    <3>2. i \in Rows /\ Is(i, "item") /\ log[i].of = t /\ i < m
      BY <1>1, <2>1, <3>1 DEF ResolverInv, MarkInv
    <3>3. i \in 1..Kept
      BY <1>1, <3>2, RowsAre DEF ResolverInv, Rows
    <3> QED
      BY <2>1, <3>2, <3>3, RowsAre, <1>1 DEF Is, ResolverInv
  <2> QED
    BY <2>2, <2>3, AtMostOne
<1> QED
  BY <1>1, ResolverHolds, PTL

\* What a force leaves is whole, whatever fails: no unspent placeholder of the
\* resolver's own, a marker that names all it made, and every row shown to an
\* observer mirrored once (Resolver._invent, World._resolve_perceived).
THEOREM WholeForces == Spec => []ForcesAreWhole
<1>1. ASSUME ResolverInv PROVE ForcesAreWhole
  <2>1. /\ Len(Durable) = Kept /\ \A i \in 1..Kept : i \in Rows /\ Durable[i] = log[i]
        /\ Kept \in 0..Len(log) /\ Len(log) \in Nat
    BY <1>1, DurableIs, RowsAre DEF ResolverInv
  <2>2. PlantsAreSpent
    <3> SUFFICES ASSUME NEW t \in 1..Kept, log[t].kind = "thunk", log[t].by # 0
                 PROVE  \E i \in 1..Kept : log[i].kind = "mark" /\ log[i].of = t
      BY <2>1 DEF PlantsAreSpent
    <3>1. t \in Rows /\ t <= Kept
      BY <2>1
    <3> QED
      BY <1>1, <3>1 DEF ResolverInv, PlantInv, Is
  <2>3. MemoIsWhole
    <3> SUFFICES ASSUME NEW m \in Rows, log[m].kind = "mark"
                 PROVE  LET items == {i \in Rows : log[i].kind = "item" /\ log[i].of = log[m].of}
                        IN /\ {i \in items : log[i].by = log[m].by} = log[m].memo
                           /\ \A i \in items : i < m
      BY DEF MemoIsWhole, Rows
    <3> QED
      BY <1>1 DEF ResolverInv, MarkInv, Is
  <2>4. PerceivedOnce
    <3> DEFINE mirrors(i) == {j \in 1..Len(log) : log[j].kind = "mirror" /\ log[j].of = i}
    <3>1. ASSUME NEW i \in 1..Len(log) PROVE Cardinality(mirrors(i)) <= 1
      <4>1. \A x, y \in mirrors(i) : x = y
        BY <1>1 DEF ResolverInv, AnswerInv, Is, Rows
      <4> HIDE DEF mirrors
      <4> QED
        BY <4>1, AtMostOne
    <3>2. ASSUME NEW i \in shown PROVE mirrors(i) \intersect 1..Len(Durable) # {}
      BY <1>1, <2>1 DEF ResolverInv, AnswerInv, Is, Rows
    <3> QED
      BY <3>1, <3>2 DEF PerceivedOnce
  <2> QED
    BY <1>1, <2>2, <2>3, <2>4 DEF ForcesAreWhole, ResolverInv
<1> QED
  BY <1>1, ResolverHolds, PTL
=============================================================================
