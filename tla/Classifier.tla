------------------------------ MODULE Classifier ------------------------------
(***************************************************************************)
(* The durability classifier (classify.py): a verdict beside each row of   *)
(* the log, in a sidecar table.                                            *)
(*                                                                         *)
(* Guardrails decide most rows; the model judges the rest, one row at a    *)
(* time or in batches, and may fail, answer in part, or answer with what   *)
(* it may not say.  Verdicts come late: at the write, at the end of a      *)
(* call, at a seal, or again from nothing at a rebuild; the process may    *)
(* die between two of them.  Reads go through a memo.                      *)
(*                                                                         *)
(* Confidence has four levels: 1 below the review floor, 2 above it, 3     *)
(* below the containment floor, 4 at it.                                   *)
(***************************************************************************)
EXTENDS Integers, Sequences, FiniteSets, FiniteSetsExt

CONSTANTS
  Kinds,       \* the rows a call may write
  Containment, \* attributes of the containment family
  ByHand,      \* those of them that say who holds a thing
  Structural,  \* structural attributes
  Occurrences, \* attributes of events, and of rows about rows, that never fold
  Accruing,    \* attributes that accrue
  Answers,     \* what the model may say of a row
  Injected,    \* what set() may be told
  Threshold,   \* how many distinct times make a habit
  MaxLog, MaxEdits \* bounds

\* A location is no event, no name and no declaration; the model is not surer than the
\* floor.
ASSUME ClassifierConstants ==
  /\ Containment \cap (Occurrences \union {"name", "alias", "durability"}) = {}
  /\ Answers \subseteq [durability : STRING, confidence : 1..4]

NoTime == -1
Standing == {"CONSTITUTIVE", "DISPOSITIONAL", "STATE"}
Floor == 4
Verdict(d, c) == [durability |-> d, confidence |-> c]
Silent == Verdict("none", 0) \* no answer: a failed call, a row left out

VARIABLES
  facts,    \* the rows of the log, in order
  sidecar,  \* row -> durability, of the rows judged
  memo,     \* row -> what a read last saw, "none" when unjudged: empty once its key,
            \* the log version and the connection's change count, has moved
  unit,     \* what an open unit of work goes back to, or <<>>
  sure,     \* history: rows a model called permanent at the floor
  told,     \* history: rows whose verdict was injected, or learned before they were judged
  edits     \* history: injections, retractions, rebuilds and crashes

classifierVars == <<facts, sidecar, memo, unit, sure, told, edits>>

-----------------------------------------------------------------------------
(* The guardrails.                                                         *)

\* Whether row j is retracted by one of the first n rows.
Retracted(j, n) == \E m \in 1..n : facts[m].attribute = "retracts" /\ facts[m].value = j

\* durability_pin(): what the host declared of an attribute.
Pin(a) ==
  LET said == {j \in DOMAIN facts : facts[j].attribute = "durability" /\ facts[j].entity = a
                                    /\ ~Retracted(j, Len(facts))}
  IN IF said = {} THEN "none" ELSE facts[Max(said)].value

\* The fixture declarations in force for row i, of the first n rows.
InForce(i, n) ==
  {j \in 1..n : /\ facts[j].attribute = "fixture" /\ facts[j].entity = facts[i].entity
                /\ ~Retracted(j, n)
                /\ facts[j].at = NoTime \/ (facts[i].at # NoTime /\ facts[j].at <= facts[i].at)}

\* _declared_fixture(): as of the row's own position.
DeclaredFixture(i) ==
  LET said == InForce(i, i) IN said # {} /\ facts[Max(said)].value = "true"

\* The guardrails in the order they are asked: whether one applies, and its verdict.
Rules(i) ==
  LET r == facts[i]
      contained == r.attribute \in Containment
  IN << <<r.type = "delta", Verdict("STATE", 4)>>,
        <<r.attribute \in Occurrences, Verdict("EVENT", 4)>>,
        <<r.attribute \in {"name", "alias"}, Verdict("CONSTITUTIVE", 4)>>,
        <<r.attribute = "durability", Verdict("EVENT", 4)>>,
        <<r.type = "unresolved", Verdict("STATE", 4)>>,
        <<Pin(r.attribute) # "none", Verdict(Pin(r.attribute), 4)>>,
        <<contained /\ r.attribute \in ByHand, Verdict("STATE", 4)>>,
        <<contained /\ r.entity = "place", Verdict("CONSTITUTIVE", 3)>>,
        <<contained /\ r.entity = "person", Verdict("STATE", 4)>>,
        <<contained /\ DeclaredFixture(i), Verdict("CONSTITUTIVE", 4)>>,
        <<~contained /\ r.attribute \in Structural, Verdict("CONSTITUTIVE", 4)>>,
        <<r.entity = "row", Verdict("STATE", 1)>> >>

\* _guardrails(): the first that applies.
Guardrails(i) ==
  LET rules == Rules(i)
      hit == {n \in DOMAIN rules : rules[n][1]}
  IN IF hit = {} THEN Silent ELSE rules[Min(hit)][2]
Guarded(i) == Guardrails(i) # Silent

-----------------------------------------------------------------------------
(* The model's verdicts.                                                   *)

\* _apply_containment_floor()
Floored(i, v) ==
  IF v.durability = "CONSTITUTIVE" /\ v.confidence < Floor /\ facts[i].attribute \in Containment
  THEN [v EXCEPT !.durability = "STATE"] ELSE v

\* The asymmetric default of a row the model said nothing lawful of.
Default(i) == Verdict(IF facts[i].attribute \in Containment THEN "CONSTITUTIVE" ELSE "STATE", 1)
Said(i, answer) == IF answer.durability \in Standing THEN answer ELSE Default(i)

\* classify(): one row, one call.
JudgeOne(i, answer) == IF Guarded(i) THEN Guardrails(i) ELSE Floored(i, Said(i, answer))

\* A wrong form: in a batch the default of a row left out keeps its class.
JudgeBatchRaw(i, answer) ==
  IF Guarded(i) THEN Guardrails(i)
  ELSE IF answer.durability \in Standing THEN Floored(i, answer) ELSE Default(i)

\* _apply_verdicts(): a row of a batch.
JudgeBatch(i, answer) == IF Guarded(i) THEN Guardrails(i) ELSE Floored(i, Said(i, answer))

\* classify="rules": no call.
JudgeByRules(i) == IF Guarded(i) THEN Guardrails(i) ELSE Verdict("STATE", 1)

Unjudged == DOMAIN facts \ DOMAIN sidecar

\* A table with the entries of another put over it.
Over(new, old) ==
  [i \in DOMAIN new \union DOMAIN old |-> IF i \in DOMAIN new THEN new[i] ELSE old[i]]

\* Verdicts stored for rows S, given each row's answer; the memo outlives none.
Store(S, verdicts, answers) ==
  /\ sidecar' = Over([i \in S |-> verdicts[i].durability], sidecar)
  /\ sure' = (sure \ S) \union {i \in S : answers[i].durability = "CONSTITUTIVE"
                                         /\ answers[i].confidence = Floor}
  /\ told' = told \ S
  /\ memo' = IF S = {} THEN memo ELSE <<>>

\* The rows a run over S has stored when it stops short: the guarded first, then the
\* rest, each in order.
Prefixes(S) ==
  LET free == {i \in S : ~Guarded(i)}
  IN {{i \in S \ free : i <= n} : n \in 0..Len(facts)} \union
      {(S \ free) \union {i \in free : i <= n} : n \in 0..Len(facts)}

-----------------------------------------------------------------------------
(* Actions.                                                                *)

Edit == edits < MaxEdits /\ edits' = edits + 1
Free == unit = <<>>

ClassifierInit ==
  /\ facts = <<>> /\ sidecar = <<>> /\ memo = <<>>
  /\ unit = <<>>
  /\ sure = {} /\ told = {} /\ edits = 0

\* A call appends a row; a pin only before its attribute has data.
Write(k) ==
  /\ Len(facts) < MaxLog
  /\ k.attribute = "durability" => \A j \in DOMAIN facts : facts[j].attribute # k.entity
  /\ facts' = Append(facts, k)
  /\ memo' = <<>>
  /\ UNCHANGED <<sidecar, unit, sure, told, edits>>

\* classify(): at the write, or of a row still unjudged in classify_all().
Classify(i, answer) ==
  /\ Free /\ i \in Unjudged
  /\ Store({i}, [j \in {i} |-> JudgeOne(j, answer)], [j \in {i} |-> answer])
  /\ UNCHANGED <<facts, unit, edits>>

\* classify_rows() over the unjudged rows after m: at the end of a call, at a seal, or
\* over the whole log; with a crash it stops between two stores.
ClassifyRows(m) ==
  LET S == {i \in Unjudged : i > m} IN
  /\ Free /\ S # {}
  /\ \E done \in Prefixes(S), answers \in [S -> Answers \union {Silent}] :
       /\ \A i \in S : i \notin done \/ Guarded(i) => answers[i] = Silent
       /\ Store(done, [i \in done |-> JudgeBatch(i, answers[i])], answers)
       /\ IF done = S THEN UNCHANGED edits ELSE Edit
  /\ UNCHANGED <<facts, unit>>

\* classify_rows(model=False): in an atomic call too.
ClassifyByRules(m) ==
  LET S == {i \in Unjudged : i > m} IN
  /\ S # {}
  /\ Store(S, [i \in S |-> JudgeByRules(i)], [i \in S |-> Silent])
  /\ UNCHANGED <<facts, unit, edits>>

\* _classify_guarded_since(): only what a guardrail decides.
ClassifyGuarded(m) ==
  LET S == {i \in Unjudged : i > m /\ Guarded(i)} IN
  /\ S # {}
  /\ Store(S, [i \in S |-> JudgeByRules(i)], [i \in S |-> Silent])
  /\ UNCHANGED <<facts, unit, edits>>

\* set(): a component that knows better.
Set(i, d) ==
  /\ Edit /\ i \in DOMAIN facts
  /\ sidecar' = Over([j \in {i} |-> d], sidecar)
  /\ told' = told \union {i} /\ sure' = sure \ {i}
  /\ memo' = <<>>
  /\ UNCHANGED <<facts, unit>>

\* durability(): an unjudged row reads as a state.
Durability(i) == IF i \in DOMAIN sidecar THEN sidecar[i] ELSE "STATE"

\* The rows promote_accruals() groups: what was seen before, now.
Observed ==
  {i \in DOMAIN facts : /\ ~Retracted(i, Len(facts)) /\ facts[i].attribute # "retracts"
                        /\ facts[i].entity # "row"
                        /\ \A j \in DOMAIN facts :
                             facts[j].attribute = "durability" => facts[i].entity # facts[j].entity
                        /\ facts[i].type \notin {"unresolved", "delta"}
                        /\ facts[i].attribute \notin Accruing /\ Pin(facts[i].attribute) = "none"
                        /\ Durability(i) = "STATE"}

\* promote_accruals()
Promote ==
  LET Like(i) == {j \in Observed : /\ facts[j].entity = facts[i].entity
                                   /\ facts[j].attribute = facts[i].attribute
                                   /\ facts[j].value = facts[i].value}
      habits == {i \in Observed : Cardinality({facts[j].at : j \in Like(i)}) >= Threshold}
  IN /\ habits # {}
     /\ sidecar' = Over([i \in habits |-> "DISPOSITIONAL"], sidecar)
     /\ sure' = sure \ habits
     /\ told' = told \union (habits \ DOMAIN sidecar)
     /\ memo' = <<>>
     /\ UNCHANGED <<facts, unit, edits>>

\* rebuild(): the sidecar is dropped, then every row judged again, one by one.
Rebuild ==
  /\ Free /\ Edit
  /\ sidecar' = <<>> /\ sure' = {} /\ told' = {}
  /\ memo' = <<>>
  /\ UNCHANGED <<facts, unit>>

\* A retraction, of data or of a declaration.
Retract(j) ==
  /\ Edit /\ Len(facts) < MaxLog
  /\ facts[j].attribute # "retracts" /\ ~Retracted(j, Len(facts))
  /\ facts' = Append(facts, [entity |-> "row", attribute |-> "retracts", value |-> j,
                             type |-> "literal", at |-> NoTime])
  /\ memo' = <<>>
  /\ UNCHANGED <<sidecar, unit, sure, told>>

\* get(): the memo is filled a row at a time.  One row of it is kept here, since no
\* row's entry bears on another's.
Get(i) ==
  /\ i \in DOMAIN facts \ DOMAIN memo
  /\ memo' = [j \in {i} |-> IF i \in DOMAIN sidecar THEN sidecar[i] ELSE "none"]
  /\ UNCHANGED <<facts, sidecar, unit, sure, told, edits>>

BeginUnit ==
  /\ Free
  /\ unit' = <<[facts |-> facts, sidecar |-> sidecar, sure |-> sure, told |-> told]>>
  /\ UNCHANGED <<facts, sidecar, memo, sure, told, edits>>

Commit == unit # <<>> /\ unit' = <<>> /\ UNCHANGED <<facts, sidecar, memo, sure, told, edits>>

\* What a rollback puts back: rows and verdicts, by SQLite.
Undone ==
  /\ facts' = unit[1].facts /\ sidecar' = unit[1].sidecar
  /\ sure' = unit[1].sure /\ told' = unit[1].told

\* A wrong form: the log version stays, and a rollback changes no row count.
RollbackQuietly ==
  /\ unit # <<>> /\ Edit
  /\ Undone /\ unit' = <<>>
  /\ UNCHANGED memo

\* The unit fails: the log version moves.
Rollback ==
  /\ unit # <<>> /\ Edit
  /\ Undone /\ unit' = <<>>
  /\ memo' = <<>>

ClassifierNext ==
  \/ \E k \in Kinds : Write(k)
  \/ \E i \in DOMAIN facts, answer \in Answers \union {Silent} : Classify(i, answer)
  \/ \E m \in 0..Len(facts) : ClassifyRows(m) \/ ClassifyByRules(m) \/ ClassifyGuarded(m)
  \/ \E i \in DOMAIN facts, d \in Injected : Set(i, d)
  \/ Promote \/ Rebuild
  \/ \E j \in DOMAIN facts : Retract(j) \/ Get(j)
  \/ BeginUnit \/ Commit \/ Rollback

ClassifierSpec == ClassifierInit /\ [][ClassifierNext]_classifierVars

-----------------------------------------------------------------------------
(* What the sidecar promises.                                              *)

\* Whether a declaration of row i's attribute was ever made, retracted or not.
Pinned(i) ==
  \E j \in DOMAIN facts : facts[j].attribute = "durability" /\ facts[j].entity = facts[i].attribute

\* No guess of the model's, no failure and no answer left out freezes a thing where
\* it was first seen or erases a row: unless a component said so, a location is
\* permanent only by a guardrail or by a model's word at the floor, and a row is an
\* event only by a guardrail.
GuessesAreHarmless ==
  \A i \in DOMAIN sidecar \ told : ~Guarded(i) /\ ~Pinned(i) =>
    /\ sidecar[i] # "EVENT"
    /\ sidecar[i] = "CONSTITUTIVE" /\ facts[i].attribute \in Containment => i \in sure

\* What a guardrail decides is decided by the row and what was declared before it,
\* whichever path judged it and whenever: a fixture declared or taken back later
\* changes no verdict, now or at a rebuild.  A state may become a habit.
JudgedAsWritten ==
  \A i \in DOMAIN sidecar \ told :
    LET said == {j \in 1..i :
                   /\ facts[j].attribute = "fixture" /\ facts[j].entity = facts[i].entity
                   /\ ~Retracted(j, i)
                   /\ facts[j].at = NoTime \/ (facts[i].at # NoTime /\ facts[j].at <= facts[i].at)}
        fixed == said # {} /\ facts[Max(said)].value = "true"
        free == facts[i].attribute \in Containment \ ByHand /\ facts[i].entity = "thing"
                /\ facts[i].type = "entity" /\ ~Pinned(i)
    IN free => /\ fixed => sidecar[i] = "CONSTITUTIVE"
               /\ ~fixed /\ i \notin sure => sidecar[i] \in {"STATE", "DISPOSITIONAL"}

\* A read through the memo answers what the sidecar holds, across rollbacks, rebuilds,
\* injections and promotions.
MemoIsSidecar ==
  \A i \in DOMAIN memo : memo[i] = IF i \in DOMAIN sidecar THEN sidecar[i] ELSE "none"

\* A verdict that is read is the one the row was given as it was written, however late
\* it was judged and whatever was rolled back since.
VerdictsHold == JudgedAsWritten /\ MemoIsSidecar
=============================================================================
