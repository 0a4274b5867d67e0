--------------------------------- MODULE Fold ---------------------------------
(***************************************************************************)
(* Fold (indexes/fold.py, indexes/_core.py, PatternBuffer.visible,         *)
(* TruthMaintenance): what one attribute of a thing is, given everything   *)
(* that was ever said of it.                                               *)
(*                                                                         *)
(* Nothing is stored: an answer is computed from the rows visible at a log *)
(* position (`s` below), the sidecar's durability verdicts and the         *)
(* identity closure.  The actions are what changes those three between two *)
(* reads: a row is said (with its source), a source is stamped on it       *)
(* later, a row is retracted, a placeholder is spent, a verdict is stored, *)
(* two ids turn out to be one.                                             *)
(*                                                                         *)
(* One attribute of one frame; reads have no valid-time bound, rows are    *)
(* open-ended.  Verdicts and the closure are the head's whatever the       *)
(* position read, as the code documents.                                   *)
(***************************************************************************)
EXTENDS Integers, Sequences, FiniteSets, FiniteSetsExt

CONSTANTS
  Subjects,    \* ids of the things the attribute is about
  Places,      \* ids an entity value may be
  Voices,      \* documents and persons a row may be sourced to
  Documents,   \* the documents among them
  Refinements, \* <<approximate, exact>> literals: {gte: 10} and 12
  Policies,    \* how the attribute may be declared
  Offers,      \* for each policy, the rows the host may say
  MaxSteps,    \* bound: everything that happens
  MaxEdits     \* bound: what happens besides saying a row

Ids == Subjects \union Places \union Voices
NoTime == -1
MaxRows == 2 * MaxSteps

\* A row's source is an option: a set of at most one voice.
ASSUME FoldConstants ==
  /\ Documents \subseteq Voices
  /\ Policies \subseteq {"by_class", "containment", "last_write", "set_valued", "accrue"}
  /\ \A p \in Policies : \A said \in Offers[p] :
       /\ said.subject \in Subjects /\ said.at \in Int
       /\ said.type \in {"literal", "entity", "delta", "unresolved"}
       /\ said.by \subseteq Voices /\ \A v, w \in said.by : v = w
  /\ MaxSteps \in Nat /\ MaxEdits \in Nat

VARIABLES
  policy,   \* the attribute's declared semantics
  log,      \* the rows, by seq
  verdict,  \* the classifier's sidecar, by seq ("none": unclassified)
  canon,    \* each id's representative
  edits,    \* history: how many edits were made
  told      \* history: what each position answered before the last row came

vars == <<policy, log, verdict, canon, edits, told>>

\* A row of the attribute, and a row about row `about` (source, retracts,
\* resolved_by).
Fact(said) ==
  [kind |-> "fact", about |-> 0, subject |-> said.subject, type |-> said.type,
   value |-> said.value, at |-> said.at, status |-> said.status]
Meta(kind, about, value) ==
  [kind |-> kind, about |-> about, subject |-> value, type |-> "meta",
   value |-> value, at |-> NoTime, status |-> "stated"]

Init ==
  /\ policy \in Policies
  /\ log = <<>> /\ verdict = [i \in 1..MaxRows |-> "none"]
  /\ canon = [id \in Ids |-> id] /\ edits = 0 /\ told = <<>>

-----------------------------------------------------------------------------
(* Visibility.                                                             *)

\* A wrong form: what a later retraction hides, it hides from the past too.
RetractedEver(i, s) == \E m \in DOMAIN log : log[m].kind = "retracts" /\ log[m].about = i

\* A retraction hides its row from its own position on; retracting the
\* retraction brings nothing back.
Retracted(i, s) == \E m \in 1..s : log[m].kind = "retracts" /\ log[m].about = i

\* PatternBuffer.visible(asserted_as_of=s)
About(kind, i, s) ==
  {m \in (i + 1)..s : log[m].kind = kind /\ log[m].about = i /\ ~Retracted(m, s)}

\* The rows of the key: the attribute over the whole closure of x.
KeyRows(x, s) ==
  {i \in 1..s : /\ log[i].kind = "fact" /\ canon[log[i].subject] = canon[x]
                /\ ~Retracted(i, s)}

Durability(i) == IF verdict[i] = "none" THEN "STATE" ELSE verdict[i]

-----------------------------------------------------------------------------
(* Rows compared.                                                          *)

\* recency_key(): valid time, then log order; a timeless row before all.
Older(i, j) == log[i].at < log[j].at \/ (log[i].at = log[j].at /\ i < j)
LatestAt(S) == {i \in S : \A j \in S : log[j].at <= log[i].at}
Latest(S) == Max(LatestAt(S))

Rank(i) ==
  CASE log[i].status \in {"stated", "observed"} -> 3
    [] log[i].status = "generated" -> 2
    [] log[i].status = "inferred" -> 1
    [] OTHER -> 0
TopEvidence(S) == {i \in S : \A j \in S : Rank(j) <= Rank(i)}

\* _value_key(): an entity value is its identity.
ValueKey(i) == IF log[i].type = "entity" THEN canon[log[i].value] ELSE log[i].value

\* _values_agree(old, new)
Agrees(old, new) ==
  \/ ValueKey(old) = ValueKey(new)
  \/ <<log[old].value, log[new].value>> \in Refinements
Compatible(i, j) == Agrees(i, j) \/ Agrees(j, i)

SourcesRaw(i, s) == {log[m].value : m \in About("source", i, s)}

\* source_class(): a row's documents if it has any, else its speakers, else it is
\* direct; what the engine itself derived is a class by its status.
ClassFrom(i, sources) ==
  IF log[i].status \notin {"stated", "observed"} THEN <<log[i].status, {}>>
  ELSE LET docs == sources \intersect Documents IN
       CASE docs # {} -> <<"document", docs>>
         [] docs = {} /\ sources # {} -> <<"speaker", sources>>
         [] OTHER -> <<"direct", {}>>

\* A wrong form: a source is the id as written, not who it resolves to.
SourceClassRaw(i, s) == ClassFrom(i, SourcesRaw(i, s))

SourceClass(i, s) == ClassFrom(i, {canon[v] : v \in SourcesRaw(i, s)})
ByClass(S, s) ==
  LET class == [i \in S |-> SourceClass(i, s)]
  IN {{i \in S : class[i] = c} : c \in {class[j] : j \in S}}

-----------------------------------------------------------------------------
(* What a fold returns: the row served, the rows in dispute, the rows that *)
(* agreed, the members of a set, the total of a ledger.                    *)

Nothing == [winner |-> 0, parties |-> {}, agreed |-> {}, members |-> {}, quantity |-> 0]
Serve(i) == [Nothing EXCEPT !.winner = i]
Dispute(i, S) == [Nothing EXCEPT !.winner = i, !.parties = S]
Contradict(S) == \E i, j \in S : ValueKey(i) # ValueKey(j)

\* At one instant a STATE row outranks a habit, and only STATE rows contradict.
States(S) == {i \in S : Durability(i) = "STATE"}
Current(S) == IF States(S) # {} THEN States(S) ELSE S

Total(f) == MapThenSumSet(LAMBDA i : f[i], DOMAIN f)

\* _fold_accrue(): the latest absolute, plus the deltas since.
Accrued(S) ==
  LET absolutes == {i \in S : log[i].type = "literal"}
      since == {i \in S : log[i].type = "delta"
                          /\ (absolutes = {} \/ Older(Latest(absolutes), i))}
      base == IF absolutes = {} THEN 0 ELSE log[Latest(absolutes)].value
  IN IF absolutes \union since = {} THEN Nothing
     ELSE [Nothing EXCEPT
             !.winner = Latest(IF since # {} THEN since ELSE absolutes),
             !.quantity = base + Total([i \in since |-> log[i].value])]

\* _fold_set_valued(): the latest row of each member.
Members(S) ==
  LET current == {Latest({j \in S : ValueKey(j) = ValueKey(i)}) : i \in S}
  IN [Serve(Latest(current)) EXCEPT !.members = current]

\* _fold_state(is_containment): each class contributes its latest rows; those at
\* the overall latest time are current.
Moved(S, s) ==
  LET now == Current(LatestAt(UNION {LatestAt(c) : c \in ByClass(S, s)}))
  IN IF Contradict(States(now)) THEN Dispute(Min(now), now) ELSE Serve(Max(now))

\* The parties are those who disagree with what is served, and it.
InDispute(served, winners) ==
  LET against == {i \in winners \ {served} : ~Compatible(served, i)}
  IN IF against = {} THEN {} ELSE {served} \union against

\* The winners of the classes in the order they arrive: the first serves, and one
\* that agrees with what serves takes over (it is as precise, or more).
Serving(winners, agreeing, s) ==
  LET after[n \in 0..s] ==
        CASE n = 0 -> 0
          [] n > 0 /\ n \in winners /\ (after[n - 1] = 0 \/ <<after[n - 1], n>> \in agreeing) -> n
          [] OTHER -> after[n - 1]
  IN after

FirstSeen(classes) == CHOOSE c \in classes : \A d \in classes : Min(c) <= Min(d)

\* _fold_state(): the class first seen that contradicts itself ends the fold;
\* else each class has a winner, and one of them serves.
TornIn(classes) == {c \in classes : Contradict(States(LatestAt(c)))}
TornBy(c) == Dispute(Min(States(LatestAt(c))), States(LatestAt(c)))
ServedBy(winners, s) ==
  LET agreeing == {ij \in winners \X winners : Agrees(ij[1], ij[2])}
      serving == Serving(winners, agreeing, s)
  IN [Nothing EXCEPT
        !.winner = serving[s],
        !.parties = InDispute(serving[s], winners),
        !.agreed = {n \in winners : <<serving[n - 1], n>> \in agreeing}]
WeighedBy(classes, s) ==
  IF TornIn(classes) # {} THEN TornBy(FirstSeen(TornIn(classes)))
  ELSE ServedBy({Max(Current(LatestAt(c))) : c \in classes}, s)
Weighed(S, s) == WeighedBy(ByClass(S, s), s)

\* Structure is never superseded by recency: the earliest of the top rank serves.
Structural(S) == IF Contradict(S) THEN Dispute(Min(S), S) ELSE Serve(Min(S))

\* A delta is no value outside a ledger; a spent placeholder never competes, and
\* no placeholder competes with a concrete row.
Concrete(S, s) ==
  LET values == {i \in S : log[i].type # "delta"}
      open == {i \in values : log[i].type # "unresolved" \/ About("resolved_by", i, s) = {}}
      concrete == {i \in open : log[i].type # "unresolved"}
  IN IF concrete # {} THEN concrete ELSE open

\* _fold_over_closure()
FoldKey(x, s) ==
  LET rows == KeyRows(x, s)
      live == Concrete(rows, s)
      fixed == {i \in live : Durability(i) = "CONSTITUTIVE"}
  IN CASE policy = "accrue" -> Accrued(rows)
       [] policy # "accrue" /\ live = {} -> Nothing
       [] policy = "set_valued" /\ live # {} -> Members(live)
       [] policy = "last_write" /\ live # {} -> Serve(Latest(TopEvidence(live)))
       [] policy \in {"by_class", "containment"} /\ fixed # {} -> Structural(TopEvidence(fixed))
       [] policy = "containment" /\ live # {} /\ fixed = {} -> Moved(TopEvidence(live), s)
       [] policy = "by_class" /\ live # {} /\ fixed = {} -> Weighed(TopEvidence(live), s)

\* confidence(): how many sources beyond the first attest the served value.
Corroboration(x, s) ==
  LET fold == FoldKey(x, s)
      same == {i \in KeyRows(x, s) : log[i].type = log[fold.winner].type
                                      /\ ValueKey(i) = ValueKey(fold.winner)}
  IN IF fold.winner = 0 THEN 0
     ELSE Cardinality({SourceClass(i, s) : i \in {fold.winner} \union fold.agreed \union same}) - 1

\* A wrong form: rows are counted under the id they were written with.
ListedAsWritten(x, s) ==
  /\ policy # "set_valued"
  /\ Cardinality({i \in KeyRows(x, s) : log[i].subject = x}) >= 2
  /\ FoldKey(x, s).parties # {}

\* open_conflicts(): the key of x is folded and found conflicted.
Listed(x, s) ==
  /\ policy # "set_valued"
  /\ Cardinality(KeyRows(x, s)) >= 2
  /\ FoldKey(x, s).parties # {}

-----------------------------------------------------------------------------
(* What changes between two reads.                                         *)

\* Rows are appended, or something else moves under the rows that stand.
Append1(rows) ==
  /\ log' = log \o rows
  /\ told' = [s \in 0..Len(log) |-> [x \in Subjects |-> FoldKey(x, s)]]
  /\ UNCHANGED <<policy, verdict, canon>>
Reread == told' = <<>> /\ UNCHANGED <<policy, log>>
Steps == edits + Cardinality({i \in DOMAIN log : log[i].kind = "fact"})
Edit == edits < MaxEdits /\ Steps < MaxSteps /\ edits' = edits + 1

\* A gate item: the row, and its source after it.
ItemRows(said) ==
  IF said.by = {} THEN <<Fact(said)>>
  ELSE <<Fact(said), Meta("source", Len(log) + 1, CHOOSE v \in said.by : TRUE)>>
Say(said) ==
  /\ Steps < MaxSteps
  /\ Append1(ItemRows(said))
  /\ UNCHANGED edits

\* ingest(source=): the call's rows are stamped by a gate call of their own.
Cite(i, voice) ==
  /\ Edit
  /\ log[i].kind = "fact" /\ Append1(<<Meta("source", i, voice)>>)

\* TruthMaintenance.retract(): any committed row.
Retract(i) == Edit /\ Append1(<<[Meta("retracts", i, 0) EXCEPT !.status = "retracted"]>>)

\* The resolver's marker.
Spend(i) ==
  /\ Edit
  /\ log[i].type = "unresolved" /\ About("resolved_by", i, Len(log)) = {}
  /\ Append1(<<[Meta("resolved_by", i, 0) EXCEPT !.status = "generated"]>>)

\* A verdict of the model, or a pin: a delta and a placeholder are STATE, and a
\* verdict STATE reads as none does.
Classify(i, durability) ==
  /\ Edit /\ Reread
  /\ log[i].kind = "fact" /\ log[i].type \in {"literal", "entity"} /\ verdict[i] = "none"
  /\ verdict' = [verdict EXCEPT ![i] = durability]
  /\ UNCHANGED canon

\* Either closure's representative may be elected.
Merge(x, y) ==
  /\ Edit /\ Reread
  /\ canon[x] # canon[y]
  /\ canon' = [id \in Ids |-> IF canon[id] = canon[y] THEN canon[x] ELSE canon[id]]
  /\ UNCHANGED verdict

Next ==
  \/ \E said \in Offers[policy] : Say(said)
  \/ \E i \in DOMAIN log :
       \/ \E v \in Voices : Cite(i, v)
       \/ Retract(i)
       \/ Spend(i)
       \/ \E d \in {"CONSTITUTIVE", "DISPOSITIONAL"} : Classify(i, d)
  \/ \E Kin \in {Subjects, Places, Documents, Voices \ Documents} :
       \E x, y \in Kin : Merge(x, y)

Spec == Init /\ [][Next]_vars

-----------------------------------------------------------------------------
(* Properties.                                                             *)

\* The representative of a representative is itself; rows are about earlier ones;
\* an answer names visible rows, and who is served is a party to the dispute.
TypeOK ==
  /\ policy \in Policies /\ edits \in 0..MaxEdits /\ Len(log) <= MaxRows
  /\ verdict \in [1..MaxRows -> {"none", "CONSTITUTIVE", "DISPOSITIONAL"}]
  /\ canon \in [Ids -> Ids] /\ \A id \in Ids : canon[canon[id]] = canon[id]
  /\ \A i \in DOMAIN log : log[i].about \in 0..(i - 1)
  /\ \A x \in Subjects, s \in 0..Len(log) :
       LET fold == FoldKey(x, s) IN
       /\ fold.winner \in {0} \union KeyRows(x, s)
       /\ fold.parties # {} => fold.winner \in fold.parties
       /\ fold.parties \union fold.agreed \union fold.members \subseteq KeyRows(x, s)

\* tmaint.py's stated invariant: a key is among the open conflicts iff reading it
\* says it is conflicted, though the two count rows by different routes.
ConflictsListed ==
  /\ TypeOK
  /\ \A x \in Subjects, s \in 0..Len(log) :
       canon[x] = x => (Listed(x, s) <=> FoldKey(x, s).parties # {})

\* Where a thing is depends on when, never on who: of the best-evidenced rows that
\* stand, those at the latest time decide, whatever the sources, and a thing is in
\* dispute only if two of them that say where it is right now disagree.
LaterMoveServes ==
  policy = "containment" =>
    \A x \in Subjects, s \in 0..Len(log) :
      LET live == Concrete(KeyRows(x, s), s)
          best == TopEvidence(live)
          now == {i \in best : \A j \in best : log[j].at <= log[i].at}
          right == {i \in now : Durability(i) = "STATE"}
          fold == FoldKey(x, s)
      IN live # {} /\ (\A i \in live : Durability(i) # "CONSTITUTIVE") =>
           /\ (fold.parties # {}) <=> \E i, j \in right : ValueKey(i) # ValueKey(j)
           /\ fold.winner = IF fold.parties # {} THEN Min(right)
                            ELSE Max(IF right # {} THEN right ELSE now)

\* What a key serves at a position, and the classes heard on it by then.
Served(x, s) ==
  LET i == FoldKey(x, s).winner IN
  [value |-> ValueKey(i), literal |-> log[i].value, rank |-> Rank(i),
   class |-> SourceClass(i, s)]
Heard(x, s) == {SourceClass(i, s) : i \in TopEvidence(Concrete(KeyRows(x, s), s))}

\* The position after row i and the source that came with it.
Sourced(i) == IF i < Len(log) /\ log[i + 1].kind = "source" /\ log[i + 1].about = i
              THEN i + 1 ELSE i

\* Row i being said, x serves another value than before.
Changes(x, i) ==
  /\ policy = "by_class"
  /\ log[i].kind = "fact" /\ Durability(i) # "CONSTITUTIVE"
  /\ LET old == FoldKey(x, i - 1).winner IN old # 0 /\ log[old].type # "unresolved"
  /\ FoldKey(x, Sourced(i)).winner # 0
  /\ Served(x, i - 1).value # Served(x, Sourced(i)).value
Refined(x, i) == <<Served(x, i - 1).literal, Served(x, Sourced(i)).literal>> \in Refinements

\* The assumption quarantine and the flag-and-ask rule: saying one more thing changes
\* what a key serves only if better evidence serves now, or the new word refines what
\* was served, or its source had been heard on the key before.
AnswerIsEarned ==
  \A x \in Subjects, i \in DOMAIN log : Changes(x, i) =>
    LET old == Served(x, i - 1)
        new == Served(x, Sourced(i))
    IN \/ new.rank > old.rank
       \/ /\ new.rank = old.rank
          /\ Refined(x, i) \/ SourceClass(i, Sourced(i)) \in Heard(x, i - 1)

\* What was answered as of a log position is answered for ever: no later row, source,
\* marker or retraction moves it.  (A verdict or a merge does: they are the head's.)
PastIsFixed ==
  \A s \in DOMAIN told : \A x \in Subjects : FoldKey(x, s) = told[s][x]

\* A source is who it turns out to be: when every row of a key comes from one document,
\* under however many ids, nothing corroborates anything, and the document is in
\* dispute only with what it says itself of the same moment.
OneVoice ==
  policy \in {"by_class", "containment", "last_write"} =>
    \A x \in Subjects, s \in 0..Len(log) :
      LET rows == KeyRows(x, s)
          fold == FoldKey(x, s)
      IN (\E d \in Documents : \A i \in rows :
            log[i].status = "stated" /\ {canon[v] : v \in SourcesRaw(i, s)} = {d})
         => /\ Corroboration(x, s) = 0
            /\ \A i, j \in fold.parties : log[i].at = log[j].at
                                         \/ Durability(i) = "CONSTITUTIVE"

\* Who said a thing, and when, weighs as much as it should in what a key serves: time
\* decides where a thing is, one document is one voice, and one more word changes the
\* answer only if it earned it.
SourcesWeighRight == LaterMoveServes /\ OneVoice /\ AnswerIsEarned

\* "The earliest-arrived class is the incumbent", and a disagreeing class never
\* supersedes it: the value a key serves changes hands only to better evidence or
\* to a refinement.
\* The code does not keep this (README, section 6).
IncumbentHolds ==
  \A x \in Subjects, i \in DOMAIN log : Changes(x, i) =>
    LET old == Served(x, i - 1)
        new == Served(x, Sourced(i))
    IN new.rank > old.rank \/ Refined(x, i) \/ new.class = old.class

=============================================================================
