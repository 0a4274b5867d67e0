-------------------------------- MODULE Refer --------------------------------
(***************************************************************************)
(* A referring expression is resolved to one thing, to candidates, or to   *)
(* neither (refer.py): names first, then what else is known of the thing,  *)
(* then the one thing of its kind in the scene, then words learned before; *)
(* a model is asked only over candidates.  A word the model maps onto one  *)
(* thing of the scene is learned: the one path that writes.                *)
(*                                                                         *)
(* A text is a model value; ref_norm and the stripping of a determiner are *)
(* functions of it, as is the kind a bare "the drawer" names.              *)
(***************************************************************************)
EXTENDS Walks

CONSTANTS
  Texts,     \* expressions, and the names and words in rows
  Norm,      \* [Texts -> Texts]: ref_norm
  Core,      \* [Texts -> Texts]: without its determiner, normalized
  KindWord   \* the kind a text asks for, or none

ASSUME ReferConstants ==
  /\ Norm \in [Texts -> Texts] /\ Core \in [Texts -> Texts]
  /\ \A d \in Texts : Norm[Norm[d]] = Norm[d]
  /\ Texts \intersect Ids = {}

VARIABLE
  taught     \* the last lesson, if any: [ask, thing, from, upto], the log's heads around it

World == {} \* no scope: the whole world is the scene

-----------------------------------------------------------------------------
(* The vocabulary (identity.py).                                           *)

Vocabulary(text, attrs, q) ==
  {i \in q.rows : log[i].attr \in attrs /\ log[i].v \in Texts /\ Norm[log[i].v] = Norm[text]}

\* _legacy_learned(): aliases the retired path wrote, by their receipt.
Legacy(rows, h) ==
  {i \in rows : /\ log[i].attr = "alias"
                /\ \E j \in 1..h : /\ Visible(j, h) /\ log[j].attr = "source"
                                   /\ log[j].about = i /\ log[j].v = "refer:tier2"}

\* by_alias(), by_learned_alias(): identity as of the position read.
Authored(text, q) ==
  LET rows == Vocabulary(text, {"name", "alias"}, q)
  IN {Rep(q.h)[log[i].e] : i \in rows \ Legacy(rows, q.h)}
Learned(text, q) ==
  LET rows == Vocabulary(text, {"alias", "learned_alias"}, q)
  IN {Rep(q.h)[log[i].e] : i \in {j \in rows : log[j].attr = "learned_alias"} \union Legacy(rows, q.h)}

Wordings(text) == {text, Core[text]}
Hits(text, q) == UNION {Authored(d, q) : d \in Wordings(text)}

-----------------------------------------------------------------------------
(* Tier 1.                                                                 *)

\* _scope_members()
Scene(scope, q) ==
  IF scope = World THEN {Now(log[i].e) : i \in {j \in q.rows : log[j].attr = "kind" /\ log[j].e \in Ids}}
  ELSE Scope(scope, q)

\* _invert(): the container by the contained, the owner by the possession; the first
\* constraint that has an answer.
Nearest(chain) == IF chain = <<>> THEN {} ELSE {Head(chain)}
Constrained(by, q) ==
  CASE by[1] = "contains" -> Nearest(Locate(by[2], q))
    [] by[1] = "owned_by" -> Target(F(Now(by[2]), "owned_by", q))
    [] by[1] = "held_by" -> Target(F(Now(by[2]), "in", q))
FirstAnswer(stages) ==
  IF \A k \in DOMAIN stages : stages[k] = {} THEN 0 ELSE Min({k \in DOMAIN stages : stages[k] # {}})
Answered(stages) == IF FirstAnswer(stages) = 0 THEN {} ELSE stages[FirstAnswer(stages)]
Inverted(ask, q) ==
  Answered([k \in DOMAIN ask.constraints |-> Constrained(ask.constraints[k], q)])

\* The things of the kind asked for, by what their kind folds to.
ThoseOfKind(ask, q) ==
  {x \in Scene(ask.scope, q) :
     F(x, "kind", q).winner # 0 /\ log[F(x, "kind", q).winner].v = KindWord[ask.text]}

\* A learned word answers for a thing of the scene.
InScene(things, ask, q) ==
  IF ask.scope = World THEN things ELSE {x \in things : Now(x) \in Scene(ask.scope, q)}
Words(ask, q) == InScene(UNION {Learned(d, q) : d \in Wordings(ask.text)}, ask, q)

-----------------------------------------------------------------------------
(* The cascade.                                                            *)

\* Names that name one thing; then the constraints; then the kind; then names that
\* name several; then learned words; at last, in a scene, whatever is in it.
OneOf(things) == IF Cardinality(things) = 1 THEN things ELSE {}
Stages(ask, q) ==
  <<OneOf(Hits(ask.text, q)), Inverted(ask, q), ThoseOfKind(ask, q), Hits(ask.text, q), Words(ask, q),
    IF ask.scope = World THEN {} ELSE Scene(ask.scope, q)>>
LearnedStage == 5
Miss == 6

\* One thing is the answer; several are for the model to judge, and a miss always is.
Judged(stage, things) ==
  [stage |-> stage, things |-> things, judged |-> stage = Miss \/ Cardinality(things) > 1]
Cascade(ask, q) == Judged(FirstAnswer(Stages(ask, q)), Answered(Stages(ask, q)))

AskedOf(ask, h) == Cascade(ask, Query(ask.frame, h, ask.t))

-----------------------------------------------------------------------------
(* Learning a word.                                                        *)

\* _knows_word(): whenever the row holds.
KnowsWord(text, x, frame) ==
  \E i \in 1..LogHead :
    /\ Visible(i, LogHead) /\ log[i].frame = frame /\ log[i].attr = "learned_alias"
    /\ log[i].v \in Texts /\ Norm[log[i].v] = Norm[text] /\ SameNow(log[i].e, x)

\* The word's row, and its receipt in canon.
Lesson(ask, x) == Row(x, "learned_alias", Norm[ask.text], Timeless, ask.frame)
Receipt(i) == [Row("row", "source", "refer:tier2", Timeless, "canon") EXCEPT !.about = i]

\* Two commits: the process may die after the first.
Learn(ask, x) ==
  \E one \in Appended(Lesson(ask, x)) :
    log' \in {one, Append(one, WithRep(Receipt(LogHead + 1), Rep(LogHead)))}

\* __call__(), _resolve_tier2(): the model maps a miss onto one of the scene.  Its
\* other answers, and every other path, write nothing.
Ask(ask) ==
  /\ LogHead < world.max
  /\ ask.learn /\ AskedOf(ask, LogHead).stage = Miss
  /\ \E x \in AskedOf(ask, LogHead).things :
       /\ IF KnowsWord(ask.text, x, ask.frame) THEN UNCHANGED log ELSE Learn(ask, x)
       /\ taught' = {[ask |-> ask, thing |-> x, from |-> LogHead, upto |-> Len(log')]}
  /\ UNCHANGED <<hard, world>>

ReferInit == Init /\ taught = {}
ReferNext ==
  \/ Next /\ UNCHANGED taught
  \/ \E ask \in world.asks : Ask(ask)

-----------------------------------------------------------------------------
(* What refer promises.                                                    *)

\* The lesson a word was just learned by.
Lessons == {l \in taught : l.from < l.upto /\ l.upto = LogHead}

\* A word that was learned is the answer from then on: the same question is answered
\* by it, and no model is asked (REFER-LEARNING-V1, the cascade's tier 1d).
LearnedOnce ==
  \A l \in Lessons : AskedOf(l.ask, l.upto) = Judged(LearnedStage, {l.thing})

\* Learning a word changes nothing that names, constraints and kinds answer, nothing
\* in a scene without the thing, and nothing in another frame: a word is never a name.
InReach(ask, l) ==
  /\ ask.frame = l.ask.frame
  /\ l.thing \in Scene(ask.scope, Query(ask.frame, l.from, ask.t)) \/ ask.scope = World
WordsAreNotNames ==
  \A l \in Lessons : \A ask \in world.asks : \A before \in {AskedOf(ask, l.from)} :
    \/ AskedOf(ask, l.upto) = before
    \/ before.stage \notin 1..4 /\ InReach(ask, l)

ReferHolds == LearnedOnce /\ WordsAreNotNames
=============================================================================
