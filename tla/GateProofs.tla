----------------------------- MODULE GateProofs -----------------------------
(***************************************************************************)
(* Theorems about Gate for every set of ids, attributes and calls, every   *)
(* old log and every bound.                                                *)
(*                                                                         *)
(* The argument: what makes a log and the memory beside it sound (Sound)   *)
(* is kept row by row.  So it does not matter after which of an item's     *)
(* rows an append fails or the process dies (Behind, SoundLanded): the     *)
(* rows an item writes are known one by one (LandedRows), a plan's         *)
(* declarations are coherent wherever they stop because the fold policy    *)
(* comes behind the arity and the family it contradicts (CoherentPlanned), *)
(* a receipt is written only for a spelling the map already changes        *)
(* (ReceiptIs), and a kind only of an id whose class has no person's id,   *)
(* while the registry knows every merge of the log (CanonLanded).          *)
(*                                                                         *)
(* An atomic call goes back to a log that was sound (GateInv, `before`),   *)
(* and memory is rebuilt from a sound one.  Only a process that died holds *)
(* memory that the log does not bear out, and nothing is asked of it.      *)
(***************************************************************************)
EXTENDS Gate, Numbers

-----------------------------------------------------------------------------
(* What a log says of its attributes.                                      *)

\* As the module's own reads, of any log R: a row taken back, the declarations of an
\* attribute, those in force on an axis, and what the axis comes to.
BackIn(R, i) == \E m \in DOMAIN R : R[m].attribute = "retracts" /\ R[m].about = i
Of(R, a) == {i \in DOMAIN R : R[i].type = "declaration" /\ R[i].subject = a}
Said(R, a, p) == {i \in Of(R, a) : R[i].attribute = p /\ ~BackIn(R, i)}
Axis(R, a, p) ==
  IF Said(R, a, p) # {} /\ R[Max(Said(R, a, p))].value \in Vocabulary[p]
  THEN R[Max(Said(R, a, p))].value ELSE BuiltinDefault(a)[p]

\* The axes agree, as SemanticsCoherent has it.
Agreeing(f, r, o, s, d) ==
  /\ f = "last_write" => r # "set_valued" /\ o # "containment"
  /\ s = "true" => d \in {"none", "CONSTITUTIVE"}
Coherent(R, a) ==
  \/ \E i \in Of(R, a) : BackIn(R, i)
  \/ Agreeing(Axis(R, a, "fold_policy"), Axis(R, a, "arity"), Axis(R, a, "relation_family"),
              Axis(R, a, "structural"), Axis(R, a, "durability"))

\* R2 is R with rows behind it.
Grown(R, R2) ==
  /\ IsList(R) /\ IsList(R2) /\ Len(R) \in Nat /\ Len(R2) \in Nat /\ Len(R) <= Len(R2)
  /\ DOMAIN R = 1..Len(R) /\ DOMAIN R2 = 1..Len(R2)
  /\ \A i \in 1..Len(R) : R2[i] = R[i]

\* Rows laid behind a log make it grow.
LEMMA GrownBy ==
  ASSUME NEW R, NEW w, IsList(R), IsList(w)
  PROVE  /\ Grown(R, R \o w) /\ Len(R \o w) = Len(R) + Len(w) /\ Len(w) \in Nat
         /\ \A i \in 1..Len(w) : (R \o w)[Len(R) + i] = w[i]
<1>1. /\ IsList(R \o w) /\ Len(R \o w) = Len(R) + Len(w)
      /\ Len(R) \in Nat /\ Len(w) \in Nat /\ DOMAIN R = 1..Len(R)
      /\ \A i \in 1..Len(R) : (R \o w)[i] = R[i]
      /\ \A i \in 1..Len(w) : (R \o w)[Len(R) + i] = w[i]
  BY Joined
<1>2. DOMAIN (R \o w) = 1..Len(R \o w)
  BY <1>1 DEF IsList
<1> QED
  BY <1>1, <1>2 DEF Grown

\* What the semantics view says is what the log says.
LEMMA SemanticsSaid ==
  ASSUME NEW a
  PROVE  /\ Semantics(a) = [p \in Axes |-> Axis(rows, a, p)]
         /\ IsDeclared(a) <=> \E p \in Axes : Said(rows, a, p) # {}
<1>1. \A p : Declared(a, p) = Said(rows, a, p)
  BY DEF Declared, Said, Of, Retracted, BackIn
<1>2. \A p \in Axes :
        (IF Declared(a, p) # {} /\ rows[Max(Declared(a, p))].value \in Vocabulary[p]
         THEN rows[Max(Declared(a, p))].value ELSE BuiltinDefault(a)[p]) = Axis(rows, a, p)
  BY <1>1 DEF Axis
<1> QED
  BY <1>1, <1>2 DEF Semantics, IsDeclared

\* A log that says no more of an attribute is as coherent as it was.
LEMMA CoherentUntold ==
  ASSUME NEW R, NEW R2, Grown(R, R2), NEW a, Coherent(R, a),
         \A i \in (Len(R) + 1)..Len(R2) :
           ~(R2[i].type = "declaration" /\ R2[i].subject = a /\ R2[i].attribute \in Axes)
  PROVE  Coherent(R2, a)
<1>1. CASE \E i \in Of(R2, a) : BackIn(R2, i)
  BY <1>1 DEF Coherent
<1>2. CASE ~\E i \in Of(R2, a) : BackIn(R2, i)
  <2>1. Of(R, a) \subseteq Of(R2, a)
    BY DEF Grown, Of
  <2>2. \A i \in Of(R, a) : ~BackIn(R, i)
    <3>1. ASSUME NEW i \in Of(R, a), BackIn(R, i) PROVE BackIn(R2, i)
      BY <3>1 DEF BackIn, Grown
    <3> QED
      BY <1>2, <2>1, <3>1
  <2>3. \A p \in Axes : Said(R2, a, p) = Said(R, a, p)
    <3>1. ASSUME NEW p \in Axes, NEW i \in Said(R2, a, p) PROVE i \in Said(R, a, p)
      <4>1. i \in 1..Len(R2) /\ R2[i].type = "declaration" /\ R2[i].subject = a /\ R2[i].attribute = p
        BY <3>1 DEF Said, Of, Grown
      <4>2. i \in 1..Len(R)
        BY <4>1 DEF Grown
      <4> QED
        BY <2>2, <4>1, <4>2 DEF Said, Of, Grown
    <3>2. ASSUME NEW p \in Axes, NEW i \in Said(R, a, p) PROVE i \in Said(R2, a, p)
      BY <1>2, <2>1, <3>2 DEF Said, Of, Grown
    <3> QED
      BY <3>1, <3>2
  <2>4. \A p \in Axes : Said(R, a, p) \in SUBSET (1..Len(R))
    BY DEF Said, Of, Grown
  <2>5. \A p \in Axes : Said(R, a, p) # {} => Max(Said(R, a, p)) \in 1..Len(R)
    <3>1. ASSUME NEW p \in Axes, Said(R, a, p) # {} PROVE Max(Said(R, a, p)) \in 1..Len(R)
      <4>1. Len(R) \in Nat
        BY DEF Grown
      <4>2. Max(Said(R, a, p)) \in Said(R, a, p)
        BY <2>4, <3>1, <4>1, MaxIs
      <4> QED
        BY <2>4, <4>2
    <3> QED
      BY <3>1
  <2>6. \A p \in Axes : Axis(R2, a, p) = Axis(R, a, p)
    BY <2>3, <2>5 DEF Axis, Grown
  <2> QED
    BY <2>2, <2>6 DEF Coherent, Axes
<1> QED
  BY <1>1, <1>2

\* R2 says of an attribute, on an axis of which it says anything new, v.
Tells(R, R2, a, p, v) ==
  \E i \in (Len(R) + 1)..Len(R2) :
    R2[i].type = "declaration" /\ R2[i].subject = a /\ R2[i].attribute = p /\ R2[i].value = v

\* What is said on an axis behind a log rules, if it is what the axis may be.
LEMMA LastSays ==
  ASSUME NEW R, NEW R2, Grown(R, R2), NEW a, NEW p \in Axes, NEW v \in Vocabulary[p],
         ~\E i \in Of(R2, a) : BackIn(R2, i), Tells(R, R2, a, p, v),
         \A i \in (Len(R) + 1)..Len(R2) :
           R2[i].type = "declaration" /\ R2[i].subject = a /\ R2[i].attribute = p => R2[i].value = v
  PROVE  Axis(R2, a, p) = v
<1> DEFINE S == Said(R2, a, p)
<1>1. S \in SUBSET (1..Len(R2)) /\ Len(R2) \in Nat
  BY DEF Said, Of, Grown
<1>2. PICK i \in (Len(R) + 1)..Len(R2) : /\ R2[i].type = "declaration" /\ R2[i].subject = a
                                        /\ R2[i].attribute = p
  BY DEF Tells
<1>3. i \in S
  BY <1>2 DEF Said, Of, Grown
<1>4. Max(S) \in S /\ \A j \in S : j <= Max(S)
  <2> HIDE DEF S
  <2> QED
    BY <1>1, <1>3, MaxIs
<1>5. Max(S) \in (Len(R) + 1)..Len(R2)
  BY <1>1, <1>2, <1>3, <1>4 DEF Grown
<1>6. R2[Max(S)].value = v
  BY <1>4, <1>5 DEF Said, Of
<1> QED
  BY <1>3, <1>6 DEF Axis

\* What is not said anew on an axis stays.
LEMMA OldSays ==
  ASSUME NEW R, NEW R2, Grown(R, R2), NEW a, NEW p,
         ~\E i \in Of(R2, a) : BackIn(R2, i),
         \A i \in (Len(R) + 1)..Len(R2) :
           ~(R2[i].type = "declaration" /\ R2[i].subject = a /\ R2[i].attribute = p)
  PROVE  Axis(R2, a, p) = Axis(R, a, p)
<1>1. Of(R, a) \subseteq Of(R2, a)
  BY DEF Grown, Of
<1>2. \A i \in Of(R, a) : ~BackIn(R, i)
  <2>1. ASSUME NEW i \in Of(R, a), BackIn(R, i) PROVE BackIn(R2, i)
    BY <2>1 DEF BackIn, Grown
  <2> QED
    BY <1>1, <2>1
<1>3. Said(R2, a, p) = Said(R, a, p)
  <2>1. ASSUME NEW i \in Said(R2, a, p) PROVE i \in Said(R, a, p)
    <3>1. i \in 1..Len(R2) /\ R2[i].type = "declaration" /\ R2[i].subject = a /\ R2[i].attribute = p
      BY <2>1 DEF Said, Of, Grown
    <3>2. i \in 1..Len(R)
      BY <3>1 DEF Grown
    <3> QED
      BY <1>2, <3>1, <3>2 DEF Said, Of, Grown
  <2>2. ASSUME NEW i \in Said(R, a, p) PROVE i \in Said(R2, a, p)
    BY <1>1, <2>2 DEF Said, Of, Grown
  <2> QED
    BY <2>1, <2>2
<1>4. Said(R, a, p) \in SUBSET (1..Len(R)) /\ Len(R) \in Nat
  BY DEF Said, Of, Grown
<1>5. Said(R, a, p) # {} => Max(Said(R, a, p)) \in 1..Len(R)
  BY <1>4, MaxIs
<1> QED
  BY <1>3, <1>5 DEF Axis, Grown

\* One more declaration, which the gate let in, leaves an attribute coherent.
LEMMA CoherentDeclared ==
  ASSUME NEW R2, Grown(rows, R2), NEW a, Coherent(rows, a), NEW p \in Axes, NEW v,
         InVocabulary([q \in {p} |-> v]), ~Incoherent(a, [q \in {p} |-> v]),
         Tells(rows, R2, a, p, v),
         \A i \in (Len(rows) + 1)..Len(R2) :
           R2[i].type = "declaration" /\ R2[i].subject = a /\ R2[i].attribute \in Axes
           => R2[i].attribute = p /\ R2[i].value = v
  PROVE  Coherent(R2, a)
<1> DEFINE d == [q \in {p} |-> v]
           now == Semantics(a)
<1>1. v \in Vocabulary[p]
  BY DEF InVocabulary, Axes
<1>2. SUFFICES ASSUME ~\E i \in Of(R2, a) : BackIn(R2, i) PROVE Coherent(R2, a)
  BY DEF Coherent
<1>3. ~\E i \in Of(rows, a) : BackIn(rows, i)
  BY <1>2 DEF Grown, Of, BackIn
<1>4. Axis(R2, a, p) = v
  BY <1>1, <1>2, LastSays
<1>5. \A q \in Axes \ {p} : Axis(R2, a, q) = Axis(rows, a, q)
  BY <1>2, OldSays
<1>6. \A q \in Axes : now[q] = Axis(rows, a, q)
  BY SemanticsSaid
<1>7. Agreeing(now["fold_policy"], now["arity"], now["relation_family"],
               now["structural"], now["durability"])
  BY <1>3, <1>6 DEF Coherent, Axes
<1>8. DOMAIN d = {p} /\ d[p] = v
  OBVIOUS
<1>9. v # Unset
  BY <1>1 DEF Axes, Vocabulary, Unset
<1>10. Agreeing(Axis(R2, a, "fold_policy"), Axis(R2, a, "arity"), Axis(R2, a, "relation_family"),
                Axis(R2, a, "structural"), Axis(R2, a, "durability"))
  <2>1. CASE p = "fold_policy"
    <3>1. v = "last_write" => now["arity"] # "set_valued" /\ now["relation_family"] # "containment"
      BY <1>8, <2>1 DEF Incoherent
    <3> QED
      BY <1>4, <1>5, <1>6, <1>7, <2>1, <3>1 DEF Agreeing, Axes
  <2>2. CASE p = "arity"
    <3>1. now["fold_policy"] = "last_write" => v # "set_valued"
      BY <1>8, <2>2 DEF Incoherent, Unset
    <3> QED
      BY <1>4, <1>5, <1>6, <1>7, <2>2, <3>1 DEF Agreeing, Axes
  <2>3. CASE p = "relation_family"
    <3>1. now["fold_policy"] = "last_write" => v # "containment"
      BY <1>8, <2>3 DEF Incoherent, Unset
    <3> QED
      BY <1>4, <1>5, <1>6, <1>7, <2>3, <3>1 DEF Agreeing, Axes
  <2>4. CASE p = "structural"
    <3>1. v = "true" => now["durability"] \in {"none", "CONSTITUTIVE"}
      BY <1>8, <2>4 DEF Incoherent, Unset
    <3> QED
      BY <1>4, <1>5, <1>6, <1>7, <2>4, <3>1 DEF Agreeing, Axes
  <2>5. CASE p = "durability"
    <3>1. now["structural"] = "true" => v = "CONSTITUTIVE"
      BY <1>8, <1>9, <2>5 DEF Incoherent, Unset
    <3> QED
      BY <1>4, <1>5, <1>6, <1>7, <2>5, <3>1 DEF Agreeing, Axes
  <2> QED
    BY <2>1, <2>2, <2>3, <2>4, <2>5 DEF Axes
<1> QED
  BY <1>10 DEF Coherent

\* What the rows behind a log say of a is what d says, fold policy last.
PlanSaid(R, R2, a, d) ==
  \A i \in (Len(R) + 1)..Len(R2) :
    R2[i].type = "declaration" /\ R2[i].subject = a /\ R2[i].attribute \in Axes
    => /\ R2[i].attribute \in DOMAIN d /\ R2[i].value = d[R2[i].attribute]
       /\ R2[i].attribute = "fold_policy" =>
            \A q \in {"arity", "relation_family"} \cap DOMAIN d : Tells(R, R2, a, q, d[q])

\* The first of a plan's declarations, in order, leave a new attribute coherent,
\* wherever they stop.
LEMMA CoherentPlanned ==
  ASSUME NEW R2, Grown(rows, R2), NEW a, a \notin Core, ~IsDeclared(a), NEW d,
         DOMAIN d \subseteq Axes \union {"resolvable_for"}, InVocabulary(d), ~Incoherent(a, d),
         PlanSaid(rows, R2, a, d)
  PROVE  Coherent(R2, a)
<1> DEFINE now == Semantics(a)
           New(p) == \E i \in (Len(rows) + 1)..Len(R2) :
                       R2[i].type = "declaration" /\ R2[i].subject = a /\ R2[i].attribute = p
           then(p) == Axis(R2, a, p)
<1>1. SUFFICES ASSUME ~\E i \in Of(R2, a) : BackIn(R2, i) PROVE Coherent(R2, a)
  BY DEF Coherent
<1>2. \A q \in Axes : now[q] = BuiltinDefault(a)[q] /\ Axis(rows, a, q) = BuiltinDefault(a)[q]
  <2>1. \A q \in Axes : Said(rows, a, q) = {}
    BY SemanticsSaid
  <2> QED
    BY <2>1, SemanticsSaid DEF Axis
<1>3. ASSUME NEW p \in Axes, New(p) PROVE p \in DOMAIN d /\ then(p) = d[p]
  <2>1. p \in DOMAIN d /\ Tells(rows, R2, a, p, d[p])
    BY <1>3 DEF Tells, PlanSaid
  <2>2. d[p] \in Vocabulary[p]
    BY <2>1 DEF InVocabulary, Axes
  <2>3. \A i \in (Len(rows) + 1)..Len(R2) :
          R2[i].type = "declaration" /\ R2[i].subject = a /\ R2[i].attribute = p => R2[i].value = d[p]
    BY DEF PlanSaid
  <2> QED
    BY <1>1, <2>1, <2>2, <2>3, LastSays
<1>4. ASSUME NEW p \in Axes, ~New(p) PROVE then(p) = BuiltinDefault(a)[p]
  BY <1>1, <1>2, <1>4, OldSays
<1>5. /\ BuiltinDefault(a)["fold_policy"] = "by_class" /\ BuiltinDefault(a)["structural"] = "false"
      /\ BuiltinDefault(a)["durability"] = "none"
  BY DEF BuiltinDefault
<1>6. New("fold_policy") => \A q \in {"arity", "relation_family"} \cap DOMAIN d : New(q)
  <2>1. ASSUME NEW i \in (Len(rows) + 1)..Len(R2), R2[i].type = "declaration", R2[i].subject = a,
               R2[i].attribute = "fold_policy",
               NEW q \in {"arity", "relation_family"} \cap DOMAIN d
        PROVE  New(q)
    <3>1. Tells(rows, R2, a, q, d[q])
      BY <2>1 DEF Axes, PlanSaid
    <3> QED
      BY <3>1 DEF Tells
  <2> QED
    BY <2>1
<1> HIDE DEF New, then
<1>7. /\ "fold_policy" \in DOMAIN d /\ d["fold_policy"] = "last_write"
         => /\ (IF "arity" \in DOMAIN d THEN d["arity"] ELSE now["arity"]) # "set_valued"
            /\ (IF "relation_family" \in DOMAIN d THEN d["relation_family"]
                ELSE now["relation_family"]) # "containment"
      /\ "structural" \in DOMAIN d /\ d["structural"] = "true" /\ "durability" \in DOMAIN d
         => d["durability"] = "CONSTITUTIVE"
  <2>1. "durability" \in DOMAIN d => d["durability"] # Unset
    BY DEF InVocabulary, Vocabulary, Unset
  <2>2. /\ "fold_policy" \in DOMAIN d /\ d["fold_policy"] = "last_write"
           => /\ (IF "arity" \in DOMAIN d THEN d["arity"] ELSE now["arity"]) # "set_valued"
              /\ (IF "relation_family" \in DOMAIN d THEN d["relation_family"]
                  ELSE now["relation_family"]) # "containment"
    BY DEF Incoherent
  <2>3. "structural" \in DOMAIN d /\ d["structural"] = "true" /\ "durability" \in DOMAIN d
         => d["durability"] = "CONSTITUTIVE"
    BY <2>1 DEF Incoherent
  <2> QED
    BY <2>2, <2>3
<1>8. then("fold_policy") = "last_write" =>
        then("arity") # "set_valued" /\ then("relation_family") # "containment"
  <2>1. SUFFICES ASSUME then("fold_policy") = "last_write"
                 PROVE  then("arity") # "set_valued" /\ then("relation_family") # "containment"
    OBVIOUS
  <2>2. New("fold_policy") /\ "fold_policy" \in DOMAIN d /\ d["fold_policy"] = "last_write"
    BY <1>3, <1>4, <1>5, <2>1 DEF Axes
  <2>3. \A q \in {"arity", "relation_family"} :
          then(q) = IF q \in DOMAIN d THEN d[q] ELSE now[q]
    <3>1. ASSUME NEW q \in {"arity", "relation_family"}
          PROVE  then(q) = IF q \in DOMAIN d THEN d[q] ELSE now[q]
      <4>1. q \in Axes
        BY DEF Axes
      <4>2. CASE q \in DOMAIN d
        BY <1>3, <1>6, <2>2, <4>1, <4>2
      <4>3. CASE q \notin DOMAIN d
        BY <1>2, <1>3, <1>4, <4>1, <4>3
      <4> QED
        BY <4>2, <4>3
    <3> QED
      BY <3>1
  <2> QED
    BY <1>7, <2>2, <2>3
<1>9. then("structural") = "true" => then("durability") \in {"none", "CONSTITUTIVE"}
  <2>1. SUFFICES ASSUME then("structural") = "true" PROVE then("durability") \in {"none", "CONSTITUTIVE"}
    OBVIOUS
  <2>2. "structural" \in DOMAIN d /\ d["structural"] = "true"
    BY <1>3, <1>4, <1>5, <2>1 DEF Axes
  <2>3. CASE New("durability")
    BY <1>3, <1>7, <2>2, <2>3 DEF Axes
  <2>4. CASE ~New("durability")
    BY <1>4, <1>5, <2>4 DEF Axes
  <2> QED
    BY <2>3, <2>4
<1> QED
  BY <1>8, <1>9 DEF Coherent, Agreeing, then

-----------------------------------------------------------------------------
(* What a written item appends.                                            *)

\* One row, or none.
LEMMA OneOrNone ==
  ASSUME NEW x, NEW c
  PROVE  /\ IsList(IF c THEN <<x>> ELSE <<>>) /\ Range(IF c THEN <<x>> ELSE <<>>) \subseteq {x}
         /\ c => Range(IF c THEN <<x>> ELSE <<>>) = {x}
<1>1. IsList(<<x>>) /\ Range(<<x>>) = {x}
  <2>1. <<x>> \in Seq({x}) /\ DOMAIN <<x>> = 1..1 /\ <<x>>[1] = x
    OBVIOUS
  <2>2. Range(<<x>>) = {x}
    BY <2>1 DEF Range
  <2> QED
    BY <2>1, <2>2 DEF IsList
<1>2. IsList(<<>>) /\ Range(<<>>) = {}
  <2>1. Range(<<>>) = {}
    BY DEF Range
  <2> QED
    BY <2>1 DEF IsList
<1> QED
  BY <1>1, <1>2

\* No row is a list.
LEMMA NoRow == IsList(<<>>) /\ Len(<<>>) = 0 /\ Range(<<>>) = {}
<1>1. Range(<<>>) = {}
  BY DEF Range
<1> QED
  BY <1>1 DEF IsList

\* So are one row, and two.
LEMMA TwoRows == ASSUME NEW x, NEW y PROVE IsList(<<x>>) /\ IsList(<<x, y>>)
<1>1. <<x>> \in Seq({x}) /\ <<x, y>> \in Seq({x, y})
  OBVIOUS
<1>2. IsList(<<x>>)
  BY <1>1, ListOf
<1>3. IsList(<<x, y>>)
  BY <1>1, ListOf
<1> QED
  BY <1>2, <1>3

\* A row beside the main one: of no declaration, merge or retraction, no data but a
\* name, a person's kind, or of another row, and the receipt of what was read.
Side(x, r) ==
  /\ x.type # "declaration" /\ x.attribute \notin {"retracts", "same_as"}
  /\ x.attribute = "kind" => x.value = "person"
  /\ x.about # 0 \/ x.attribute \in {"kind", "alias", "maybe_same_as"}
  /\ x.attribute = "canonicalized_from" => x.value = r.receipt /\ r.receipt # <<>>
Sides(s, r) == IsList(s) /\ \A x \in Range(s) : Side(x, r)

\* Rows beside the main one, put together, are such rows.
LEMMA SidesJoined == ASSUME NEW r, NEW s, NEW t, Sides(s, r), Sides(t, r) PROVE Sides(s \o t, r)
BY Joined DEF Sides

\* One of them, or none.
LEMMA SideOrNone ==
  ASSUME NEW r, NEW x, NEW c, c => Side(x, r) PROVE Sides(IF c THEN <<x>> ELSE <<>>, r)
<1>1. CASE c
  BY <1>1, OneOrNone DEF Sides
<1>2. CASE ~c
  <2>1. (IF c THEN <<x>> ELSE <<>>) = <<>> /\ Range(<<>>) = {}
    BY <1>2 DEF Range
  <2>2. IsList(<<>>)
    BY <2>1 DEF IsList
  <2> QED
    BY <2>1, <2>2 DEF Sides
<1> QED
  BY <1>1, <1>2

\* The rows beside the main one are such rows.
LEMMA SidesAre == ASSUME NEW it, NEW r, NEW n PROVE Sides(SideRows(it, r, n), r)
<1> DEFINE named == \E i \in Visible(r.frame, NoTime) :
                      rows[i].attribute = "kind" /\ rows[i].value = "person"
                      /\ Rep(rows[i].subject) = Rep(r.subject)
           t(when, attribute, value) ==
             IF n # 0 /\ when THEN <<About(it.id, n, attribute, value)>> ELSE <<>>
           kind == [Row(it.id, Rep(r.subject), "kind", "person", "literal") EXCEPT !.frame = r.frame]
           alias == [Row(it.id, Rep(it.entity), "alias", "name", "literal")
                     EXCEPT !.frame = r.frame, !.status = it.status]
           same == Row(it.id, Rep(it.entity), "maybe_same_as", it.same, "edge")
           s1 == t(r.demoted, "source_valid_from", it.from)
           s2 == t(r.receipt # <<>>, "canonicalized_from", r.receipt)
           s3 == t(RoleMove(r), "reclassified_from", "kind")
           s4 == IF RoleMove(r) /\ ~named THEN <<kind>> ELSE <<>>
           s5 == t("source" \in it.sides, "source", "doc")
           s6 == t("cause" \in it.sides, "caused_by", "event")
           s7 == IF "alias" \in it.sides THEN <<alias>> ELSE <<>>
           s8 == t("correction" \in it.sides, "correction_proposal", "true")
           s9 == IF it.same \in Ids /\ r.frame = "canon" THEN <<same>> ELSE <<>>
<1>1. SideRows(it, r, n) = s1 \o s2 \o s3 \o s4 \o s5 \o s6 \o s7 \o s8 \o s9
  BY DEF SideRows
<1>2. ASSUME NEW when, NEW a \in {"source_valid_from", "reclassified_from", "source", "caused_by",
                                  "correction_proposal"}, NEW value
      PROVE  Sides(t(when, a, value), r)
  <2>1. n # 0 => Side(About(it.id, n, a, value), r)
    BY DEF Side, About, Row
  <2> QED
    BY <2>1, SideOrNone
<1>3. Sides(s2, r)
  <2>1. n # 0 /\ r.receipt # <<>> => Side(About(it.id, n, "canonicalized_from", r.receipt), r)
    BY DEF Side, About, Row
  <2> QED
    BY <2>1, SideOrNone
<1>4. Side(kind, r) /\ Side(alias, r) /\ Side(same, r)
  BY DEF Side, Row
<1>5. Sides(s1, r) /\ Sides(s3, r) /\ Sides(s5, r) /\ Sides(s6, r) /\ Sides(s8, r)
  <2> HIDE DEF t
  <2> QED
    BY <1>2
<1>6. Sides(s4, r) /\ Sides(s7, r) /\ Sides(s9, r)
  <2> HIDE DEF kind, alias, same, named
  <2> QED
    BY <1>4, SideOrNone
<1> HIDE DEF s1, s2, s3, s4, s5, s6, s7, s8, s9
<1>7. Sides(s1 \o s2, r)
  BY <1>3, <1>5, SidesJoined
<1>8. Sides(s1 \o s2 \o s3, r)
  BY <1>5, <1>7, SidesJoined
<1>9. Sides(s1 \o s2 \o s3 \o s4, r)
  BY <1>6, <1>8, SidesJoined
<1>10. Sides(s1 \o s2 \o s3 \o s4 \o s5, r)
  BY <1>5, <1>9, SidesJoined
<1>11. Sides(s1 \o s2 \o s3 \o s4 \o s5 \o s6, r)
  BY <1>5, <1>10, SidesJoined
<1>12. Sides(s1 \o s2 \o s3 \o s4 \o s5 \o s6 \o s7, r)
  BY <1>6, <1>11, SidesJoined
<1>13. Sides(s1 \o s2 \o s3 \o s4 \o s5 \o s6 \o s7 \o s8, r)
  BY <1>5, <1>12, SidesJoined
<1>14. Sides(s1 \o s2 \o s3 \o s4 \o s5 \o s6 \o s7 \o s8 \o s9, r)
  BY <1>6, <1>13, SidesJoined
<1> QED
  BY <1>1, <1>14

\* The declarations a plan writes: each what the plan says of its axis, the arity and
\* the family before the fold policy.
Declaring(D, id, a, d) ==
  /\ IsList(D) /\ Len(D) \in Nat
  /\ \A i \in 1..Len(D) : \E p \in DOMAIN d : D[i] = Row(id, a, p, d[p], "declaration")
  /\ DOMAIN d # {} => Len(D) > 0
  /\ \A i \in 1..Len(D) : D[i].attribute = "fold_policy" =>
       \A q \in {"arity", "relation_family"} \cap DOMAIN d :
         \E j \in 1..i : D[j] = Row(id, a, q, d[q], "declaration")

\* DeclarationRows writes them so.
LEMMA PlanIsDeclared ==
  ASSUME NEW it, NEW r, r.type # "declaration",
         DOMAIN Declares(r, it).says \subseteq Axes \union {"resolvable_for"}
  PROVE  Declaring(DeclarationRows(it, r), it.id, Declares(r, it).of, Declares(r, it).says)
<1> DEFINE a == Declares(r, it).of
           d == Declares(r, it).says
           row(p) == Row(it.id, a, p, d[p], "declaration")
           s(p) == IF p \in DOMAIN d THEN <<row(p)>> ELSE <<>>
           first == s("arity") \o s("relation_family")
           second == first \o s("fold_policy")
           third == second \o s("structural")
           fourth == third \o s("durability")
           D == fourth \o s("resolvable_for")
<1>1. DeclarationRows(it, r) = D
  BY DEF DeclarationRows
<1>2. DOMAIN d \subseteq {"arity", "relation_family", "fold_policy", "structural", "durability",
                          "resolvable_for"}
  BY DEF Axes
<1>3. \A p : row(p).attribute = p
  BY DEF Row
<1>4. ASSUME NEW p PROVE /\ IsList(s(p)) /\ Range(s(p)) \subseteq {row(p)}
                         /\ p \in DOMAIN d => Range(s(p)) = {row(p)}
                         /\ p \notin DOMAIN d => Range(s(p)) = {}
  <2>1. p \notin DOMAIN d => Range(s(p)) = {}
    BY DEF Range
  <2> QED
    BY <2>1, OneOrNone
<1> HIDE DEF d, a, row, s
<1>5. /\ IsList(first) /\ Range(first) = Range(s("arity")) \union Range(s("relation_family"))
      /\ Len(first) \in Nat /\ DOMAIN first = 1..Len(first)
  <2>1. IsList(first) /\ Range(first) = Range(s("arity")) \union Range(s("relation_family"))
    BY <1>4, Joined
  <2> QED
    BY <2>1 DEF IsList
<1> HIDE DEF first
<1>6. IsList(second) /\ Range(second) = Range(first) \union Range(s("fold_policy"))
  BY <1>4, <1>5, Joined
<1> HIDE DEF second
<1>7. IsList(third) /\ Range(third) = Range(second) \union Range(s("structural"))
  BY <1>4, <1>6, Joined
<1> HIDE DEF third
<1>8. IsList(fourth) /\ Range(fourth) = Range(third) \union Range(s("durability"))
  BY <1>4, <1>7, Joined
<1> HIDE DEF fourth
<1>9. IsList(D) /\ Range(D) = Range(fourth) \union Range(s("resolvable_for"))
  BY <1>4, <1>8, Joined
<1>10. \A i \in 1..Len(first) : i \in 1..Len(D) /\ D[i] = first[i]
  <2>1. Len(second) = Len(first) + Len(s("fold_policy")) /\ Len(s("fold_policy")) \in Nat
        /\ \A i \in 1..Len(first) : second[i] = first[i]
    BY <1>4, <1>5, Joined DEF second
  <2>2. Len(third) = Len(second) + Len(s("structural")) /\ Len(s("structural")) \in Nat
        /\ \A i \in 1..Len(second) : third[i] = second[i]
    BY <1>4, <1>6, Joined DEF third
  <2>3. Len(fourth) = Len(third) + Len(s("durability")) /\ Len(s("durability")) \in Nat
        /\ \A i \in 1..Len(third) : fourth[i] = third[i]
    BY <1>4, <1>7, Joined DEF fourth
  <2>4. Len(D) = Len(fourth) + Len(s("resolvable_for")) /\ Len(s("resolvable_for")) \in Nat
        /\ \A i \in 1..Len(fourth) : D[i] = fourth[i]
    BY <1>4, <1>8, Joined
  <2> HIDE DEF D
  <2> QED
    BY <1>5, <2>1, <2>2, <2>3, <2>4
<1>11. Range(D) = {row(p) : p \in DOMAIN d}
  <2>1. Range(D) = UNION {Range(s(p)) : p \in {"arity", "relation_family", "fold_policy",
                                               "structural", "durability", "resolvable_for"}}
    BY <1>5, <1>6, <1>7, <1>8, <1>9
  <2> HIDE DEF D
  <2> QED
    BY <1>2, <1>4, <2>1
<1> HIDE DEF D
<1>12. Len(D) \in Nat /\ DOMAIN D = 1..Len(D)
  BY <1>9 DEF IsList
<1>13. \A i \in 1..Len(D) : \E p \in DOMAIN d : D[i] = row(p)
  BY <1>11, <1>12 DEF Range
<1>14. DOMAIN d # {} => Len(D) > 0
  <2>1. ASSUME NEW p \in DOMAIN d PROVE Len(D) > 0
    <3>1. row(p) \in Range(D)
      BY <1>11
    <3>2. PICK i \in DOMAIN D : D[i] = row(p)
      BY <3>1 DEF Range
    <3> QED
      BY <1>12
  <2> QED
    BY <2>1
<1>15. ASSUME NEW i \in 1..Len(D), D[i].attribute = "fold_policy",
              NEW q \in {"arity", "relation_family"} \cap DOMAIN d
       PROVE  \E j \in 1..i : D[j] = row(q)
  <2>1. row(q) \in Range(first)
    BY <1>4, <1>5
  <2>2. PICK j \in 1..Len(first) : first[j] = row(q)
    BY <1>5, <2>1 DEF Range
  <2>3. \A k \in 1..Len(first) : first[k] \in {row("arity"), row("relation_family")}
    <3>1. \A k \in 1..Len(first) : first[k] \in Range(first)
      BY <1>5 DEF Range
    <3> QED
      BY <1>4, <1>5, <3>1
  <2>4. \A k \in 1..Len(first) : D[k].attribute # "fold_policy"
    BY <1>3, <1>10, <2>3
  <2>5. i > Len(first)
    BY <1>5, <1>12, <1>15, <2>4
  <2> QED
    BY <1>10, <2>2, <2>5
<1> QED
  BY <1>1, <1>9, <1>12, <1>13, <1>14, <1>15 DEF Declaring, row, a, d

\* An item of a call, numbered or passed over.
Item(it) ==
  /\ it.type \in {Unset, "entity", "literal"}
  /\ DOMAIN it.hints \subseteq {"arity", "relation_family", "fold_policy"}
  /\ it.op = "declare" => it.entity \notin Ids

\* How an item that is written was read.
LEMMA ReadIs ==
  ASSUME NEW it, Item(it), Outcome(it) = "written", NEW r, r = Read(it)
  PROVE  /\ r.type \in {"declaration", "entity", "literal"}
         /\ r.attribute \notin Mechanism
         /\ r.type # "declaration" => r.subject \in Ids
         /\ r.type = "entity" => r.value \in Ids
         /\ r.attribute = "same_as" => r.type = "entity"
         /\ r.type = "declaration" <=> IsDeclaration(it)
<1>1. ~Skipped(it, r)
  BY DEF Outcome
<1>2. r.type = IF IsDeclaration(it) THEN "declaration" ELSE TypeOf(it)
  BY DEF Read
<1>3. TypeOf(it) \in {"entity", "literal"}
  BY DEF Item, TypeOf, Unset
<1>4. /\ r.attribute \notin Mechanism
      /\ r.type # "declaration" => r.subject \in Ids
      /\ r.type = "entity" => r.value \in Ids
      /\ r.attribute = "same_as" => r.type = "entity"
  BY <1>1 DEF Skipped
<1> QED
  BY <1>2, <1>3, <1>4

\* The plan of an item is the item's hints, the host's default, or nothing.
LEMMA PlanHas ==
  ASSUME NEW it, Item(it), NEW r
  PROVE  LET d == Declares(r, it)
         IN /\ r.type # "declaration" => DOMAIN d.says \subseteq Axes \union {"resolvable_for"}
            /\ r.type # "declaration" /\ DOMAIN d.says # {} => d.of \notin Core /\ ~IsDeclared(d.of)
            /\ r.type # "declaration" /\ d.of \in Core => DOMAIN d.says = {}
            /\ r.type # "declaration" /\ DOMAIN d.says = {} /\ d.of \in DOMAIN Default
                 => IsDeclared(d.of) \/ d.of \in asked
            /\ PlanOf(r, it).by = "host"
                 => r.type # "declaration" /\ PlanOf(r, it).says = d.says
                    /\ (d.of \in DOMAIN Default => DOMAIN d.says # {})
<1> DEFINE a == IF RoleMove(r) THEN "role" ELSE r.attribute
           d == Declares(r, it)
<1>1. CASE r.type = "declaration"
  BY <1>1 DEF PlanOf, NoPlan
<1>2. CASE r.type # "declaration"
  <2>1. d.of = a /\ d.says = PlanOf(r, it).says /\ PlanOf(r, it) = Plan(a, it)
    BY <1>2 DEF Declares, PlanOf
  <2> HIDE DEF a, d
  <2>2. DOMAIN <<>> = {}
    OBVIOUS
  <2>3. CASE a \in Core \/ IsDeclared(a)
    <3>1. Plan(a, it) = NoPlan
      BY <2>3 DEF Plan
    <3>2. /\ DOMAIN d.says = {} /\ PlanOf(r, it).by = "nobody" /\ d.of = a
          /\ a \in DOMAIN Default => IsDeclared(a)
      BY <2>1, <2>2, <2>3, <3>1, GateConstants DEF NoPlan
    <3> QED
      BY <1>2, <3>2 DEF d
  <2>4. CASE a \notin Core /\ ~IsDeclared(a) /\ DOMAIN it.hints # {}
    <3>1. Plan(a, it) = [by |-> "item", says |-> it.hints]
      BY <2>4 DEF Plan
    <3>2. /\ DOMAIN d.says = DOMAIN it.hints /\ PlanOf(r, it).by = "item" /\ d.of = a
          /\ DOMAIN it.hints \subseteq Axes
      BY <2>1, <3>1 DEF Item, Axes
    <3> QED
      BY <1>2, <2>4, <3>2 DEF d
  <2>5. CASE a \notin Core /\ ~IsDeclared(a) /\ DOMAIN it.hints = {}
    <3>1. CASE a \in asked
      <4>1. Plan(a, it) = NoPlan
        BY <2>5, <3>1 DEF Plan
      <4>2. DOMAIN d.says = {} /\ PlanOf(r, it).by = "nobody" /\ d.of = a
        BY <2>1, <2>2, <4>1 DEF NoPlan
      <4> QED
        BY <1>2, <3>1, <4>2 DEF d
    <3>2. CASE a \notin asked
      <4>1. Plan(a, it) = [by |-> "host", says |-> IF a \in DOMAIN Default THEN Default[a] ELSE <<>>]
        BY <2>5, <3>2 DEF Plan
      <4>2. /\ d.of = a /\ d.says = PlanOf(r, it).says
            /\ DOMAIN d.says = IF a \in DOMAIN Default THEN DOMAIN Default[a] ELSE {}
        BY <2>1, <2>2, <4>1
      <4>3. a \in DOMAIN Default => /\ DOMAIN Default[a] # {}
                                    /\ DOMAIN Default[a] \subseteq Axes \union {"resolvable_for"}
        BY GateConstants
      <4> QED
        BY <1>2, <2>5, <4>2, <4>3 DEF d
    <3> QED
      BY <3>1, <3>2
  <2> QED
    BY <2>3, <2>4, <2>5
<1> QED
  BY <1>1, <1>2

\* The main row of an item that merges nothing.
Main(it, r) ==
  [Row(it.id, Rep(r.subject), IF RoleMove(r) THEN "role" ELSE r.attribute,
       IF r.type = "entity" THEN Rep(r.value) ELSE r.value, r.type)
   EXCEPT !.at = r.at, !.to = r.to, !.frame = r.frame, !.status = it.status,
          !.raw = <<it.entity, it.value>>]
Edge(it, r) == Row(it.id, r.subject, "same_as", r.value, "edge")
Event(it, r) == Row(it.id, "merge", "kind", "identity_merge", "event")

\* Declarations, then the main row, then the others; of a merge, its event and its edge.
LEMMA WrittenIs ==
  ASSUME NEW it, Item(it), Outcome(it) = "written", NEW r, r = Read(it),
         NEW D, D = DeclarationRows(it, r), NEW W, W = Written(it)
  PROVE  /\ IsList(W) /\ Len(W) \in Nat /\ Len(D) \in Nat
         /\ \A i \in 1..Len(W) : i <= Len(D) => W[i] = D[i]
         /\ r.type = "declaration" => Len(D) = 0
         /\ r.type # "declaration" => Declaring(D, it.id, Declares(r, it).of, Declares(r, it).says)
         /\ r.attribute # "same_as" =>
              /\ Len(W) > Len(D) /\ W[Len(D) + 1] = Main(it, r)
              /\ \A i \in 1..Len(W) : i > Len(D) + 1 => Side(W[i], r)
         /\ r.attribute = "same_as" /\ Rep(r.subject) # Rep(r.value) =>
              /\ Len(D) = 0 /\ Len(W) >= 2 /\ W[1] = Event(it, r) /\ W[2] = Edge(it, r)
              /\ \A i \in 1..Len(W) : i > 2 => Side(W[i], r)
         /\ r.attribute = "same_as" /\ Rep(r.subject) = Rep(r.value) =>
              Len(D) = 0 /\ \A i \in 1..Len(W) : Side(W[i], r)
<1> DEFINE M == MainRows(it, r)
           n == IF M = <<>> THEN 0 ELSE Len(rows) + Len(D \o M)
           S == SideRows(it, r, n)
           d == Declares(r, it)
<1>1. W = (D \o M) \o S
  BY DEF Written
<1>2. Sides(S, r)
  BY SidesAre
<1>3. /\ r.type = "declaration" => D = <<>>
      /\ r.type # "declaration" => Declaring(D, it.id, d.of, d.says)
  BY PlanHas, PlanIsDeclared DEF DeclarationRows
<1>4. IsList(D) /\ Len(D) \in Nat /\ (r.type = "declaration" => Len(D) = 0)
  <2>1. CASE r.type = "declaration"
    <3>1. D = <<>>
      BY <1>3, <2>1
    <3> QED
      BY <3>1, NoRow
  <2>2. CASE r.type # "declaration"
    BY <1>3, <2>2 DEF Declaring
  <2> QED
    BY <2>1, <2>2
<1>5. r.attribute = "same_as" => r.type = "entity"
  BY ReadIs
<1>6. r.attribute = "same_as" => Len(D) = 0
  <2>1. SUFFICES ASSUME r.attribute = "same_as" PROVE Len(D) = 0
    OBVIOUS
  <2>2. ~RoleMove(r) /\ "same_as" \in Core
    BY <2>1, GateConstants DEF RoleMove, IdentityEdges
  <2>3. d.of = "same_as"
    BY <1>5, <2>1, <2>2 DEF Declares
  <2>4. DOMAIN d.says = {}
    BY <1>5, <2>1, <2>2, <2>3, PlanHas
  <2> QED
    BY <1>3, <1>4, <1>5, <2>1, <2>4 DEF Declaring
<1>7. /\ r.attribute # "same_as" => M = <<Main(it, r)>>
      /\ r.attribute = "same_as" /\ Rep(r.subject) = Rep(r.value) => M = <<>>
      /\ r.attribute = "same_as" /\ Rep(r.subject) # Rep(r.value) => M = <<Event(it, r), Edge(it, r)>>
  BY DEF MainRows, Main, Event, Edge
<1> HIDE DEF M, S, d
<1>8. IsList(M) /\ Len(M) \in Nat
  <2>1. IsList(M)
    BY <1>7, NoRow, TwoRows
  <2> QED
    BY <2>1 DEF IsList
<1>9. /\ IsList(D \o M) /\ Len(D \o M) = Len(D) + Len(M)
      /\ \A i \in 1..Len(D) : (D \o M)[i] = D[i]
      /\ \A i \in 1..Len(M) : (D \o M)[Len(D) + i] = M[i]
  BY <1>4, <1>8, Joined
<1>10. /\ IsList(W) /\ Len(W) = Len(D \o M) + Len(S) /\ Len(S) \in Nat
       /\ \A i \in 1..Len(D \o M) : W[i] = (D \o M)[i]
       /\ \A i \in 1..Len(S) : W[Len(D \o M) + i] = S[i] /\ Side(S[i], r)
  <2>1. IsList(S)
    BY <1>2 DEF Sides
  <2>2. /\ IsList(W) /\ Len(W) = Len(D \o M) + Len(S) /\ Len(S) \in Nat
        /\ \A i \in 1..Len(D \o M) : W[i] = (D \o M)[i]
        /\ \A i \in 1..Len(S) : W[Len(D \o M) + i] = S[i]
    BY <1>1, <1>9, <2>1, Joined
  <2>3. DOMAIN S = 1..Len(S)
    BY <2>1 DEF IsList
  <2>4. \A i \in 1..Len(S) : Side(S[i], r)
    BY <1>2, <2>3 DEF Sides, Range
  <2> QED
    BY <2>2, <2>4
<1>11. /\ Len(W) \in Nat /\ Len(W) = Len(D) + Len(M) + Len(S)
       /\ \A i \in 1..Len(D) : W[i] = D[i]
       /\ \A i \in 1..Len(M) : W[Len(D) + i] = M[i]
       /\ \A i \in 1..Len(W) : i > Len(D) + Len(M) => Side(W[i], r)
  <2>1. Len(W) = Len(D) + Len(M) + Len(S)
    BY <1>4, <1>8, <1>9, <1>10
  <2>2. \A i \in 1..Len(D) : i \in 1..Len(D \o M)
    BY <1>4, <1>8, <1>9
  <2>3. \A i \in 1..Len(M) : Len(D) + i \in 1..Len(D \o M)
    BY <1>4, <1>8, <1>9
  <2>4. ASSUME NEW i \in 1..Len(W), i > Len(D) + Len(M) PROVE Side(W[i], r)
    <3>1. i - Len(D \o M) \in 1..Len(S) /\ i = Len(D \o M) + (i - Len(D \o M))
      BY <1>4, <1>8, <1>9, <1>10, <2>1, <2>4
    <3> QED
      BY <1>10, <3>1
  <2>5. \A i \in 1..Len(D) : W[i] = D[i]
    BY <1>9, <1>10, <2>2
  <2>6. \A i \in 1..Len(M) : W[Len(D) + i] = M[i]
    BY <1>9, <1>10, <2>3
  <2>7. Len(W) \in Nat
    BY <1>4, <1>8, <1>10, <2>1
  <2> QED
    BY <2>1, <2>4, <2>5, <2>6, <2>7
<1>12. CASE r.attribute # "same_as"
  <2>1. Len(M) = 1 /\ M[1] = Main(it, r)
    BY <1>7, <1>12
  <2> QED
    BY <1>3, <1>4, <1>10, <1>11, <1>12, <2>1 DEF d
<1>13. CASE r.attribute = "same_as" /\ Rep(r.subject) = Rep(r.value)
  <2>1. Len(M) = 0
    BY <1>7, <1>13
  <2> QED
    BY <1>3, <1>4, <1>6, <1>10, <1>11, <1>13, <2>1 DEF d
<1>14. CASE r.attribute = "same_as" /\ Rep(r.subject) # Rep(r.value)
  <2>1. Len(M) = 2 /\ M[1] = Event(it, r) /\ M[2] = Edge(it, r)
    BY <1>7, <1>14
  <2> QED
    BY <1>3, <1>4, <1>6, <1>10, <1>11, <1>14, <2>1 DEF d
<1> QED
  BY <1>12, <1>13, <1>14

-----------------------------------------------------------------------------
(* Who a chain of merges joins.                                            *)

\* The ids x is known as, and one more row.
Further(ids, row) ==
  IF row.attribute = "same_as" /\ {row.subject, row.value} \intersect ids # {}
  THEN ids \union {row.subject, row.value} ELSE ids
Joining(R, x, n) ==
  LET join[k \in 0..n] == IF k = 0 THEN {x} ELSE Further(join[k - 1], R[k]) IN join
Kin(R, x, n) == Joining(R, x, n)[n]

\* Each row's part in it.
LEMMA JoiningIs ==
  ASSUME NEW R, NEW x, NEW n \in Nat
  PROVE  /\ Joining(R, x, n)[0] = {x}
         /\ \A k \in 1..n : Joining(R, x, n)[k] = Further(Joining(R, x, n)[k - 1], R[k])
<1> DEFINE Step(g, k) == IF k = 0 THEN {x} ELSE Further(g[k - 1], R[k])
           Is(g, m) == g = [k \in 0..m |-> Step(g, k)]
           Bad == {m \in Nat : ~\E g : Is(g, m)}
<1>1. ASSUME NEW m \in Nat \ {0}, NEW g, Is(g, m - 1) PROVE \E f : Is(f, m)
  <2> DEFINE f == [k \in 0..m |-> IF k = m THEN Step(g, m) ELSE g[k]]
  <2>1. \A k \in 0..(m - 1) : f[k] = g[k]
    OBVIOUS
  <2>2. ASSUME NEW k \in 0..m PROVE f[k] = Step(f, k)
    <3>1. k # 0 => f[k - 1] = g[k - 1]
      BY <2>1
    <3>2. CASE k = m
      BY <3>1, <3>2
    <3>3. CASE k # m
      <4>1. k \in 0..(m - 1)
        BY <3>3
      <4>2. g[k] = Step(g, k)
        BY <1>1, <4>1
      <4> QED
        BY <2>1, <3>1, <4>1, <4>2
    <3> QED
      BY <3>2, <3>3
  <2>3. f = [k \in 0..m |-> f[k]]
    OBVIOUS
  <2> HIDE DEF f, Step
  <2>4. Is(f, m)
    BY <2>2, <2>3
  <2> QED
    BY <2>4
<1>2. \E g : Is(g, 0)
  <2>1. Is([k \in 0..0 |-> {x}], 0)
    OBVIOUS
  <2> QED
    BY <2>1
<1>3. ASSUME Bad # {} PROVE FALSE
  <2> HIDE DEF Is
  <2>1. PICK m \in Bad : \A l \in Bad : m <= l
    <3>1. Bad \in SUBSET Nat
      OBVIOUS
    <3> HIDE DEF Bad
    <3> QED
      BY <1>3, <3>1, LeastOf
  <2>2. m # 0 /\ m - 1 \in Nat /\ m - 1 \notin Bad
    BY <1>2, <2>1
  <2> QED
    BY <1>1, <2>1, <2>2
<1>4. \E g : Is(g, n)
  BY <1>3
<1>5. Is(Joining(R, x, n), n)
  BY <1>4 DEF Joining
<1>6. \A k \in 0..n : Joining(R, x, n)[k] = Step(Joining(R, x, n), k)
  <2> HIDE DEF Step
  <2> QED
    BY <1>5
<1>7. 0 \in 0..n /\ \A k \in 1..n : k \in 0..n /\ k # 0
  OBVIOUS
<1> QED
  BY <1>6, <1>7

\* A chain goes as far as the merges it is made of.
LEMMA KinSame ==
  ASSUME NEW R, NEW R2, NEW n \in Nat, \A k \in 1..n : R2[k] = R[k], NEW x
  PROVE  Kin(R2, x, n) = Kin(R, x, n)
<1> DEFINE f == Joining(R, x, n)
           g == Joining(R2, x, n)
           Bad == {k \in 0..n : f[k] # g[k]}
<1>1. f[0] = {x} /\ \A k \in 1..n : f[k] = Further(f[k - 1], R[k])
  BY JoiningIs
<1>2. g[0] = {x} /\ \A k \in 1..n : g[k] = Further(g[k - 1], R[k])
  BY JoiningIs
<1> HIDE DEF f, g
<1>3. ASSUME Bad # {} PROVE FALSE
  <2>1. Bad \in SUBSET Nat
    OBVIOUS
  <2>2. PICK k \in Bad : \A l \in Bad : k <= l
    <3> HIDE DEF Bad
    <3> QED
      BY <1>3, <2>1, LeastOf
  <2>3. k \in 1..n /\ k - 1 \in 0..n /\ k - 1 \notin Bad
    BY <1>1, <1>2, <2>2
  <2> QED
    BY <1>1, <1>2, <2>2, <2>3
<1>4. n \in 0..n
  OBVIOUS
<1> QED
  BY <1>3, <1>4 DEF Kin, f, g

\* A chain of merges that the closure knows stays in one class of it.
LEMMA KinTogether ==
  ASSUME NEW R, NEW C, NEW n \in Nat, NEW x \in Ids,
         \A k \in 1..n : R[k].attribute = "same_as" =>
           R[k].subject \in Ids /\ R[k].value \in Ids /\ C[R[k].subject] = C[R[k].value]
  PROVE  Kin(R, x, n) \subseteq {z \in Ids : C[z] = C[x]}
<1> DEFINE f == Joining(R, x, n)
           T == {z \in Ids : C[z] = C[x]}
           Bad == {k \in 0..n : ~(f[k] \subseteq T)}
<1>1. f[0] = {x} /\ \A k \in 1..n : f[k] = Further(f[k - 1], R[k])
  BY JoiningIs
<1> HIDE DEF f
<1>2. ASSUME Bad # {} PROVE FALSE
  <2>1. Bad \in SUBSET Nat
    OBVIOUS
  <2>2. PICK k \in Bad : \A l \in Bad : k <= l
    <3> HIDE DEF Bad
    <3> QED
      BY <1>2, <2>1, LeastOf
  <2>3. k \in 1..n /\ k - 1 \in 0..n /\ k - 1 \notin Bad
    BY <1>1, <2>2
  <2>4. f[k - 1] \subseteq T
    BY <2>3
  <2>5. f[k] \subseteq T
    <3>1. f[k] = Further(f[k - 1], R[k])
      BY <1>1, <2>3
    <3>2. CASE R[k].attribute = "same_as" /\ {R[k].subject, R[k].value} \intersect f[k - 1] # {}
      <4>1. {R[k].subject, R[k].value} \subseteq T
        BY <2>3, <2>4, <3>2
      <4> QED
        BY <2>4, <3>1, <3>2, <4>1 DEF Further
    <3>3. CASE ~(R[k].attribute = "same_as" /\ {R[k].subject, R[k].value} \intersect f[k - 1] # {})
      BY <2>4, <3>1, <3>3 DEF Further
    <3> QED
      BY <3>2, <3>3
  <2> QED
    BY <2>2, <2>5
<1>3. n \in 0..n
  OBVIOUS
<1> QED
  BY <1>2, <1>3 DEF Kin, f

-----------------------------------------------------------------------------
(* What holds of a log and of what memory keeps beside it.                 *)

\* One spelling is another by the gate's table or by the host's word.
Earned(a, b) == <<a, b>> \in HostAliases \/ (a \in DOMAIN Builtin /\ b = Builtin[a])
MapEarned(A) == \A a \in DOMAIN A : a \notin DOMAIN InverseOf /\ Earned(a, A[a])

\* Every receipt in the gate's own mark is of such a reading, or of an inverse's.
ReceiptsEarned(R) ==
  \A i \in DOMAIN R :
    R[i].attribute = "canonicalized_from" /\ R[i].status = "inferred" =>
      R[i].value[1] = "(inverse)" \/ Earned(R[i].value[1], R[i].value[2])

\* The first n rows declare a.
Told(R, a, n) == \E j \in 1..n : R[j].type = "declaration" /\ R[j].subject = a

\* What the gate's calls say of an attribute the host declares lies behind a
\* declaration of it, and what memory counts as asked has one, unless its first row failed.
Datum(R, i) == R[i].type \in {"entity", "literal"} /\ R[i].about = 0 /\ R[i].item[1] > 0
DataTold(R, B) ==
  \A i \in DOMAIN R : R[i].attribute \in DOMAIN Default \ B /\ Datum(R, i)
                      => Told(R, R[i].attribute, i - 1)
AskedTold(R, Q, B) == \A a \in (Q \cap DOMAIN Default) \ B : Told(R, a, Len(R))

\* A registry that knows every merge of the log.
CanonIs(C) == C \in [Ids -> Ids] /\ \A x \in Ids : C[C[x]] = C[x]
Joins(R, C) == \A i \in DOMAIN R : R[i].attribute = "same_as" =>
                 R[i].subject \in Ids /\ R[i].value \in Ids /\ C[R[i].subject] = C[R[i].value]

\* No call says a kind of one whom earlier merges made a person.
KindSaid(R, i) == R[i].attribute = "kind" /\ R[i].type = "literal" /\ R[i].value # "person"
                  /\ R[i].item[1] > 0
PersonsKept(R) ==
  \A i \in DOMAIN R : KindSaid(R, i) => Kin(R, R[i].subject, i - 1) \intersect PersonIds = {}

\* All of it, of a log, a closure, an alias map and the attributes whose declaration
\* failed at its first row.
Sound(R, C, A, B) ==
  /\ IsList(R) /\ \A a : Coherent(R, a)
  /\ MapEarned(A) /\ ReceiptsEarned(R)
  /\ DataTold(R, B)
  /\ CanonIs(C) /\ Joins(R, C) /\ PersonsKept(R)

\* R2 is the log with the first k rows of W behind it.
Behind(W, k, R2) ==
  /\ Grown(rows, R2) /\ Len(R2) = Len(rows) + k /\ DOMAIN R2 = 1..Len(R2)
  /\ Len(W) \in Nat /\ k \in 0..Len(W)
  /\ \A j \in 1..k : R2[Len(rows) + j] = W[j]
  /\ \A n \in (Len(rows) + 1)..Len(R2) : n - Len(rows) \in 1..k /\ R2[n] = W[n - Len(rows)]

\* A log that a written item, or the first rows of it, made grow.
LEMMA Landed ==
  ASSUME NEW it, Item(it), Outcome(it) = "written", IsList(rows),
         NEW k \in 0..Len(Written(it)), NEW R2, R2 = rows \o SubSeq(Written(it), 1, k)
  PROVE  Behind(Written(it), k, R2)
<1> DEFINE W == Written(it)
           w == SubSeq(W, 1, k)
<1>1. Len(W) \in Nat /\ W \in Seq(Range(W)) /\ k \in 0..Len(W)
  BY WrittenIs DEF IsList
<1>2. w \in Seq(Range(W)) /\ Len(w) = k /\ \A j \in 1..k : w[j] = W[j]
  BY <1>1
<1> HIDE DEF w
<1>3. IsList(w)
  BY <1>2, ListOf
<1>4. /\ Grown(rows, R2) /\ Len(R2) = Len(rows) + k /\ Len(rows) \in Nat
      /\ DOMAIN R2 = 1..Len(R2)
      /\ \A j \in 1..k : R2[Len(rows) + j] = W[j]
  <2>1. R2 = rows \o w
    BY DEF w
  <2>2. /\ Grown(rows, R2) /\ Len(R2) = Len(rows) + Len(w)
        /\ \A j \in 1..Len(w) : R2[Len(rows) + j] = w[j]
    <3>1. /\ Grown(rows, rows \o w) /\ Len(rows \o w) = Len(rows) + Len(w)
          /\ \A j \in 1..Len(w) : (rows \o w)[Len(rows) + j] = w[j]
      BY <1>3, GrownBy
    <3> QED
      BY <2>1, <3>1
  <2> QED
    BY <1>2, <2>2 DEF Grown
<1>5. ASSUME NEW n \in (Len(rows) + 1)..Len(R2)
      PROVE  n - Len(rows) \in 1..k /\ R2[n] = W[n - Len(rows)]
  <2>1. n - Len(rows) \in 1..k /\ Len(rows) + (n - Len(rows)) = n
    BY <1>1, <1>4
  <2> QED
    BY <1>4, <2>1
<1> QED
  BY <1>1, <1>4, <1>5 DEF Behind

\* A declaration of the plan's.
Declaring1(x, it, r) ==
  r.type # "declaration" /\ \E p \in DOMAIN Declares(r, it).says :
    x = Row(it.id, Declares(r, it).of, p, Declares(r, it).says[p], "declaration")

\* Each row behind the log is a declaration of the item's, its main row, the event or
\* the edge of its merge, or a row beside them.
LEMMA LandedRows ==
  ASSUME NEW it, Item(it), Outcome(it) = "written", NEW r, r = Read(it), NEW j \in 1..Len(Written(it))
  PROVE  LET x == Written(it)[j]
         IN \/ Declaring1(x, it, r)
            \/ r.attribute # "same_as" /\ x = Main(it, r)
            \/ x = Event(it, r)
            \/ x = Edge(it, r) /\ r.attribute = "same_as" /\ Rep(r.subject) # Rep(r.value) /\ j = 2
            \/ Side(x, r)
<1> DEFINE W == Written(it)
           D == DeclarationRows(it, r)
<1>1. /\ IsList(W) /\ Len(W) \in Nat /\ Len(D) \in Nat
      /\ \A i \in 1..Len(W) : i <= Len(D) => W[i] = D[i]
      /\ r.type = "declaration" => Len(D) = 0
      /\ r.type # "declaration" => Declaring(D, it.id, Declares(r, it).of, Declares(r, it).says)
      /\ r.attribute # "same_as" =>
           /\ Len(W) > Len(D) /\ W[Len(D) + 1] = Main(it, r)
           /\ \A i \in 1..Len(W) : i > Len(D) + 1 => Side(W[i], r)
      /\ r.attribute = "same_as" /\ Rep(r.subject) # Rep(r.value) =>
           /\ Len(D) = 0 /\ Len(W) >= 2 /\ W[1] = Event(it, r) /\ W[2] = Edge(it, r)
           /\ \A i \in 1..Len(W) : i > 2 => Side(W[i], r)
      /\ r.attribute = "same_as" /\ Rep(r.subject) = Rep(r.value) =>
           Len(D) = 0 /\ \A i \in 1..Len(W) : Side(W[i], r)
  BY WrittenIs
<1> HIDE DEF W, D
<1>2. CASE j <= Len(D)
  <2>1. r.type # "declaration" /\ W[j] = D[j] /\ j \in 1..Len(D)
    BY <1>1, <1>2 DEF W
  <2>2. Declaring1(W[j], it, r)
    BY <1>1, <2>1 DEF Declaring, Declaring1
  <2> QED
    BY <2>2 DEF W
<1>3. CASE j > Len(D) /\ r.attribute # "same_as"
  BY <1>1, <1>3 DEF W
<1>4. CASE j > Len(D) /\ r.attribute = "same_as" /\ Rep(r.subject) # Rep(r.value)
  <2>1. j = 1 \/ j = 2 \/ j > 2
    BY <1>1 DEF W
  <2> QED
    BY <1>1, <1>4, <2>1 DEF W
<1>5. CASE j > Len(D) /\ r.attribute = "same_as" /\ Rep(r.subject) = Rep(r.value)
  BY <1>1, <1>5 DEF W
<1> QED
  BY <1>1, <1>2, <1>3, <1>4, <1>5 DEF W

\* What these rows say.
LEMMA RowFields ==
  ASSUME NEW it, NEW r
  PROVE  /\ Main(it, r).type = r.type /\ Main(it, r).subject = Rep(r.subject)
         /\ Main(it, r).attribute = IF RoleMove(r) THEN "role" ELSE r.attribute
         /\ Main(it, r).value = IF r.type = "entity" THEN Rep(r.value) ELSE r.value
         /\ Main(it, r).about = 0
         /\ Event(it, r).type = "event" /\ Event(it, r).attribute = "kind"
         /\ Edge(it, r).type = "edge" /\ Edge(it, r).attribute = "same_as"
         /\ Edge(it, r).subject = r.subject /\ Edge(it, r).value = r.value
<1>1. /\ Main(it, r).type = r.type /\ Main(it, r).subject = Rep(r.subject)
      /\ Main(it, r).attribute = IF RoleMove(r) THEN "role" ELSE r.attribute
      /\ Main(it, r).value = IF r.type = "entity" THEN Rep(r.value) ELSE r.value
      /\ Main(it, r).about = 0
  BY DEF Main, Row
<1>2. /\ Event(it, r).type = "event" /\ Event(it, r).attribute = "kind"
      /\ Edge(it, r).type = "edge" /\ Edge(it, r).attribute = "same_as"
      /\ Edge(it, r).subject = r.subject /\ Edge(it, r).value = r.value
  BY DEF Event, Edge, Row
<1> QED
  BY <1>1, <1>2

\* What a declaration says.
LEMMA DeclarationFields ==
  ASSUME NEW id, NEW a, NEW p, NEW v, NEW x, x = Row(id, a, p, v, "declaration")
  PROVE  x.type = "declaration" /\ x.subject = a /\ x.attribute = p /\ x.value = v
BY DEF Row

\* The declarations among the rows of an item: those of its plan, or itself.
LEMMA DeclaredRows ==
  ASSUME NEW it, Item(it), Outcome(it) = "written", NEW r, r = Read(it),
         NEW j \in 1..Len(Written(it)), Written(it)[j].type = "declaration"
  PROVE  \/ /\ r.type # "declaration" /\ j \in 1..Len(DeclarationRows(it, r))
            /\ Written(it)[j] = DeclarationRows(it, r)[j]
         \/ r.type = "declaration" /\ j = 1 /\ Written(it)[j] = Main(it, r)
<1> DEFINE W == Written(it)
           D == DeclarationRows(it, r)
<1>1. /\ IsList(W) /\ Len(W) \in Nat /\ Len(D) \in Nat
      /\ \A i \in 1..Len(W) : i <= Len(D) => W[i] = D[i]
      /\ r.type = "declaration" => Len(D) = 0
      /\ r.attribute # "same_as" =>
           /\ Len(W) > Len(D) /\ W[Len(D) + 1] = Main(it, r)
           /\ \A i \in 1..Len(W) : i > Len(D) + 1 => Side(W[i], r)
      /\ r.attribute = "same_as" /\ Rep(r.subject) # Rep(r.value) =>
           /\ Len(D) = 0 /\ Len(W) >= 2 /\ W[1] = Event(it, r) /\ W[2] = Edge(it, r)
           /\ \A i \in 1..Len(W) : i > 2 => Side(W[i], r)
      /\ r.attribute = "same_as" /\ Rep(r.subject) = Rep(r.value) =>
           Len(D) = 0 /\ \A i \in 1..Len(W) : Side(W[i], r)
  BY WrittenIs
<1>2. W[j].type = "declaration" /\ j \in 1..Len(W)
  OBVIOUS
<1> HIDE DEF W, D
<1>3. ~Side(W[j], r) /\ W[j] # Event(it, r) /\ W[j] # Edge(it, r)
      /\ (W[j] = Main(it, r) => r.type = "declaration")
  BY <1>2, RowFields DEF Side
<1>4. CASE j <= Len(D)
  BY <1>1, <1>2, <1>4 DEF W, D
<1>5. CASE j > Len(D)
  <2>1. r.attribute # "same_as" /\ j = Len(D) + 1
    <3>1. j = 1 \/ j = 2 \/ j > 2
      BY <1>2
    <3> QED
      BY <1>1, <1>2, <1>3, <1>5, <3>1
  <2> QED
    BY <1>1, <1>2, <1>3, <2>1 DEF W, D
<1> QED
  BY <1>1, <1>2, <1>4, <1>5

\* What a written item declares takes effect.
LEMMA WrittenSays ==
  ASSUME NEW it, Outcome(it) = "written", NEW r, r = Read(it), DOMAIN Declares(r, it).says # {}
  PROVE  InVocabulary(Declares(r, it).says) /\ ~Incoherent(Declares(r, it).of, Declares(r, it).says)
BY DEF Outcome

\* A declaration names its attribute, which is no id.
LEMMA DeclaresItsOwn ==
  ASSUME NEW it, Item(it), NEW r, r = Read(it), r.type = "declaration", r.attribute \in Axes
  PROVE  Rep(r.subject) = r.subject
<1>1. it.op = "declare"
  <2>1. TypeOf(it) # "declaration"
    BY DEF Item, TypeOf, Unset
  <2>2. r.type = IF IsDeclaration(it) THEN "declaration" ELSE TypeOf(it)
    BY DEF Read
  <2> QED
    BY <2>1, <2>2 DEF IsDeclaration
<1>2. r.subject = it.entity
  <2> DEFINE name == Canonical(it.attribute)
             swap == name \in DOMAIN InverseOf /\ TypeOf(it) = "entity"
                     /\ Semantics(name).structural # "true"
  <2>1. /\ r.subject = IF swap THEN it.value ELSE it.entity
        /\ r.attribute = IF swap THEN InverseOf[name] ELSE name
    BY DEF Read
  <2>2. ~swap
    BY <2>1, GateConstants
  <2> QED
    BY <2>1, <2>2
<1> QED
  BY <1>1, <1>2 DEF Item, Rep

\* What a written item leaves of the semantics is coherent, wherever its rows stop.
LEMMA CoherentLanded ==
  ASSUME NEW it, Item(it), Outcome(it) = "written", IsList(rows), \A b : Coherent(rows, b),
         NEW k \in 0..Len(Written(it)), NEW R2, R2 = rows \o SubSeq(Written(it), 1, k), NEW a
  PROVE  Coherent(R2, a)
<1> DEFINE W == Written(it)
           r == Read(it)
           D == DeclarationRows(it, r)
           d == Declares(r, it)
<1>1. /\ Grown(rows, R2) /\ Len(R2) = Len(rows) + k /\ Len(W) \in Nat /\ k \in 0..Len(W)
      /\ \A j \in 1..k : R2[Len(rows) + j] = W[j]
      /\ \A n \in (Len(rows) + 1)..Len(R2) : n - Len(rows) \in 1..k /\ R2[n] = W[n - Len(rows)]
  <2>1. Behind(W, k, R2)
    BY Landed
  <2> HIDE DEF W
  <2> QED
    BY <2>1 DEF Behind
<1>2. Coherent(rows, a)
  OBVIOUS
<1>3. ASSUME NEW n \in (Len(rows) + 1)..Len(R2), R2[n].type = "declaration"
      PROVE  LET j == n - Len(rows)
             IN /\ j \in 1..k /\ R2[n] = W[j]
                /\ \/ r.type # "declaration" /\ j \in 1..Len(D) /\ R2[n] = D[j]
                   \/ r.type = "declaration" /\ j = 1 /\ R2[n] = Main(it, r)
  <2>1. n - Len(rows) \in 1..k /\ R2[n] = W[n - Len(rows)]
    BY <1>1
  <2>2. n - Len(rows) \in 1..Len(Written(it))
    BY <1>1, <2>1
  <2>3. Written(it)[n - Len(rows)].type = "declaration"
    BY <1>3, <2>1
  <2>4. \/ /\ r.type # "declaration" /\ n - Len(rows) \in 1..Len(D)
           /\ Written(it)[n - Len(rows)] = D[n - Len(rows)]
        \/ r.type = "declaration" /\ n - Len(rows) = 1 /\ Written(it)[n - Len(rows)] = Main(it, r)
    BY <2>2, <2>3, DeclaredRows
  <2> HIDE DEF W, D, r
  <2> QED
    BY <2>1, <2>4 DEF W, D
<1>4. DOMAIN d.says # {} => InVocabulary(d.says) /\ ~Incoherent(d.of, d.says)
  BY WrittenSays
<1>5. r.type = "declaration" /\ r.attribute \in Axes =>
        d.of = r.subject /\ d.says = [q \in {r.attribute} |-> r.value] /\ Rep(r.subject) = r.subject
        /\ ~RoleMove(r)
  <2>1. r.type = "declaration" /\ r.attribute \in Axes => Rep(r.subject) = r.subject
    BY DeclaresItsOwn
  <2> HIDE DEF r
  <2> QED
    BY <2>1 DEF Declares, RoleMove
<1>6. /\ r.type # "declaration" => DOMAIN d.says \subseteq Axes \union {"resolvable_for"}
      /\ r.type # "declaration" /\ DOMAIN d.says # {} => d.of \notin Core /\ ~IsDeclared(d.of)
      /\ r.type # "declaration" => Declaring(D, it.id, d.of, d.says)
  <2>1. r.type # "declaration" => Declaring(D, it.id, d.of, d.says)
    BY WrittenIs
  <2>2. /\ r.type # "declaration" => DOMAIN d.says \subseteq Axes \union {"resolvable_for"}
        /\ r.type # "declaration" /\ DOMAIN d.says # {} => d.of \notin Core /\ ~IsDeclared(d.of)
    <3> HIDE DEF r
    <3> QED
      BY PlanHas
  <2> QED
    BY <2>1, <2>2
<1> HIDE DEF W, r, D, d
<1>7. CASE r.type = "declaration"
  <2>1. CASE \E n \in (Len(rows) + 1)..Len(R2) :
               R2[n].type = "declaration" /\ R2[n].subject = a /\ R2[n].attribute \in Axes
    <3>1. PICK n \in (Len(rows) + 1)..Len(R2) :
            R2[n].type = "declaration" /\ R2[n].subject = a /\ R2[n].attribute \in Axes
      BY <2>1
    <3>2. R2[n] = Main(it, r)
      BY <1>3, <1>7, <3>1
    <3>3. r.attribute \in Axes /\ a = r.subject
      <4>1. ~RoleMove(r)
        BY <1>7 DEF RoleMove
      <4>2. r.attribute \in Axes
        BY <3>1, <3>2, <4>1, RowFields
      <4> QED
        BY <1>5, <1>7, <3>1, <3>2, <4>2, RowFields
    <3>4. /\ d.of = a /\ d.says = [q \in {r.attribute} |-> r.value] /\ ~RoleMove(r)
          /\ Rep(r.subject) = r.subject
      BY <1>5, <1>7, <3>3
    <3>5. Main(it, r).attribute = r.attribute /\ Main(it, r).value = r.value
      BY <1>7, <3>4, RowFields
    <3>6. Tells(rows, R2, a, r.attribute, r.value)
      BY <3>1, <3>2, <3>5 DEF Tells
    <3>7. \A i \in (Len(rows) + 1)..Len(R2) :
            R2[i].type = "declaration" => R2[i].attribute = r.attribute /\ R2[i].value = r.value
      <4>1. ASSUME NEW i \in (Len(rows) + 1)..Len(R2), R2[i].type = "declaration"
            PROVE  R2[i] = Main(it, r)
        BY <1>3, <1>7, <4>1
      <4> QED
        BY <3>5, <4>1
    <3>8. DOMAIN d.says # {}
      BY <3>4
    <3>9. InVocabulary([q \in {r.attribute} |-> r.value])
          /\ ~Incoherent(a, [q \in {r.attribute} |-> r.value])
      BY <1>4, <3>4, <3>8
    <3> QED
      BY <1>1, <1>2, <3>3, <3>6, <3>7, <3>9, CoherentDeclared
  <2>2. CASE ~\E n \in (Len(rows) + 1)..Len(R2) :
                R2[n].type = "declaration" /\ R2[n].subject = a /\ R2[n].attribute \in Axes
    BY <1>1, <1>2, <2>2, CoherentUntold
  <2> QED
    BY <2>1, <2>2
<1>8. CASE r.type # "declaration"
  <2>1. ASSUME NEW n \in (Len(rows) + 1)..Len(R2), R2[n].type = "declaration"
        PROVE  /\ n - Len(rows) \in 1..k /\ n - Len(rows) \in 1..Len(D)
               /\ R2[n] = D[n - Len(rows)]
               /\ \E p \in DOMAIN d.says : R2[n] = Row(it.id, d.of, p, d.says[p], "declaration")
    <3>1. n - Len(rows) \in 1..k /\ n - Len(rows) \in 1..Len(D) /\ R2[n] = D[n - Len(rows)]
      BY <1>3, <1>8, <2>1
    <3> QED
      BY <1>6, <1>8, <3>1 DEF Declaring
  <2>2. ASSUME NEW n \in (Len(rows) + 1)..Len(R2), R2[n].type = "declaration"
        PROVE  /\ R2[n].subject = d.of /\ R2[n].attribute \in DOMAIN d.says
               /\ R2[n].value = d.says[R2[n].attribute]
    <3>1. PICK p \in DOMAIN d.says : R2[n] = Row(it.id, d.of, p, d.says[p], "declaration")
      BY <2>1, <2>2
    <3>2. R2[n].subject = d.of /\ R2[n].attribute = p /\ R2[n].value = d.says[p]
      BY <3>1, DeclarationFields
    <3> QED
      BY <3>1, <3>2
  <2>3. CASE a = d.of /\ DOMAIN d.says # {}
    <3>1. ASSUME NEW n \in (Len(rows) + 1)..Len(R2), R2[n].type = "declaration",
                 R2[n].attribute = "fold_policy",
                 NEW q \in {"arity", "relation_family"} \cap DOMAIN d.says
          PROVE  Tells(rows, R2, a, q, d.says[q])
      <4>1. n - Len(rows) \in 1..k /\ n - Len(rows) \in 1..Len(D) /\ R2[n] = D[n - Len(rows)]
        BY <2>1, <3>1
      <4>2. PICK j \in 1..(n - Len(rows)) : D[j] = Row(it.id, d.of, q, d.says[q], "declaration")
        BY <1>6, <1>8, <3>1, <4>1 DEF Declaring
      <4>3. /\ Len(rows) + j \in (Len(rows) + 1)..Len(R2) /\ j \in 1..k
            /\ (Len(rows) + j) - Len(rows) = j
        BY <1>1, <4>1, <4>2 DEF Grown
      <4>4. R2[Len(rows) + j] = D[j]
        <5>1. j \in 1..Len(D) /\ j \in 1..Len(W)
          BY <1>1, <1>6, <1>8, <4>1, <4>2 DEF Declaring
        <5>2. W[j] = D[j]
          <6>1. \A i \in 1..Len(W) : i <= Len(D) => W[i] = D[i]
            BY WrittenIs DEF W, D, r
          <6>2. j <= Len(D)
            BY <5>1
          <6> QED
            BY <5>1, <6>1, <6>2
        <5> QED
          BY <1>1, <4>3, <5>2
      <4>5. /\ R2[Len(rows) + j].type = "declaration" /\ R2[Len(rows) + j].subject = a
            /\ R2[Len(rows) + j].attribute = q /\ R2[Len(rows) + j].value = d.says[q]
        <5>1. /\ D[j].type = "declaration" /\ D[j].subject = d.of
              /\ D[j].attribute = q /\ D[j].value = d.says[q]
          BY <4>2, DeclarationFields
        <5> QED
          BY <2>3, <4>4, <5>1
      <4> QED
        BY <4>3, <4>5 DEF Tells
    <3>2. PlanSaid(rows, R2, a, d.says)
      BY <2>2, <3>1 DEF PlanSaid
    <3>3. DOMAIN d.says \subseteq Axes \union {"resolvable_for"} /\ a \notin Core /\ ~IsDeclared(a)
      BY <1>6, <1>8, <2>3
    <3>4. InVocabulary(d.says) /\ ~Incoherent(a, d.says)
      BY <1>4, <2>3
    <3> QED
      BY <1>1, <3>2, <3>3, <3>4, CoherentPlanned
  <2>4. CASE ~(a = d.of /\ DOMAIN d.says # {})
    <3>1. \A i \in (Len(rows) + 1)..Len(R2) :
            ~(R2[i].type = "declaration" /\ R2[i].subject = a /\ R2[i].attribute \in Axes)
      BY <2>2, <2>4
    <3> QED
      BY <1>1, <1>2, <3>1, CoherentUntold
  <2> QED
    BY <2>3, <2>4
<1> QED
  BY <1>7, <1>8

\* The row behind the log at n: which of its kinds it is, and where in its item.
LEMMA RowBehind ==
  ASSUME NEW it, Item(it), Outcome(it) = "written", NEW r, r = Read(it),
         NEW k, NEW R2, Behind(Written(it), k, R2), NEW n \in DOMAIN R2
  PROVE  \/ n \in DOMAIN rows /\ R2[n] = rows[n]
         \/ /\ n > Len(rows) /\ n - Len(rows) \in 1..k
            /\ \/ Declaring1(R2[n], it, r)
               \/ r.attribute # "same_as" /\ R2[n] = Main(it, r)
               \/ R2[n] = Event(it, r)
               \/ /\ R2[n] = Edge(it, r) /\ r.attribute = "same_as"
                  /\ Rep(r.subject) # Rep(r.value) /\ n - Len(rows) = 2
               \/ Side(R2[n], r)
<1> DEFINE W == Written(it)
<1>1. /\ Grown(rows, R2) /\ Len(R2) = Len(rows) + k /\ DOMAIN R2 = 1..Len(R2)
      /\ Len(W) \in Nat /\ k \in 0..Len(W)
      /\ \A m \in (Len(rows) + 1)..Len(R2) : m - Len(rows) \in 1..k /\ R2[m] = W[m - Len(rows)]
  BY DEF Behind
<1>2. Len(rows) \in Nat /\ DOMAIN rows = 1..Len(rows) /\ \A m \in 1..Len(rows) : R2[m] = rows[m]
  BY <1>1 DEF Grown
<1>3. CASE n <= Len(rows)
  BY <1>1, <1>2, <1>3
<1>4. CASE n > Len(rows)
  <2>1. n - Len(rows) \in 1..k /\ R2[n] = W[n - Len(rows)] /\ n - Len(rows) \in 1..Len(W)
    BY <1>1, <1>2, <1>4
  <2> DEFINE j == n - Len(rows)
  <2>2. j \in 1..Len(Written(it)) /\ R2[n] = Written(it)[j] /\ j \in 1..k
    BY <2>1
  <2> HIDE DEF j, W
  <2>3. \/ Declaring1(R2[n], it, r)
        \/ r.attribute # "same_as" /\ R2[n] = Main(it, r)
        \/ R2[n] = Event(it, r)
        \/ R2[n] = Edge(it, r) /\ r.attribute = "same_as" /\ Rep(r.subject) # Rep(r.value) /\ j = 2
        \/ Side(R2[n], r)
    BY <2>2, LandedRows
  <2> QED
    BY <1>4, <2>2, <2>3 DEF j
<1> QED
  BY <1>1, <1>2, <1>3, <1>4

\* A declaration of a plan's is of the plan's attribute, on an axis.
LEMMA DeclaringFields ==
  ASSUME NEW it, Item(it), NEW r, NEW x, Declaring1(x, it, r)
  PROVE  /\ x.type = "declaration" /\ x.subject = Declares(r, it).of
         /\ x.attribute \in Axes \union {"resolvable_for"}
<1>1. r.type # "declaration"
  BY DEF Declaring1
<1>2. PICK p \in DOMAIN Declares(r, it).says :
        x = Row(it.id, Declares(r, it).of, p, Declares(r, it).says[p], "declaration")
  BY DEF Declaring1
<1>3. x.type = "declaration" /\ x.subject = Declares(r, it).of /\ x.attribute = p
  BY <1>2, DeclarationFields
<1>4. DOMAIN Declares(r, it).says \subseteq Axes \union {"resolvable_for"}
  BY <1>1, PlanHas
<1> QED
  BY <1>2, <1>3, <1>4

\* What the gate writes of how it read a spelling.
LEMMA ReceiptIs ==
  ASSUME MapEarned(aliases), NEW it, NEW r, r = Read(it), r.receipt # <<>>
  PROVE  r.receipt[1] = "(inverse)" \/ Earned(r.receipt[1], r.receipt[2])
<1> DEFINE name == Canonical(it.attribute)
           swap == name \in DOMAIN InverseOf /\ TypeOf(it) = "entity"
                   /\ Semantics(name).structural # "true"
<1>1. r.receipt = IF swap THEN <<"(inverse)", InverseOf[name]>>
                  ELSE IF name # it.attribute THEN <<it.attribute, name>> ELSE <<>>
  BY DEF Read
<1>2. name # it.attribute => it.attribute \in DOMAIN aliases /\ name = aliases[it.attribute]
  BY DEF Canonical
<1> HIDE DEF name, swap
<1>3. CASE swap
  BY <1>1, <1>3
<1>4. CASE ~swap
  <2>1. name # it.attribute /\ r.receipt = <<it.attribute, name>>
    BY <1>1, <1>4
  <2> QED
    BY <1>2, <2>1 DEF MapEarned
<1> QED
  BY <1>3, <1>4

\* So the receipts of the log stay earned.
LEMMA ReceiptsLanded ==
  ASSUME NEW it, Item(it), Outcome(it) = "written", MapEarned(aliases), ReceiptsEarned(rows),
         NEW k, NEW R2, Behind(Written(it), k, R2)
  PROVE  ReceiptsEarned(R2)
<1> DEFINE r == Read(it)
<1>1. SUFFICES ASSUME NEW n \in DOMAIN R2, R2[n].attribute = "canonicalized_from",
                      R2[n].status = "inferred"
               PROVE  R2[n].value[1] = "(inverse)" \/ Earned(R2[n].value[1], R2[n].value[2])
  BY DEF ReceiptsEarned
<1>2. r.attribute \notin Mechanism
  BY ReadIs
<1>3. r = Read(it)
  OBVIOUS
<1> HIDE DEF r
<1>4. \/ n \in DOMAIN rows /\ R2[n] = rows[n]
      \/ Declaring1(R2[n], it, r) \/ R2[n] = Main(it, r) \/ R2[n] = Event(it, r)
      \/ R2[n] = Edge(it, r) \/ Side(R2[n], r)
  BY <1>3, RowBehind
<1>5. CASE n \in DOMAIN rows /\ R2[n] = rows[n]
  BY <1>1, <1>5 DEF ReceiptsEarned
<1>6. CASE Declaring1(R2[n], it, r)
  <2>1. R2[n].attribute \in Axes \union {"resolvable_for"}
    BY <1>6, DeclaringFields
  <2> QED
    BY <1>1, <2>1 DEF Axes
<1>7. CASE R2[n] = Main(it, r) \/ R2[n] = Event(it, r) \/ R2[n] = Edge(it, r)
  <2>1. R2[n].attribute \in {"role", r.attribute, "kind", "same_as"}
    BY <1>7, RowFields
  <2> QED
    BY <1>1, <1>2, <2>1 DEF Mechanism
<1>8. CASE Side(R2[n], r)
  <2>1. R2[n].value = r.receipt /\ r.receipt # <<>>
    BY <1>1, <1>8 DEF Side
  <2> QED
    BY <1>3, <2>1, ReceiptIs
<1> QED
  BY <1>4, <1>5, <1>6, <1>7, <1>8

\* A log says no less when it grows.
LEMMA ToldStays ==
  ASSUME NEW R, NEW R2, Grown(R, R2), NEW a, NEW n \in 0..Len(R), Told(R, a, n),
         NEW m \in Nat, n <= m
  PROVE  Told(R2, a, m)
<1>1. PICK j \in 1..n : R[j].type = "declaration" /\ R[j].subject = a
  BY DEF Told
<1>2. j \in 1..Len(R) /\ j \in 1..m
  BY <1>1 DEF Grown
<1> QED
  BY <1>1, <1>2 DEF Told, Grown

\* A plan that says anything has its first declaration in front of what it is for.
LEMMA FirstDeclares ==
  ASSUME NEW it, Item(it), Outcome(it) = "written", NEW r, r = Read(it), r.type # "declaration",
         DOMAIN Declares(r, it).says # {}, NEW k, NEW R2, Behind(Written(it), k, R2)
  PROVE  /\ k >= 1 => Told(R2, Declares(r, it).of, Len(rows) + 1)
         /\ \A n \in DOMAIN R2 : n > Len(rows) /\ R2[n].type # "declaration" => n > Len(rows) + 1
<1> DEFINE W == Written(it)
           D == DeclarationRows(it, r)
           d == Declares(r, it)
<1>1. /\ Declaring(D, it.id, d.of, d.says)
      /\ \A i \in 1..Len(W) : i <= Len(D) => W[i] = D[i]
  BY WrittenIs
<1>2. /\ Len(rows) \in Nat /\ DOMAIN R2 = 1..Len(R2) /\ Len(R2) = Len(rows) + k
      /\ Len(W) \in Nat /\ k \in 0..Len(W)
      /\ \A j \in 1..k : R2[Len(rows) + j] = W[j]
  BY DEF Behind, Grown
<1>3. DOMAIN d.says # {}
  OBVIOUS
<1> HIDE DEF W, D, d
<1>4. Len(D) \in Nat /\ Len(D) > 0
  BY <1>1, <1>3 DEF Declaring
<1>5. ASSUME k >= 1
      PROVE  R2[Len(rows) + 1].type = "declaration" /\ R2[Len(rows) + 1].subject = d.of
  <2>1. 1 \in 1..k /\ 1 \in 1..Len(W) /\ 1 \in 1..Len(D)
    BY <1>2, <1>4, <1>5
  <2>2. R2[Len(rows) + 1] = D[1]
    BY <1>1, <1>2, <1>4, <2>1
  <2>3. PICK p \in DOMAIN d.says : D[1] = Row(it.id, d.of, p, d.says[p], "declaration")
    BY <1>1, <2>1 DEF Declaring
  <2>4. D[1].type = "declaration" /\ D[1].subject = d.of
    BY <2>3, DeclarationFields
  <2> QED
    BY <2>2, <2>4
<1>6. k >= 1 => Told(R2, d.of, Len(rows) + 1)
  BY <1>2, <1>5 DEF Told
<1>7. ASSUME NEW n \in DOMAIN R2, n > Len(rows), R2[n].type # "declaration"
      PROVE  n > Len(rows) + 1
  <2>1. n \in 1..(Len(rows) + k) /\ k >= 1
    BY <1>2, <1>7
  <2>2. n # Len(rows) + 1
    BY <1>5, <1>7, <2>1
  <2> QED
    BY <1>2, <1>7, <2>1, <2>2
<1> QED
  BY <1>6, <1>7 DEF d

\* Data lands behind its attribute's declaration.
LEMMA DataLanded ==
  ASSUME NEW it, Item(it), Outcome(it) = "written",
         DataTold(rows, broken), AskedTold(rows, asked, broken),
         NEW k, NEW R2, Behind(Written(it), k, R2)
  PROVE  DataTold(R2, broken)
<1> DEFINE r == Read(it)
           d == Declares(r, it)
<1>1. SUFFICES ASSUME NEW n \in DOMAIN R2, R2[n].attribute \in DOMAIN Default \ broken, Datum(R2, n)
               PROVE  Told(R2, R2[n].attribute, n - 1)
  BY DEF DataTold
<1>2. Grown(rows, R2) /\ DOMAIN R2 = 1..Len(R2)
  BY DEF Behind
<1>3. Len(rows) \in Nat /\ DOMAIN rows = 1..Len(rows)
  BY <1>2 DEF Grown
<1>4. r = Read(it)
  OBVIOUS
<1>5. r.type # "declaration" => d.of = IF RoleMove(r) THEN "role" ELSE r.attribute
  BY DEF Declares
<1> HIDE DEF r, d
<1>6. R2[n].type \in {"entity", "literal"} /\ R2[n].about = 0
  BY <1>1 DEF Datum
<1>7. \/ n \in DOMAIN rows /\ R2[n] = rows[n]
      \/ /\ n > Len(rows)
         /\ \/ Declaring1(R2[n], it, r) \/ R2[n] = Main(it, r) \/ R2[n] = Event(it, r)
            \/ R2[n] = Edge(it, r) \/ Side(R2[n], r)
  BY <1>4, RowBehind
<1>8. CASE n \in DOMAIN rows /\ R2[n] = rows[n]
  <2>1. Told(rows, R2[n].attribute, n - 1)
    BY <1>1, <1>8 DEF DataTold, Datum
  <2>2. n - 1 \in 0..Len(rows) /\ n - 1 \in Nat
    BY <1>3, <1>8
  <2> QED
    BY <1>2, <2>1, <2>2, ToldStays
<1>9. CASE Declaring1(R2[n], it, r) \/ R2[n] = Event(it, r) \/ R2[n] = Edge(it, r)
  BY <1>6, <1>9, DeclaringFields, RowFields
<1>10. CASE Side(R2[n], r)
  <2>1. R2[n].attribute \in {"kind", "alias", "maybe_same_as"}
    BY <1>6, <1>10 DEF Side
  <2> QED
    BY <1>1, <2>1, GateConstants DEF IdentityEdges
<1>11. CASE n > Len(rows) /\ R2[n] = Main(it, r)
  <2>1. r.type \in {"entity", "literal"} /\ R2[n].attribute = d.of
    BY <1>5, <1>6, <1>11, RowFields
  <2>2. n - 1 \in Nat /\ Len(rows) <= n - 1 /\ Len(rows) \in 0..Len(rows)
    BY <1>2, <1>3, <1>11
  <2>3. CASE DOMAIN d.says # {}
    <3>1. n > Len(rows) + 1 /\ k >= 1 /\ Told(R2, d.of, Len(rows) + 1)
      <4>1. /\ k >= 1 => Told(R2, d.of, Len(rows) + 1)
            /\ n > Len(rows) + 1
        BY <1>4, <1>6, <1>11, <2>1, <2>3, FirstDeclares DEF d
      <4>2. Len(R2) = Len(rows) + k /\ Len(Written(it)) \in Nat /\ k \in 0..Len(Written(it))
        BY DEF Behind
      <4>3. k >= 1
        BY <1>2, <1>3, <4>1, <4>2
      <4> QED
        BY <4>1, <4>3
    <3> QED
      BY <1>2, <1>3, <2>1, <3>1 DEF Told
  <2>4. CASE DOMAIN d.says = {}
    <3>1. IsDeclared(d.of) \/ d.of \in asked
      BY <1>1, <2>1, <2>4, PlanHas DEF d
    <3>2. CASE IsDeclared(d.of)
      <4>1. PICK p \in Axes : Said(rows, d.of, p) # {}
        BY <3>2, SemanticsSaid
      <4>2. Told(rows, d.of, Len(rows))
        BY <1>3, <4>1 DEF Said, Of, Told
      <4> QED
        BY <1>2, <2>1, <2>2, <4>2, ToldStays
    <3>3. CASE d.of \in asked
      <4>1. Told(rows, d.of, Len(rows))
        BY <1>1, <2>1, <3>3 DEF AskedTold
      <4> QED
        BY <1>2, <2>1, <2>2, <4>1, ToldStays
    <3> QED
      BY <3>1, <3>2, <3>3
  <2> QED
    BY <2>3, <2>4
<1> QED
  BY <1>7, <1>8, <1>9, <1>10, <1>11

\* The host is not consulted again on an attribute only when what it said is in the log,
\* or its first row was lost.
LEMMA AskedLanded ==
  ASSUME NEW it, Item(it), Outcome(it) = "written", AskedTold(rows, asked, broken), Consult(it),
         NEW k, NEW R2, Behind(Written(it), k, R2), NEW B, broken \subseteq B,
         k = 0 /\ PlanOf(Read(it), it).by = "host" => Declares(Read(it), it).of \in B
  PROVE  AskedTold(R2, asked', B)
<1> DEFINE r == Read(it)
           d == Declares(r, it)
<1>1. SUFFICES ASSUME NEW a \in (asked' \cap DOMAIN Default) \ B PROVE Told(R2, a, Len(R2))
  BY DEF AskedTold
<1>2. /\ Grown(rows, R2) /\ DOMAIN R2 = 1..Len(R2) /\ Len(R2) = Len(rows) + k
      /\ Len(Written(it)) \in Nat /\ k \in 0..Len(Written(it))
  BY DEF Behind
<1>3. Len(rows) \in Nat /\ Len(R2) \in Nat /\ Len(rows) <= Len(R2) /\ Len(rows) \in 0..Len(rows)
  BY <1>2 DEF Grown
<1>4. CASE a \in asked
  <2>1. Told(rows, a, Len(rows))
    BY <1>1, <1>4 DEF AskedTold
  <2> QED
    BY <1>2, <1>3, <2>1, ToldStays
<1>5. CASE a \notin asked
  <2>1. PlanOf(r, it).by = "host" /\ a = IF RoleMove(r) THEN "role" ELSE r.attribute
    BY <1>1, <1>5 DEF Consult
  <2>2. r.type # "declaration" /\ (d.of \in DOMAIN Default => DOMAIN d.says # {})
    BY <2>1, PlanHas
  <2>3. a = d.of
    BY <2>1, <2>2 DEF Declares
  <2>4. k # 0
    BY <1>1, <2>1, <2>3
  <2>5. r = Read(it)
    OBVIOUS
  <2> HIDE DEF r
  <2>6. Told(R2, a, Len(rows) + 1)
    <3>1. k >= 1
      BY <1>2, <2>4
    <3>2. DOMAIN Declares(r, it).says # {}
      BY <1>1, <2>2, <2>3
    <3> QED
      BY <2>2, <2>3, <2>5, <3>1, <3>2, FirstDeclares
  <2> QED
    BY <1>2, <1>3, <2>4, <2>6 DEF Told
<1> QED
  BY <1>4, <1>5

\* A merge makes one class of two.
Joint(C, x, y, head) == [z \in Ids |-> IF C[z] \in {C[x], C[y]} THEN head ELSE C[z]]
Wider(C, C2) == \A u, v \in Ids : C[u] = C[v] => C2[u] = C2[v]

\* The joint classes are classes, no narrower than before.
LEMMA Elected ==
  ASSUME NEW C, CanonIs(C), NEW x \in Ids, NEW y \in Ids, NEW head, head \in {C[x], C[y]}
  PROVE  /\ CanonIs(Joint(C, x, y, head)) /\ Joint(C, x, y, head)[x] = Joint(C, x, y, head)[y]
         /\ Wider(C, Joint(C, x, y, head))
<1> DEFINE C2 == Joint(C, x, y, head)
<1>0. C2 = [z \in Ids |-> IF C[z] \in {C[x], C[y]} THEN head ELSE C[z]]
  BY DEF Joint
<1> HIDE DEF C2
<1>1. C[x] \in Ids /\ C[y] \in Ids /\ head \in Ids /\ C[head] = head
  BY DEF CanonIs
<1>2. C2 \in [Ids -> Ids] /\ C2[x] = C2[y] /\ \A u, v \in Ids : C[u] = C[v] => C2[u] = C2[v]
  BY <1>0, <1>1 DEF CanonIs
<1>3. ASSUME NEW z \in Ids PROVE C2[C2[z]] = C2[z]
  <2>1. CASE C[z] \in {C[x], C[y]}
    BY <1>0, <1>1, <2>1
  <2>2. CASE C[z] \notin {C[x], C[y]}
    <3>1. C[z] \in Ids /\ C[C[z]] = C[z] /\ C2[z] = C[z]
      BY <1>0, <2>2 DEF CanonIs
    <3> QED
      BY <1>0, <2>2, <3>1
  <2> QED
    BY <2>1, <2>2
<1> QED
  BY <1>2, <1>3 DEF CanonIs, C2, Wider

\* The registry knows every merge in the log, those just written too.
LEMMA CanonLanded ==
  ASSUME NEW it, Item(it), Outcome(it) = "written", CanonIs(canon), Joins(rows, canon),
         NEW k, NEW R2, Behind(Written(it), k, R2), Elect(it, k)
  PROVE  CanonIs(canon') /\ Joins(R2, canon')
<1> DEFINE r == Read(it)
           meets == Merges(it, k)
<1>1. r.attribute = "same_as" => r.subject \in Ids /\ r.value \in Ids
  BY ReadIs
<1>2. /\ r.attribute = "same_as" /\ Rep(r.subject) # Rep(r.value) /\ k >= 2 => meets
      /\ meets => r.attribute = "same_as"
  <2>1. r.attribute = "same_as" /\ Rep(r.subject) # Rep(r.value) => MainRows(it, r) # <<>>
    BY DEF MainRows
  <2> QED
    BY <2>1 DEF Merges
<1>3. r = Read(it)
  OBVIOUS
<1>4. /\ ~meets => canon' = canon
      /\ meets => \E head \in {Rep(r.subject), Rep(r.value)} :
           canon' = [x \in Ids |-> IF canon[x] \in {Rep(r.subject), Rep(r.value)}
                                   THEN head ELSE canon[x]]
  BY DEF Elect
<1> HIDE DEF r, meets
<1>5. /\ CanonIs(canon') /\ \A u, v \in Ids : canon[u] = canon[v] => canon'[u] = canon'[v]
      /\ meets => canon'[r.subject] = canon'[r.value]
  <2>1. CASE ~meets
    BY <1>4, <2>1
  <2>2. CASE meets
    <3>1. r.subject \in Ids /\ r.value \in Ids
      BY <1>1, <1>2, <2>2
    <3>2. PICK head \in {Rep(r.subject), Rep(r.value)} :
            canon' = [x \in Ids |-> IF canon[x] \in {Rep(r.subject), Rep(r.value)}
                                    THEN head ELSE canon[x]]
      BY <1>4, <2>2
    <3>3. Rep(r.subject) = canon[r.subject] /\ Rep(r.value) = canon[r.value]
      BY <3>1 DEF Rep
    <3>4. canon' = Joint(canon, r.subject, r.value, head) /\ head \in {canon[r.subject], canon[r.value]}
      BY <3>2, <3>3 DEF Joint
    <3>5. /\ CanonIs(Joint(canon, r.subject, r.value, head))
          /\ Joint(canon, r.subject, r.value, head)[r.subject]
             = Joint(canon, r.subject, r.value, head)[r.value]
          /\ Wider(canon, Joint(canon, r.subject, r.value, head))
      BY <3>1, <3>4, Elected
    <3> QED
      BY <3>4, <3>5 DEF Wider
  <2> QED
    BY <2>1, <2>2
<1>6. ASSUME NEW n \in DOMAIN R2, R2[n].attribute = "same_as"
      PROVE  R2[n].subject \in Ids /\ R2[n].value \in Ids /\ canon'[R2[n].subject] = canon'[R2[n].value]
  <2>1. \/ n \in DOMAIN rows /\ R2[n] = rows[n]
        \/ Declaring1(R2[n], it, r) \/ (r.attribute # "same_as" /\ R2[n] = Main(it, r))
        \/ R2[n] = Event(it, r)
        \/ /\ R2[n] = Edge(it, r) /\ r.attribute = "same_as"
           /\ Rep(r.subject) # Rep(r.value) /\ n - Len(rows) = 2 /\ n - Len(rows) \in 1..k
        \/ Side(R2[n], r)
    BY <1>3, RowBehind
  <2>2. CASE n \in DOMAIN rows /\ R2[n] = rows[n]
    BY <1>5, <1>6, <2>2 DEF Joins
  <2>3. CASE Declaring1(R2[n], it, r)
    <3>1. R2[n].attribute \in Axes \union {"resolvable_for"}
      BY <2>3, DeclaringFields
    <3> QED
      BY <1>6, <3>1 DEF Axes
  <2>4. CASE r.attribute # "same_as" /\ R2[n] = Main(it, r)
    BY <1>6, <2>4, RowFields
  <2>5. CASE R2[n] = Event(it, r)
    BY <1>6, <2>5, RowFields
  <2>6. CASE /\ R2[n] = Edge(it, r) /\ r.attribute = "same_as"
             /\ Rep(r.subject) # Rep(r.value) /\ n - Len(rows) = 2 /\ n - Len(rows) \in 1..k
    <3>1. k >= 2
      <4>1. k \in Nat
        BY DEF Behind
      <4> QED
        BY <2>6, <4>1
    <3>2. R2[n].subject = r.subject /\ R2[n].value = r.value
      BY <2>6, RowFields
    <3> QED
      BY <1>1, <1>2, <1>5, <2>6, <3>1, <3>2
  <2>7. CASE Side(R2[n], r)
    BY <1>6, <2>7 DEF Side
  <2> QED
    BY <2>1, <2>2, <2>3, <2>4, <2>5, <2>6, <2>7
<1> QED
  BY <1>5, <1>6 DEF Joins

\* A kind lands only on who no merge makes a person.
LEMMA PersonsLanded ==
  ASSUME NEW it, Item(it), Outcome(it) = "written", CanonIs(canon), Joins(rows, canon),
         PersonsKept(rows), NEW k, NEW R2, Behind(Written(it), k, R2)
  PROVE  PersonsKept(R2)
<1> DEFINE r == Read(it)
<1>1. SUFFICES ASSUME NEW n \in DOMAIN R2, KindSaid(R2, n)
               PROVE  Kin(R2, R2[n].subject, n - 1) \intersect PersonIds = {}
  BY DEF PersonsKept
<1>2. /\ DOMAIN R2 = 1..Len(R2) /\ DOMAIN rows = 1..Len(rows) /\ Len(rows) \in Nat
      /\ \A m \in 1..Len(rows) : R2[m] = rows[m]
  BY DEF Behind, Grown
<1>3. r = Read(it)
  OBVIOUS
<1>4. n - 1 \in Nat /\ \A m \in 1..(n - 1) : m \in DOMAIN R2
  BY <1>2
<1>5. /\ R2[n].attribute = "kind" /\ R2[n].type = "literal" /\ R2[n].value # "person"
      /\ R2[n].item[1] > 0
  BY <1>1 DEF KindSaid
<1> HIDE DEF r
<1>6. CASE n \in DOMAIN rows /\ R2[n] = rows[n]
  <2>1. Kin(rows, rows[n].subject, n - 1) \intersect PersonIds = {}
    BY <1>5, <1>6 DEF PersonsKept, KindSaid
  <2>2. \A m \in 1..(n - 1) : R2[m] = rows[m]
    BY <1>2, <1>6
  <2>3. Kin(R2, rows[n].subject, n - 1) = Kin(rows, rows[n].subject, n - 1)
    BY <1>4, <2>2, KinSame
  <2> QED
    BY <1>6, <2>1, <2>3
<1>7. CASE R2[n] = Main(it, r)
  <2>1. /\ r.type = "literal" /\ R2[n].subject = Rep(r.subject) /\ R2[n].value = r.value
        /\ R2[n].attribute = IF RoleMove(r) THEN "role" ELSE r.attribute
    BY <1>5, <1>7, RowFields
  <2>2. ~RoleMove(r) /\ r.attribute = "kind" /\ r.value # "person"
    BY <1>5, <2>1
  <2>3. r.subject \in Ids
    BY <1>3, <2>1, ReadIs
  <2> DEFINE x == Rep(r.subject)
  <2>4. x = canon[r.subject] /\ x \in Ids /\ Rep(x) = canon[x]
    BY <2>3 DEF Rep, CanonIs
  <2>5. Closure(x) \intersect PersonIds = {}
    BY <2>1, <2>2 DEF RoleMove, Person
  <2> HIDE DEF x
  <2>6. Closure(x) = {y \in Ids : canon[y] = canon[x]}
    BY <2>4 DEF Closure, Rep
  <2>7. ASSUME NEW m \in 1..(n - 1), R2[m].attribute = "same_as"
        PROVE  R2[m].subject \in Ids /\ R2[m].value \in Ids /\ canon[R2[m].subject] = canon[R2[m].value]
    <3>1. m \in DOMAIN R2
      BY <1>4
    <3>2. \/ m \in DOMAIN rows /\ R2[m] = rows[m]
          \/ Declaring1(R2[m], it, r) \/ R2[m] = Main(it, r)
          \/ R2[m] = Event(it, r)
          \/ R2[m] = Edge(it, r) /\ r.attribute = "same_as"
          \/ Side(R2[m], r)
      BY <1>3, <3>1, RowBehind
    <3>3. CASE m \in DOMAIN rows /\ R2[m] = rows[m]
      BY <2>7, <3>3 DEF Joins
    <3>4. CASE Declaring1(R2[m], it, r)
      <4>1. R2[m].attribute \in Axes \union {"resolvable_for"}
        BY <3>4, DeclaringFields
      <4> QED
        BY <2>7, <4>1 DEF Axes
    <3>5. CASE R2[m] = Main(it, r)
      BY <2>2, <2>7, <3>5, RowFields
    <3>6. CASE R2[m] = Event(it, r)
      BY <2>7, <3>6, RowFields
    <3>7. CASE R2[m] = Edge(it, r) /\ r.attribute = "same_as"
      BY <2>2, <3>7
    <3>8. CASE Side(R2[m], r)
      BY <2>7, <3>8 DEF Side
    <3> QED
      BY <3>2, <3>3, <3>4, <3>5, <3>6, <3>7, <3>8
  <2>8. Kin(R2, x, n - 1) \subseteq {z \in Ids : canon[z] = canon[x]}
    BY <1>4, <2>4, <2>7, KinTogether
  <2> QED
    BY <2>1, <2>5, <2>6, <2>8 DEF x
<1>8. CASE Declaring1(R2[n], it, r) \/ R2[n] = Event(it, r) \/ R2[n] = Edge(it, r)
  BY <1>5, <1>8, DeclaringFields, RowFields
<1>9. CASE Side(R2[n], r)
  BY <1>5, <1>9 DEF Side
<1>10. \/ n \in DOMAIN rows /\ R2[n] = rows[n]
       \/ Declaring1(R2[n], it, r) \/ R2[n] = Main(it, r) \/ R2[n] = Event(it, r)
       \/ R2[n] = Edge(it, r) \/ Side(R2[n], r)
  BY <1>3, RowBehind
<1> QED
  BY <1>6, <1>7, <1>8, <1>9, <1>10

\* A written item, or the first rows of it, leaves the log sound.
LEMMA SoundLanded ==
  ASSUME NEW it, Item(it), Outcome(it) = "written",
         Sound(rows, canon, aliases, broken), AskedTold(rows, asked, broken),
         NEW k \in 0..Len(Written(it)), rows' = rows \o SubSeq(Written(it), 1, k), Elect(it, k)
  PROVE  /\ Sound(rows', canon', aliases, broken)
         /\ \A B : broken \subseteq B /\ Consult(it)
                   /\ (k = 0 /\ PlanOf(Read(it), it).by = "host" => Declares(Read(it), it).of \in B)
                   => AskedTold(rows', asked', B)
<1> DEFINE R2 == rows'
<1>1. R2 = rows \o SubSeq(Written(it), 1, k)
  OBVIOUS
<1>2. /\ IsList(rows) /\ (\A a : Coherent(rows, a)) /\ MapEarned(aliases) /\ ReceiptsEarned(rows)
      /\ DataTold(rows, broken) /\ CanonIs(canon) /\ Joins(rows, canon) /\ PersonsKept(rows)
  BY DEF Sound
<1> HIDE DEF R2
<1>3. Behind(Written(it), k, R2)
  BY <1>1, <1>2, Landed
<1>4. IsList(R2)
  BY <1>3 DEF Behind, Grown
<1>5. \A a : Coherent(R2, a)
  BY <1>1, <1>2, CoherentLanded
<1>6. ReceiptsEarned(R2)
  BY <1>2, <1>3, ReceiptsLanded
<1>7. DataTold(R2, broken)
  BY <1>2, <1>3, DataLanded
<1>8. CanonIs(canon') /\ Joins(R2, canon')
  BY <1>2, <1>3, CanonLanded
<1>9. PersonsKept(R2)
  BY <1>2, <1>3, PersonsLanded
<1>10. ASSUME NEW B, broken \subseteq B, Consult(it),
              k = 0 /\ PlanOf(Read(it), it).by = "host" => Declares(Read(it), it).of \in B
       PROVE  AskedTold(R2, asked', B)
  BY <1>3, <1>10, AskedLanded
<1>11. Sound(R2, canon', aliases, broken)
  BY <1>2, <1>4, <1>5, <1>6, <1>7, <1>8, <1>9 DEF Sound
<1> QED
  BY <1>10, <1>11 DEF R2

\* So does a retraction.
LEMMA SoundRetracted ==
  ASSUME Sound(rows, canon, aliases, broken), NEW x, x.attribute = "retracts", x.type = "literal",
         x.about # 0, NEW R2, R2 = Append(rows, x)
  PROVE  /\ Sound(R2, canon, aliases, broken)
         /\ \A Q : AskedTold(rows, Q, broken) => AskedTold(R2, Q, broken)
<1>1. /\ IsList(rows) /\ (\A a : Coherent(rows, a)) /\ MapEarned(aliases) /\ ReceiptsEarned(rows)
      /\ DataTold(rows, broken) /\ CanonIs(canon) /\ Joins(rows, canon) /\ PersonsKept(rows)
  BY DEF Sound
<1>2. /\ IsList(R2) /\ Len(rows) \in Nat /\ Len(R2) = Len(rows) + 1 /\ DOMAIN rows = 1..Len(rows)
      /\ \A i \in 1..Len(rows) : R2[i] = rows[i]
      /\ R2[Len(rows) + 1] = x
  BY <1>1, Appended
<1>3. DOMAIN R2 = 1..Len(R2) /\ Grown(rows, R2)
  <2>1. DOMAIN R2 = 1..Len(R2)
    BY <1>2 DEF IsList
  <2> QED
    BY <1>1, <1>2, <2>1 DEF Grown
<1>4. \A n \in DOMAIN R2 : (n \in DOMAIN rows /\ R2[n] = rows[n]) \/ (n = Len(rows) + 1 /\ R2[n] = x)
  BY <1>2, <1>3
<1>5. ASSUME NEW a PROVE Coherent(R2, a)
  <2>1. Coherent(rows, a)
    BY <1>1
  <2>2. \A i \in (Len(rows) + 1)..Len(R2) :
          ~(R2[i].type = "declaration" /\ R2[i].subject = a /\ R2[i].attribute \in Axes)
    BY <1>2, <1>3
  <2> QED
    BY <1>3, <2>1, <2>2, CoherentUntold
<1>6. ReceiptsEarned(R2)
  BY <1>1, <1>4 DEF ReceiptsEarned
<1>7. DataTold(R2, broken)
  <2>1. SUFFICES ASSUME NEW n \in DOMAIN R2, R2[n].attribute \in DOMAIN Default \ broken, Datum(R2, n)
                 PROVE  Told(R2, R2[n].attribute, n - 1)
    BY DEF DataTold
  <2>2. n \in DOMAIN rows /\ R2[n] = rows[n]
    BY <1>4, <2>1 DEF Datum
  <2>3. Told(rows, R2[n].attribute, n - 1)
    BY <1>1, <2>1, <2>2 DEF DataTold, Datum
  <2>4. n - 1 \in 0..Len(rows) /\ n - 1 \in Nat
    BY <1>2, <2>2
  <2> QED
    BY <1>3, <2>3, <2>4, ToldStays
<1>8. Joins(R2, canon)
  BY <1>1, <1>4 DEF Joins
<1>9. PersonsKept(R2)
  <2>1. SUFFICES ASSUME NEW n \in DOMAIN R2, KindSaid(R2, n)
                 PROVE  Kin(R2, R2[n].subject, n - 1) \intersect PersonIds = {}
    BY DEF PersonsKept
  <2>2. n \in DOMAIN rows /\ R2[n] = rows[n]
    BY <1>4, <2>1 DEF KindSaid
  <2>3. Kin(rows, rows[n].subject, n - 1) \intersect PersonIds = {}
    BY <1>1, <2>1, <2>2 DEF PersonsKept, KindSaid
  <2>4. n - 1 \in Nat /\ \A m \in 1..(n - 1) : R2[m] = rows[m]
    BY <1>2, <2>2
  <2>5. Kin(R2, rows[n].subject, n - 1) = Kin(rows, rows[n].subject, n - 1)
    BY <2>4, KinSame
  <2> QED
    BY <2>2, <2>3, <2>5
<1>10. ASSUME NEW Q, AskedTold(rows, Q, broken) PROVE AskedTold(R2, Q, broken)
  <2>1. SUFFICES ASSUME NEW a \in (Q \cap DOMAIN Default) \ broken PROVE Told(R2, a, Len(R2))
    BY DEF AskedTold
  <2>2. Told(rows, a, Len(rows))
    BY <1>10, <2>1 DEF AskedTold
  <2>3. Len(rows) \in 0..Len(rows) /\ Len(R2) \in Nat /\ Len(rows) <= Len(R2)
    BY <1>2
  <2> QED
    BY <1>3, <2>2, <2>3, ToldStays
<1> QED
  BY <1>1, <1>2, <1>5, <1>6, <1>7, <1>8, <1>9, <1>10 DEF Sound

-----------------------------------------------------------------------------
(* The items of a call.                                                    *)

Formed(s) == IsList(s) /\ \A it \in Range(s) : Item(it)
Sent(it) == {"op", "entity", "type", "hints", "id"} \subseteq DOMAIN it /\ Item(it)

\* What is left of items that are sent as they should be is items.
LEMMA PassedItems ==
  ASSUME NEW s, Len(s) \in Nat, \A i \in 1..Len(s) : Sent(s[i]), NEW X, NEW Y, NEW Z
  PROVE  Formed(Passed(s, X, Y, Z))
<1> DEFINE n == Len(s)
           Stamp(m) ==
             IF m \in Y \union Z
             THEN [s[m] EXCEPT !.from = cursor, !.timeless = FALSE,
                               !.to = IF m \in Y THEN cursor ELSE NoTime]
             ELSE s[m]
           Step(g, m) == IF m = 0 THEN <<>>
                         ELSE IF m \in X THEN g[m - 1] ELSE Append(g[m - 1], Stamp(m))
           Is(g, m) == g = [k \in 0..m |-> Step(g, k)]
           None == {m \in Nat : ~\E g : Is(g, m)}
           kept == CHOOSE g : Is(g, n)
           Bad == {m \in 0..n : ~Formed(kept[m])}
<1>1. Passed(s, X, Y, Z) = kept[n]
  BY DEF Passed
<1>2. \A m \in 1..n : Item(Stamp(m))
  <2>1. ASSUME NEW m \in 1..n PROVE Item(Stamp(m))
    <3>1. Sent(s[m])
      OBVIOUS
    <3>2. Stamp(m).type = s[m].type /\ Stamp(m).hints = s[m].hints
          /\ Stamp(m).op = s[m].op /\ Stamp(m).entity = s[m].entity
      BY <3>1 DEF Sent
    <3> HIDE DEF Stamp
    <3> QED
      BY <3>1, <3>2 DEF Sent, Item
  <2> QED
    BY <2>1
<1> HIDE DEF Stamp
<1>3. ASSUME NEW m \in Nat \ {0}, NEW g, Is(g, m - 1) PROVE \E f : Is(f, m)
  <2> DEFINE f == [k \in 0..m |-> IF k = m THEN Step(g, m) ELSE g[k]]
  <2>1. \A k \in 0..(m - 1) : f[k] = g[k]
    OBVIOUS
  <2>2. ASSUME NEW k \in 0..m PROVE f[k] = Step(f, k)
    <3>1. k # 0 => f[k - 1] = g[k - 1]
      BY <2>1
    <3>2. CASE k = m
      BY <3>1, <3>2
    <3>3. CASE k # m
      <4>1. k \in 0..(m - 1)
        BY <3>3
      <4>2. g[k] = Step(g, k)
        BY <1>3, <4>1
      <4> QED
        BY <2>1, <3>1, <4>1, <4>2
    <3> QED
      BY <3>2, <3>3
  <2>3. f = [k \in 0..m |-> f[k]]
    OBVIOUS
  <2> HIDE DEF f, Step
  <2>4. Is(f, m)
    BY <2>2, <2>3
  <2> QED
    BY <2>4
<1>4. \E g : Is(g, 0)
  <2>1. Is([k \in 0..0 |-> <<>>], 0)
    OBVIOUS
  <2> QED
    BY <2>1
<1>5. ASSUME None # {} PROVE FALSE
  <2> HIDE DEF Is
  <2>1. PICK m \in None : \A l \in None : m <= l
    <3>1. None \in SUBSET Nat
      OBVIOUS
    <3> HIDE DEF None
    <3> QED
      BY <1>5, <3>1, LeastOf
  <2>2. m # 0 /\ m - 1 \in Nat /\ m - 1 \notin None
    BY <1>4, <2>1
  <2> QED
    BY <1>3, <2>1, <2>2
<1>6. Is(kept, n)
  <2>1. \E g : Is(g, n)
    BY <1>5
  <2> HIDE DEF Is
  <2> QED
    BY <2>1
<1>7. \A k \in 0..n : kept[k] = Step(kept, k)
  <2> HIDE DEF Step, kept
  <2> QED
    BY <1>6
<1> HIDE DEF kept
<1>8. kept[0] = <<>> /\ \A k \in 1..n : kept[k] = kept[k - 1] \/ kept[k] = Append(kept[k - 1], Stamp(k))
  <2>1. 0 \in 0..n /\ \A k \in 1..n : k \in 0..n /\ k # 0
    OBVIOUS
  <2> QED
    BY <1>7, <2>1
<1>9. ASSUME Bad # {} PROVE FALSE
  <2>1. Bad \in SUBSET Nat
    OBVIOUS
  <2>2. PICK m \in Bad : \A l \in Bad : m <= l
    <3> HIDE DEF Bad
    <3> QED
      BY <1>9, <2>1, LeastOf
  <2>3. m # 0
    BY <1>8, <2>2, NoRow DEF Formed
  <2>4. m \in 1..n /\ m - 1 \in 0..n /\ m - 1 \notin Bad
    BY <2>2, <2>3
  <2>5. Formed(kept[m - 1])
    BY <2>4
  <2>6. Formed(Append(kept[m - 1], Stamp(m)))
    <3>1. IsList(Append(kept[m - 1], Stamp(m)))
          /\ Range(Append(kept[m - 1], Stamp(m))) = Range(kept[m - 1]) \union {Stamp(m)}
      BY <2>5, Appended DEF Formed
    <3> QED
      BY <1>2, <2>4, <2>5, <3>1 DEF Formed
  <2> QED
    BY <1>8, <2>2, <2>4, <2>5, <2>6
<1>10. n \in 0..n
  OBVIOUS
<1> QED
  BY <1>1, <1>9, <1>10

\* The items of a call, numbered, are items, whether it was extracted or not.
LEMMA CallItems ==
  ASSUME NEW c \in Calls, NEW n
  PROVE  LET s == [k \in DOMAIN c.items |-> [c.items[k] EXCEPT !.id = <<n, k>>]]
         IN Formed(s) /\ \A default : Formed(MovedPass(s, default).items)
<1> DEFINE u == c.items
           s == [k \in DOMAIN c.items |-> [c.items[k] EXCEPT !.id = <<n, k>>]]
<1>1. /\ u \in Seq(Range(u))
      /\ \A it \in Range(u) : Sent(it)
  BY CallsAreFormed DEF Sent, Item
<1>2. s = [k \in DOMAIN u |-> [u[k] EXCEPT !.id = <<n, k>>]]
  OBVIOUS
<1> HIDE DEF u, s
<1>3. Len(u) \in Nat /\ DOMAIN u = 1..Len(u) /\ \A i \in 1..Len(u) : u[i] \in Range(u)
  BY <1>1 DEF Range
<1>4. DOMAIN s = 1..Len(u) /\ \A i \in 1..Len(u) : s[i] = [u[i] EXCEPT !.id = <<n, i>>]
  BY <1>2, <1>3
<1>5. ASSUME NEW i \in 1..Len(u) PROVE Sent(s[i])
  <2>1. Sent(u[i])
    BY <1>1, <1>3
  <2>2. /\ DOMAIN s[i] = DOMAIN u[i] /\ s[i].type = u[i].type /\ s[i].hints = u[i].hints
        /\ s[i].op = u[i].op /\ s[i].entity = u[i].entity
    BY <1>4, <2>1 DEF Sent
  <2> QED
    BY <2>1, <2>2 DEF Sent, Item
<1>6. IsList(s) /\ Len(s) = Len(u) /\ Range(s) = {s[i] : i \in 1..Len(u)}
  <2> DEFINE N == Len(u)
  <2>1. N \in Nat /\ s = [i \in 1..N |-> s[i]]
    BY <1>2, <1>3
  <2> HIDE DEF N
  <2>2. IsList(s) /\ Len(s) = N /\ Range(s) = {s[i] : i \in 1..N}
    BY <2>1, Numbered
  <2> QED
    BY <2>2 DEF N
<1>7. Formed(s)
  BY <1>5, <1>6 DEF Formed, Sent
<1>8. Len(s) \in Nat /\ \A i \in 1..Len(s) : Sent(s[i])
  BY <1>3, <1>5, <1>6
<1>9. ASSUME NEW default PROVE Formed(MovedPass(s, default).items)
  <2>1. PICK X, Y, Z : MovedPass(s, default).items = Passed(s, X, Y, Z)
    BY Zenon DEF MovedPass
  <2>2. Formed(Passed(s, X, Y, Z))
    BY <1>8, PassedItems
  <2> QED
    BY <2>1, <2>2
<1> QED
  BY <1>7, <1>9 DEF s

-----------------------------------------------------------------------------
(* The invariant.                                                          *)

\* What an atomic call puts back is as good as what it found; memory and log agree
\* except in a process that has died.
GateInv ==
  /\ Sound(rows, canon, aliases, broken)
  /\ call.mode # "dead" => AskedTold(rows, asked, broken)
  /\ Running =>
       /\ {"mode", "items", "skipped", "atomic", "before"} \subseteq DOMAIN call
       /\ Formed(call.items)
       /\ call.atomic =>
            /\ Sound(call.before.rows, call.before.canon, call.before.aliases, broken)
            /\ AskedTold(call.before.rows, call.before.asked, broken)

\* A map read back from a log whose receipts are earned is earned.
LEMMA RebuiltEarned == ASSUME IsList(rows), ReceiptsEarned(rows) PROVE MapEarned(Rebuilt)
<1> DEFINE From(a) == {i \in Receipts : rows[i].value[1] = a}
           names == DOMAIN Builtin \union {rows[i].value[1] : i \in Receipts}
<1>1. Rebuilt = [a \in names \ DOMAIN InverseOf |->
                   IF From(a) # {} THEN rows[Max(From(a))].value[2] ELSE Builtin[a]]
  BY DEF Rebuilt
<1>2. DOMAIN rows = 1..Len(rows) /\ Len(rows) \in Nat
  BY DEF IsList
<1>3. \A i \in Receipts : i \in 1..Len(rows) /\ Earned(rows[i].value[1], rows[i].value[2])
  BY <1>2 DEF Receipts, ReceiptsEarned
<1>4. ASSUME NEW a \in names \ DOMAIN InverseOf
      PROVE  Earned(a, IF From(a) # {} THEN rows[Max(From(a))].value[2] ELSE Builtin[a])
  <2>1. CASE From(a) # {}
    <3>1. From(a) \in SUBSET (1..Len(rows))
      BY <1>3
    <3>2. Max(From(a)) \in From(a)
      <4> HIDE DEF From
      <4> QED
        BY <1>2, <2>1, <3>1, MaxIs
    <3> QED
      BY <1>3, <2>1, <3>2
  <2>2. CASE From(a) = {}
    BY <2>2 DEF Earned
  <2> QED
    BY <2>1, <2>2
<1> HIDE DEF From, names
<1> QED
  BY <1>1, <1>4 DEF MapEarned

\* A sound log stays so beside another earned map, and as more declarations fail.
LEMMA Resound ==
  ASSUME NEW R, NEW C, NEW A, NEW B, Sound(R, C, A, B), NEW A2, MapEarned(A2), NEW B2, B \subseteq B2
  PROVE  /\ Sound(R, C, A2, B2)
         /\ \A Q : AskedTold(R, Q, B) => AskedTold(R, Q, B2)
<1>1. DataTold(R, B2)
  BY DEF Sound, DataTold
<1> QED
  BY <1>1 DEF Sound, AskedTold

\* The first states: an empty log or an old one, which nobody merged, declared or
\* renamed in.
LEMMA GateStarts == Init => GateInv
<1> SUFFICES ASSUME Init PROVE GateInv
  OBVIOUS
<1>1. rows \in {<<>>, OldLog} /\ canon = [x \in Ids |-> x] /\ aliases = Rebuilt
      /\ asked = {} /\ broken = {} /\ call = Idle
  BY DEF Init
<1>2. IsList(rows)
  BY <1>1, NoRow, OldLogIsFormed DEF IsList
<1>3. \A i \in DOMAIN rows :
        /\ rows[i].item[1] = 0 /\ rows[i].type # "declaration" /\ rows[i].attribute # "same_as"
        /\ rows[i].attribute = "canonicalized_from" => rows[i].status # "inferred"
  <2>1. CASE rows = <<>>
    BY <2>1
  <2>2. CASE rows = OldLog
    BY <2>2, OldLogIsFormed DEF Range
  <2> QED
    BY <1>1, <2>1, <2>2
<1>4. ASSUME NEW a PROVE Coherent(rows, a)
  <2>1. \A p : Said(rows, a, p) = {}
    BY <1>3 DEF Said, Of
  <2>2. \A p : Axis(rows, a, p) = BuiltinDefault(a)[p]
    BY <2>1 DEF Axis
  <2>3. BuiltinDefault(a)["fold_policy"] = "by_class" /\ BuiltinDefault(a)["durability"] = "none"
    BY DEF BuiltinDefault
  <2> QED
    BY <2>2, <2>3 DEF Coherent, Agreeing
<1>5. ReceiptsEarned(rows) /\ DataTold(rows, broken) /\ Joins(rows, canon) /\ PersonsKept(rows)
  BY <1>3 DEF ReceiptsEarned, DataTold, Datum, Joins, PersonsKept, KindSaid
<1>6. MapEarned(aliases)
  BY <1>1, <1>2, <1>5, RebuiltEarned
<1>7. CanonIs(canon)
  BY <1>1 DEF CanonIs
<1>8. AskedTold(rows, asked, broken) /\ ~Running
  BY <1>1 DEF AskedTold, Running, Idle
<1> QED
  BY <1>2, <1>4, <1>5, <1>6, <1>7, <1>8 DEF GateInv, Sound

\* What is left of the items when one is taken.
LEMMA TailFormed ==
  ASSUME NEW s, Formed(s), s # <<>> PROVE Item(Head(s)) /\ Formed(Tail(s))
<1>1. s \in Seq(Range(s)) /\ Head(s) \in Range(s) /\ Tail(s) \in Seq(Range(s))
  BY DEF Formed, IsList, Range
<1>2. IsList(Tail(s)) /\ Range(Tail(s)) \subseteq Range(s)
  BY <1>1, ListOf
<1> QED
  BY <1>1, <1>2 DEF Formed

\* The whole of what an item writes.
LEMMA AllWritten ==
  ASSUME NEW it, Item(it), Outcome(it) = "written"
  PROVE  LET W == Written(it)
         IN Len(W) \in 0..Len(W) /\ W = SubSeq(W, 1, Len(W)) /\ Len(W) >= 0
<1> DEFINE W == Written(it)
<1>1. W \in Seq(Range(W))
  BY WrittenIs DEF IsList
<1> HIDE DEF W
<1>2. Len(W) \in Nat /\ W = SubSeq(W, 1, Len(W))
  BY <1>1
<1> QED
  BY <1>2 DEF W

\* A host's default is a declaration's first row: an item that writes nothing consulted
\* nobody about anything the host declares.
LEMMA NothingConsulted ==
  ASSUME NEW it, Item(it), Outcome(it) = "written", Len(Written(it)) = 0,
         PlanOf(Read(it), it).by = "host"
  PROVE  Declares(Read(it), it).of \notin DOMAIN Default
<1> DEFINE r == Read(it)
           D == DeclarationRows(it, r)
           W == Written(it)
<1>1. r.type # "declaration" /\ (Declares(r, it).of \in DOMAIN Default => DOMAIN Declares(r, it).says # {})
  BY PlanHas
<1>2. r.attribute = "same_as" => ~RoleMove(r) /\ Declares(r, it).of \in Core
  BY <1>1, GateConstants DEF Declares, RoleMove, IdentityEdges
<1>3. r.attribute # "same_as" => Len(W) > Len(D) /\ Len(D) \in Nat
  BY WrittenIs
<1>4. r.attribute = "same_as"
  BY <1>3
<1> QED
  BY <1>2, <1>4, GateConstants

\* A call that is taken back leaves what it found.
LEMMA RestoreKeeps ==
  ASSUME GateInv, Running, call.atomic, Restore, call' = Idle, UNCHANGED broken PROVE GateInv'
<1>1. /\ Sound(call.before.rows, call.before.canon, call.before.aliases, broken)
      /\ AskedTold(call.before.rows, call.before.asked, broken)
  BY DEF GateInv
<1>2. Sound(rows', canon', aliases', broken') /\ AskedTold(rows', asked', broken')
  BY <1>1 DEF Restore
<1>3. ~Running'
  BY DEF Running, Idle
<1> QED
  BY <1>2, <1>3 DEF GateInv

\* A call that is over and keeps its rows.
LEMMA IdleKeeps ==
  ASSUME Sound(rows', canon', aliases', broken'), AskedTold(rows', asked', broken'), call' = Idle
  PROVE  GateInv'
<1>1. ~Running'
  BY DEF Running, Idle
<1> QED
  BY <1>1 DEF GateInv

\* A call that raises: an atomic one goes back, a plain one keeps what it wrote.
LEMMA RaiseKeeps == ASSUME GateInv, Running, Raise, UNCHANGED broken PROVE GateInv'
<1>1. call' = Idle
  BY DEF Raise
<1>2. CASE call.atomic
  BY <1>1, <1>2, RestoreKeeps DEF Raise
<1>3. CASE ~call.atomic
  <2>1. UNCHANGED <<rows, canon, aliases, asked>>
    BY <1>3 DEF Raise
  <2>2. Sound(rows', canon', aliases', broken') /\ AskedTold(rows', asked', broken')
    BY <2>1 DEF GateInv, Running
  <2> QED
    BY <1>1, <2>2, IdleKeeps
<1> QED
  BY <1>2, <1>3

\* The call goes on to its next item.
LEMMA GoesOn ==
  ASSUME GateInv, Running, call.items # <<>>, NEW skipped,
         \/ call' = [call EXCEPT !.items = Tail(@), !.skipped = skipped]
         \/ call' = [call EXCEPT !.items = Tail(@)],
         UNCHANGED broken,
         Sound(rows', canon', aliases', broken), AskedTold(rows', asked', broken)
  PROVE  GateInv'
<1>1. {"mode", "items", "skipped", "atomic", "before"} \subseteq DOMAIN call /\ Formed(call.items)
  BY DEF GateInv
<1>2. /\ DOMAIN call' = DOMAIN call /\ call'.items = Tail(call.items)
      /\ call'.atomic = call.atomic /\ call'.before = call.before
  BY <1>1
<1>3. Formed(call'.items)
  BY <1>1, <1>2, TailFormed
<1>4. call'.atomic =>
        /\ Sound(call'.before.rows, call'.before.canon, call'.before.aliases, broken')
        /\ AskedTold(call'.before.rows, call'.before.asked, broken')
  BY <1>2 DEF GateInv
<1>5. {"mode", "items", "skipped", "atomic", "before"} \subseteq DOMAIN call'
  BY <1>1, <1>2
<1> QED
  BY <1>3, <1>4, <1>5 DEF GateInv

\* One item, whatever its outcome.
LEMMA TakeKeeps == ASSUME GateInv, Take PROVE GateInv'
<1> DEFINE it == Head(call.items)
<1>1. Running /\ call.items # <<>> /\ UNCHANGED broken
  BY DEF Take
<1>2. Sound(rows, canon, aliases, broken) /\ AskedTold(rows, asked, broken) /\ Formed(call.items)
  BY <1>1 DEF GateInv, Running
<1>3. Item(it)
  BY <1>1, <1>2, TailFormed
<1>4. \/ Outcome(it) = "raised" /\ Raise
      \/ /\ Outcome(it) = "refused"
         /\ call' = [call EXCEPT !.items = Tail(@), !.skipped = TRUE]
         /\ UNCHANGED <<rows, canon, aliases, asked>>
      \/ /\ Outcome(it) = "written"
         /\ rows' = rows \o Written(it)
         /\ Elect(it, Len(Written(it)))
         /\ Consult(it)
         /\ call' = [call EXCEPT !.items = Tail(@), !.skipped = @ \/ SideRefused(it, Read(it))]
         /\ UNCHANGED aliases
  BY DEF Take
<1>5. CASE Outcome(it) = "raised" /\ Raise
  BY <1>1, <1>5, RaiseKeeps
<1>6. CASE /\ call' = [call EXCEPT !.items = Tail(@), !.skipped = TRUE]
           /\ UNCHANGED <<rows, canon, aliases, asked>>
  <2>1. Sound(rows', canon', aliases', broken) /\ AskedTold(rows', asked', broken)
    BY <1>2, <1>6
  <2> QED
    BY <1>1, <1>6, <2>1, GoesOn
<1>7. CASE /\ Outcome(it) = "written"
           /\ rows' = rows \o Written(it)
           /\ Elect(it, Len(Written(it)))
           /\ Consult(it)
           /\ call' = [call EXCEPT !.items = Tail(@), !.skipped = @ \/ SideRefused(it, Read(it))]
           /\ UNCHANGED aliases
  <2> DEFINE k == Len(Written(it))
             skipped == call.skipped \/ SideRefused(it, Read(it))
  <2>1. k \in 0..Len(Written(it)) /\ rows' = rows \o SubSeq(Written(it), 1, k) /\ Elect(it, k)
    BY <1>3, <1>7, AllWritten
  <2>2. call' = [call EXCEPT !.items = Tail(@), !.skipped = skipped]
    BY <1>7
  <2>3. ~(k = 0 /\ PlanOf(Read(it), it).by = "host" /\ Declares(Read(it), it).of \in DOMAIN Default)
    BY <1>3, <1>7, NothingConsulted
  <2> DEFINE B == IF k = 0 THEN broken \union {Declares(Read(it), it).of} ELSE broken
             n == Declares(Read(it), it).of
             host == PlanOf(Read(it), it).by = "host"
  <2>4. broken \subseteq B /\ (k = 0 /\ host => n \in B)
    OBVIOUS
  <2> HIDE DEF k, skipped, it
  <2>5. /\ Sound(rows', canon', aliases, broken)
        /\ (k = 0 /\ host => n \in broken) => AskedTold(rows', asked', broken)
    BY <1>2, <1>3, <1>7, <2>1, SoundLanded
  <2>6. AskedTold(rows', asked', B)
    <3> HIDE DEF B
    <3> QED
      BY <1>2, <1>3, <1>7, <2>1, <2>4, SoundLanded
  <2>7. AskedTold(rows', asked', broken)
    <3>1. CASE k = 0 /\ host
      <4>1. n \notin DOMAIN Default
        BY <2>3, <3>1
      <4> QED
        BY <2>6, <4>1 DEF AskedTold
    <3>2. CASE ~(k = 0 /\ host)
      BY <2>5, <3>2
    <3> QED
      BY <3>1, <3>2
  <2>8. Sound(rows', canon', aliases', broken)
    BY <1>7, <2>5
  <2> QED
    BY <1>1, <2>2, <2>7, <2>8, GoesOn
<1> QED
  BY <1>4, <1>5, <1>6, <1>7

\* A retraction of a row that stands.
LEMMA RetractionLands ==
  ASSUME Sound(rows, canon, aliases, broken), AskedTold(rows, asked, broken),
         NEW i, Standing(i), NEW id, rows' = Append(rows, About(id, i, "retracts", "reason")),
         UNCHANGED <<canon, aliases, asked, broken>>
  PROVE  Sound(rows', canon', aliases', broken') /\ AskedTold(rows', asked', broken')
<1> DEFINE x == About(id, i, "retracts", "reason")
           R2 == rows'
<1>1. i # 0
  BY DEF Standing, Sound, IsList
<1>2. x.attribute = "retracts" /\ x.type = "literal" /\ x.about # 0
  BY <1>1 DEF About, Row
<1>3. R2 = Append(rows, x)
  OBVIOUS
<1> HIDE DEF x, R2
<1>4. Sound(R2, canon, aliases, broken) /\ AskedTold(R2, asked, broken)
  BY <1>2, <1>3, SoundRetracted
<1> QED
  BY <1>4 DEF R2

\* A call's own retraction.
LEMMA TakeRetractKeeps == ASSUME GateInv, TakeRetract PROVE GateInv'
<1> DEFINE it == Head(call.items)
<1>1. Running /\ call.items # <<>> /\ UNCHANGED broken
  BY DEF TakeRetract
<1>2. Sound(rows, canon, aliases, broken) /\ AskedTold(rows, asked, broken)
  BY <1>1 DEF GateInv, Running
<1>3. CASE Standing(it.value)
  <2>1. /\ rows' = Append(rows, About(it.id, it.value, "retracts", "reason"))
        /\ call' = [call EXCEPT !.items = Tail(@)]
        /\ UNCHANGED <<canon, aliases, asked>>
    BY <1>3 DEF TakeRetract
  <2>2. Sound(rows', canon', aliases', broken') /\ AskedTold(rows', asked', broken')
    BY <1>1, <1>2, <1>3, <2>1, RetractionLands
  <2> QED
    BY <1>1, <2>1, <2>2, GoesOn
<1>4. CASE ~Standing(it.value)
  <2>1. Raise
    BY <1>4 DEF TakeRetract
  <2> QED
    BY <1>1, <2>1, RaiseKeeps
<1> QED
  BY <1>3, <1>4

\* The host's.
LEMMA HostRetractKeeps == ASSUME GateInv, NEW i, Retract(i) PROVE GateInv'
<1>1. /\ call = Idle /\ call' = Idle /\ Standing(i)
      /\ rows' = Append(rows, About(<<0, 0>>, i, "retracts", "reason"))
      /\ UNCHANGED <<canon, aliases, asked, broken>>
  BY DEF Retract
<1>2. Sound(rows, canon, aliases, broken) /\ AskedTold(rows, asked, broken)
  BY <1>1 DEF GateInv, Idle
<1>3. Sound(rows', canon', aliases', broken') /\ AskedTold(rows', asked', broken')
  BY <1>1, <1>2, RetractionLands
<1> QED
  BY <1>1, <1>3, IdleKeeps

\* What stands of an item that is cut short, in a plain call.
LEMMA CutLands ==
  ASSUME GateInv, Running, call.items # <<>>, NEW it, it = Head(call.items), Outcome(it) = "written",
         NEW k \in Nat, k < Len(Written(it)), Cut(it, k)
  PROVE  /\ Sound(rows', canon', aliases, broken)
         /\ \A B : broken \subseteq B /\ Consult(it)
                   /\ (k = 0 /\ PlanOf(Read(it), it).by = "host" => Declares(Read(it), it).of \in B)
                   => AskedTold(rows', asked', B)
<1>1. Sound(rows, canon, aliases, broken) /\ AskedTold(rows, asked, broken) /\ Formed(call.items)
  BY DEF GateInv, Running
<1>2. Item(it)
  BY <1>1, TailFormed
<1>3. Len(Written(it)) \in Nat
  BY <1>2, WrittenIs
<1>4. k \in 0..Len(Written(it)) /\ rows' = rows \o SubSeq(Written(it), 1, k) /\ Elect(it, k)
  BY <1>3 DEF Cut
<1> QED
  BY <1>1, <1>2, <1>4, SoundLanded

\* An append that fails at any row of an item.
LEMMA FailKeeps == ASSUME GateInv, NEW k \in 0..5, Fail(k) PROVE GateInv'
<1> DEFINE it == Head(call.items)
           host == PlanOf(Read(it), it).by = "host"
           n == Declares(Read(it), it).of
<1>1. /\ Running /\ call.items # <<>> /\ call' = Idle /\ Outcome(it) = "written"
      /\ k < Len(Written(it)) /\ k \in Nat
  BY DEF Fail
<1>2. CASE call.atomic
  <2>1. Restore /\ UNCHANGED broken
    BY <1>2 DEF Fail
  <2> QED
    BY <1>1, <1>2, <2>1, RestoreKeeps
<1>3. CASE ~call.atomic
  <2>1. /\ Cut(it, k) /\ Consult(it) /\ UNCHANGED aliases
        /\ broken' = IF k = 0 /\ host THEN broken \union {n} ELSE broken
    BY <1>3 DEF Fail
  <2>2. broken \subseteq broken' /\ (k = 0 /\ host => n \in broken')
    BY <2>1
  <2> DEFINE B == broken'
  <2>3. broken \subseteq B /\ (k = 0 /\ host => n \in B)
    BY <2>2
  <2> HIDE DEF B
  <2>4. Sound(rows', canon', aliases, broken) /\ AskedTold(rows', asked', B)
    BY <1>1, <2>1, <2>3, CutLands
  <2>5. MapEarned(aliases)
    BY DEF GateInv, Sound
  <2>6. Sound(rows', canon', aliases, B)
    BY <2>3, <2>4, <2>5, Resound
  <2>7. Sound(rows', canon', aliases', broken') /\ AskedTold(rows', asked', broken')
    BY <2>1, <2>4, <2>6 DEF B
  <2> QED
    BY <1>1, <2>7, IdleKeeps
<1> QED
  BY <1>2, <1>3

\* A process that dies at any row of an item.
LEMMA CrashKeeps == ASSUME GateInv, NEW k \in 0..5, Crash(k) PROVE GateInv'
<1> DEFINE it == Head(call.items)
<1>1. /\ Running /\ call.items # <<>> /\ call' = [mode |-> "dead"] /\ Outcome(it) = "written"
      /\ k < Len(Written(it)) /\ k \in Nat /\ UNCHANGED <<aliases, broken>>
  BY DEF Crash
<1>2. MapEarned(aliases)
  BY DEF GateInv, Sound
<1>3. Sound(rows', canon', aliases, broken)
  <2>1. CASE call.atomic
    <3>1. Sound(call.before.rows, call.before.canon, call.before.aliases, broken)
      BY <1>1, <2>1 DEF GateInv
    <3>2. Sound(call.before.rows, call.before.canon, aliases, broken)
      BY <1>2, <3>1, Resound
    <3>3. rows' = call.before.rows /\ canon' = call.before.canon
      BY <2>1 DEF Crash
    <3> QED
      BY <3>2, <3>3
  <2>2. CASE ~call.atomic
    <3>1. Cut(it, k)
      BY <2>2 DEF Crash
    <3> QED
      BY <1>1, <3>1, CutLands
  <2> QED
    BY <2>1, <2>2
<1>4. call'.mode = "dead"
  BY <1>1
<1>5. Sound(rows', canon', aliases', broken')
  BY <1>1, <1>3
<1> QED
  BY <1>4, <1>5 DEF GateInv, Running

\* A call that begins: the moved pass leaves formed items, and `before` is now.
LEMMA BeginKeeps == ASSUME GateInv, NEW c \in Calls, Begin(c) PROVE GateInv'
<1> DEFINE n == Len(clocks) + 1
           s == [k \in DOMAIN c.items |-> [c.items[k] EXCEPT !.id = <<n, k>>]]
           pass == IF c.extracted THEN MovedPass(s, c.frame) ELSE [items |-> s, dropped |-> FALSE]
<1>1. Formed(s) /\ \A default : Formed(MovedPass(s, default).items)
  BY CallItems
<1>2. Formed(pass.items)
  <2> HIDE DEF s
  <2> QED
    BY <1>1
<1>3. /\ call = Idle
      /\ call' = [mode |-> "running", items |-> pass.items, skipped |-> pass.dropped,
                  frame |-> c.frame, extracted |-> c.extracted, authoritative |-> c.authoritative,
                  atomic |-> c.atomic, before |-> IF c.atomic THEN Snapshot ELSE Idle]
      /\ UNCHANGED <<rows, canon, aliases, asked, broken>>
  BY DEF Begin
<1> HIDE DEF pass
<1>4. Sound(rows, canon, aliases, broken) /\ AskedTold(rows, asked, broken)
  BY <1>3 DEF GateInv, Idle
<1>5. Sound(rows', canon', aliases', broken') /\ AskedTold(rows', asked', broken')
  BY <1>3, <1>4
<1>6. {"mode", "items", "skipped", "atomic", "before"} \subseteq DOMAIN call' /\ Formed(call'.items)
  BY <1>2, <1>3
<1>7. call'.atomic =>
        /\ Sound(call'.before.rows, call'.before.canon, call'.before.aliases, broken')
        /\ AskedTold(call'.before.rows, call'.before.asked, broken')
  <2>1. call'.atomic => call'.before = Snapshot
    BY <1>3
  <2>2. Snapshot.rows = rows /\ Snapshot.canon = canon /\ Snapshot.aliases = aliases
        /\ Snapshot.asked = asked
    BY DEF Snapshot
  <2> HIDE DEF s
  <2> QED
    BY <1>3, <1>4, <2>1, <2>2
<1> QED
  BY <1>5, <1>6, <1>7 DEF GateInv

\* A call that ends.
LEMMA EndKeeps == ASSUME GateInv, End PROVE GateInv'
<1>1. Running /\ call' = Idle /\ UNCHANGED broken
  BY DEF End
<1>2. CASE call.atomic /\ call.skipped
  BY <1>1, <1>2, RestoreKeeps DEF End
<1>3. CASE ~(call.atomic /\ call.skipped)
  <2>1. UNCHANGED <<rows, canon, aliases, asked>>
    BY <1>3 DEF End
  <2>2. Sound(rows', canon', aliases', broken') /\ AskedTold(rows', asked', broken')
    BY <1>1, <2>1 DEF GateInv, Running
  <2> QED
    BY <1>1, <2>2, IdleKeeps
<1> QED
  BY <1>2, <1>3

\* Memory rebuilt from the log.
LEMMA ReopenKeeps == ASSUME GateInv, Reopen PROVE GateInv'
<1>1. /\ aliases' = Rebuilt /\ asked' = {} /\ call' = Idle /\ UNCHANGED <<rows, canon, broken>>
  BY DEF Reopen
<1>2. Sound(rows, canon, aliases, broken) /\ IsList(rows) /\ ReceiptsEarned(rows)
  BY DEF GateInv, Sound
<1>3. MapEarned(Rebuilt)
  BY <1>2, RebuiltEarned
<1>4. Sound(rows, canon, Rebuilt, broken)
  BY <1>2, <1>3, Resound
<1>5. Sound(rows', canon', aliases', broken') /\ AskedTold(rows', asked', broken')
  BY <1>1, <1>4 DEF AskedTold
<1> QED
  BY <1>1, <1>5, IdleKeeps

\* A spelling the host adds.
LEMMA InstallKeeps == ASSUME GateInv, NEW a \in HostAliases, InstallAlias(a) PROVE GateInv'
<1>1. /\ call = Idle /\ call' = Idle /\ a[1] \notin DOMAIN InverseOf
      /\ aliases' = [b \in DOMAIN aliases \union {a[1]} |-> IF b = a[1] THEN a[2] ELSE aliases[b]]
      /\ UNCHANGED <<rows, canon, asked, broken>>
  BY DEF InstallAlias
<1>2. Sound(rows, canon, aliases, broken) /\ AskedTold(rows, asked, broken) /\ MapEarned(aliases)
  BY <1>1 DEF GateInv, Idle, Sound
<1>3. Earned(a[1], a[2])
  BY GateConstants DEF Earned
<1> DEFINE A == aliases'
<1>4. MapEarned(A)
  BY <1>1, <1>2, <1>3 DEF MapEarned
<1> HIDE DEF A
<1>5. Sound(rows, canon, A, broken)
  BY <1>2, <1>4, Resound
<1>6. Sound(rows', canon', aliases', broken') /\ AskedTold(rows', asked', broken')
  BY <1>1, <1>2, <1>5 DEF A
<1> QED
  BY <1>1, <1>6, IdleKeeps

-----------------------------------------------------------------------------
(* The theorems.                                                           *)

\* So every step keeps it.
LEMMA GateSteps == GateInv /\ [Next]_vars => GateInv'
<1> SUFFICES ASSUME GateInv, [Next]_vars PROVE GateInv'
  OBVIOUS
<1>1. ASSUME NEW c \in Calls, Begin(c) PROVE GateInv'
  BY <1>1, BeginKeeps
<1>2. CASE Take
  BY <1>2, TakeKeeps
<1>3. CASE TakeRetract
  BY <1>3, TakeRetractKeeps
<1>4. CASE End
  BY <1>4, EndKeeps
<1>5. CASE Reopen
  BY <1>5, ReopenKeeps
<1>6. ASSUME NEW k \in 0..5, Fail(k) PROVE GateInv'
  BY <1>6, FailKeeps
<1>7. ASSUME NEW k \in 0..5, Crash(k) PROVE GateInv'
  BY <1>7, CrashKeeps
<1>8. ASSUME NEW a \in HostAliases, InstallAlias(a) PROVE GateInv'
  BY <1>8, InstallKeeps
<1>9. ASSUME NEW i \in DOMAIN rows, Retract(i) PROVE GateInv'
  BY <1>9, HostRetractKeeps
<1>10. CASE (\E t \in 0..MaxTime : Advance(t)) \/ UNCHANGED vars
  <2>1. UNCHANGED <<rows, canon, aliases, asked, call, broken>>
    BY <1>10 DEF Advance, vars
  <2> QED
    BY <2>1 DEF GateInv, Running
<1> QED
  BY <1>1, <1>2, <1>3, <1>4, <1>5, <1>6, <1>7, <1>8, <1>9, <1>10 DEF Next

\* The invariant holds throughout.
LEMMA GateHolds == Spec => []GateInv
<1>1. Init => GateInv
  BY GateStarts
<1>2. GateInv /\ [Next]_vars => GateInv'
  BY GateSteps
<1> QED
  BY <1>1, <1>2, PTL DEF Spec

\* For every table of attributes, every default of a host's and every sequence of calls,
\* refusals, aborts, failed appends, crashes and reopenings: the declarations of an
\* attribute agree, data of one that the host declares lands behind its declaration, and
\* the alias map holds what the table and the host put in it.
THEOREM DeclarationsStay == Spec => []DeclarationsHold
<1>1. GateInv => DeclarationsHold
  <2> SUFFICES ASSUME GateInv PROVE DeclarationsHold
    OBVIOUS
  <2>1. /\ IsList(rows) /\ (\A a : Coherent(rows, a)) /\ MapEarned(aliases)
        /\ DataTold(rows, broken)
    BY DEF GateInv, Sound
  <2>2. SemanticsCoherent
    <3>1. ASSUME NEW a
          PROVE  LET s == Semantics(a) IN
                 \/ \E i \in DOMAIN rows : rows[i].type = "declaration" /\ rows[i].subject = a
                                           /\ Retracted(i)
                 \/ /\ s.fold_policy = "last_write" =>
                         s.arity # "set_valued" /\ s.relation_family # "containment"
                    /\ s.structural = "true" => s.durability \in {"none", "CONSTITUTIVE"}
      <4>1. Coherent(rows, a)
        BY <2>1
      <4>2. \A p \in Axes : Semantics(a)[p] = Axis(rows, a, p)
        BY SemanticsSaid
      <4>3. CASE \E i \in Of(rows, a) : BackIn(rows, i)
        BY <4>3 DEF Of, BackIn, Retracted
      <4>4. CASE Agreeing(Axis(rows, a, "fold_policy"), Axis(rows, a, "arity"),
                          Axis(rows, a, "relation_family"), Axis(rows, a, "structural"),
                          Axis(rows, a, "durability"))
        BY <4>2, <4>4 DEF Agreeing, Axes
      <4> QED
        BY <4>1, <4>3, <4>4 DEF Coherent
    <3> QED
      BY <3>1 DEF SemanticsCoherent
  <2>3. AliasesAreEarned
    BY <2>1 DEF MapEarned, Earned, AliasesAreEarned
  <2>4. DeclarationsPrecedeData
    BY <2>1 DEF DataTold, Datum, Told, DeclarationsPrecedeData, Stated
  <2> QED
    BY <2>2, <2>3, <2>4 DEF DeclarationsHold
<1>2. Spec => []GateInv
  BY GateHolds
<1> QED
  BY <1>1, <1>2, PTL

\* For every set of ids and every sequence of calls, merges and faults, no kind but
\* "person" is said of an id that a chain of earlier merges joins to a person's.
THEOREM PersonsStay == Spec => []PersonsStayPersons
<1>1. GateInv => PersonsStayPersons
  <2>1. \A x, n : KnownPerson(x, n) <=> Kin(rows, x, n) \intersect PersonIds # {}
    BY DEF KnownPerson, Kin, Joining, Further
  <2> QED
    BY <2>1 DEF GateInv, Sound, PersonsKept, KindSaid, PersonsStayPersons, Stated
<1>2. Spec => []GateInv
  BY GateHolds
<1> QED
  BY <1>1, <1>2, PTL
=============================================================================
