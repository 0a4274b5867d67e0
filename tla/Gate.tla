--------------------------------- MODULE Gate ---------------------------------
(***************************************************************************)
(* The ingest gate (ingest.py, semantics.py): the only way stated truth    *)
(* enters the log.                                                         *)
(*                                                                         *)
(* A call brings items in order.  Each item is refused with a receipt,     *)
(* refused by an exception, or written: its attribute's first declaration, *)
(* its main row, its side rows, one append each.  A plain call keeps what  *)
(* it wrote when an append fails or the process dies; an atomic one keeps  *)
(* all or nothing.  Beside the log the gate holds an alias map and the set *)
(* of attributes the host's callback was consulted on: both are lost at a  *)
(* crash and must come back from the log.                                  *)
(*                                                                         *)
(* Durability is module Classifier's.  The identity closure is the         *)
(* registry's (module Identity): here a merge elects either id.            *)
(***************************************************************************)
EXTENDS Integers, Sequences, FiniteSets, FiniteSetsExt, SequencesExt, Functions

CONSTANTS
  Ids,         \* well-formed ids
  PersonIds,   \* those in the person: namespace
  EventIds,    \* those in the event: namespace
  PlaceIds,    \* those in the place: namespace
  Typos,       \* texts shaped like an id that fail its grammar
  Core,        \* attributes no declaration may name
  Guardrailed, \* attributes whose class is fixed before a pin is read
  Builtin,     \* built-in aliases: attribute -> attribute
  InverseOf,   \* inverse relations: attribute -> the forward attribute
  Default,     \* the host's attribute_default: attribute -> declaration
  HostAliases, \* <<alias, attribute>> the host may install
  OldLog,      \* rows written before the gate had its present checks
  Calls,       \* the calls a host may make
  MaxCalls, MaxTime, MaxFaults, MaxEdits \* bounds

NoTime == -1
Unset == "absent"
Axes == {"arity", "relation_family", "fold_policy", "structural", "durability"}
Mechanism == {"retracts", "resolved_by", "canonicalized_from", "source_valid_from",
              "correction_proposal", "learned_at_wallclock"}
IdentityEdges == {"same_as", "maybe_same_as", "distinct_from"}

\* What the code's tables of attributes have, and what a host's default is: it declares
\* no core attribute, and not the one that a side field writes.
ASSUME GateConstants ==
  /\ PersonIds \subseteq Ids
  /\ {"kind", "in", "held_by", "worn_by", "connects_to"} \union IdentityEdges \subseteq Core
  /\ \A a \in DOMAIN InverseOf : InverseOf[a] \notin Axes \union {"resolvable_for"}
  /\ \A h \in HostAliases : h = <<h[1], h[2]>>
  /\ DOMAIN Default \cap (Core \union {"alias"}) = {}
  /\ \A a \in DOMAIN Default : /\ DOMAIN Default[a] # {}
                              /\ DOMAIN Default[a] \subseteq Axes \union {"resolvable_for"}

\* An item hints at three axes only; an attribute's declarations are about no id that
\* anything is merged with.
ASSUME CallsAreFormed ==
  \A c \in Calls :
    /\ c.items \in Seq(Range(c.items))
    /\ \A it \in Range(c.items) :
         /\ {"op", "entity", "type", "hints", "id"} \subseteq DOMAIN it
         /\ it.type \in {Unset, "entity", "literal"}
         /\ DOMAIN it.hints \subseteq {"arity", "relation_family", "fold_policy"}
         /\ it.op = "declare" => it.entity \notin Ids

\* An old log may hold what is now refused, but no merge, no declaration, and no
\* receipt of the gate's that another gate wrote.
ASSUME OldLogIsFormed ==
  /\ OldLog \in Seq(Range(OldLog))
  /\ \A i \in Range(OldLog) :
       /\ i.item[1] = 0 /\ i.type # "declaration" /\ i.attribute # "same_as"
       /\ i.attribute = "canonicalized_from" => i.status # "inferred"

\* What a declaration may say of each axis.
Vocabulary ==
  [arity |-> {"functional", "set_valued"},
   relation_family |-> {"containment", "lateral", "none"},
   fold_policy |-> {"last_write", "accrue"},
   structural |-> {"true", "false"},
   durability |-> {"CONSTITUTIVE", "DISPOSITIONAL", "STATE"}]

VARIABLES
  rows,    \* the log
  canon,   \* each id's representative
  aliases, \* memory: attribute -> attribute
  asked,   \* memory: the attributes the host's callback was consulted on
  cursor,  \* the scene cursor
  call,    \* the call running, or Idle
  clocks,  \* history: the cursor at each call, NoTime for one not extracted
  broken,  \* history: attributes whose declaration a fault cut short
  spent    \* history: faults and edits so far

vars == <<rows, canon, aliases, asked, cursor, call, clocks, broken, spent>>

Idle == [mode |-> "idle"]

\* A row; `item` is the call and the item it came from, `raw` the pair of ids its
\* author wrote (history).
Row(item, subject, attribute, value, type) ==
  [item |-> item, about |-> 0, subject |-> subject, attribute |-> attribute,
   value |-> value, type |-> type, at |-> NoTime, to |-> NoTime,
   frame |-> "canon", status |-> "inferred", raw |-> <<>>]
About(item, n, attribute, value) == [Row(item, "row", attribute, value, "literal") EXCEPT !.about = n]

-----------------------------------------------------------------------------
(* Semantics: the fold of the attr: rows.                                  *)

Retracted(i) == \E m \in DOMAIN rows : rows[m].attribute = "retracts" /\ rows[m].about = i
Standing(i) == i \in DOMAIN rows /\ ~Retracted(i)

\* AttributeSemantics.rebuild(): the last row of an axis speaks for it.
Declared(a, p) ==
  {i \in DOMAIN rows : rows[i].type = "declaration" /\ rows[i].subject = a
                       /\ rows[i].attribute = p /\ ~Retracted(i)}
IsDeclared(a) == \E p \in Axes : Declared(a, p) # {}

BuiltinDefault(a) ==
  [arity |-> IF a \in {"connects_to", "name", "role"} \union IdentityEdges
             THEN "set_valued" ELSE "functional",
   relation_family |-> IF a \in {"in", "held_by", "worn_by"} THEN "containment"
                       ELSE IF a = "connects_to" THEN "lateral" ELSE "none",
   fold_policy |-> "by_class",
   structural |-> IF a \in Core \ IdentityEdges THEN "true" ELSE "false",
   durability |-> "none"]

Semantics(a) ==
  [p \in Axes |->
     LET said == Declared(a, p) IN
     IF said # {} /\ rows[Max(said)].value \in Vocabulary[p] THEN rows[Max(said)].value
     ELSE BuiltinDefault(a)[p]]

Family(f) == {a \in {rows[i].subject : i \in DOMAIN rows} \union {"in", "held_by", "worn_by"} :
                Semantics(a).relation_family = f}

\* valid_declaration(), of every axis a declaration names.
InVocabulary(d) == \A p \in DOMAIN d : p = "resolvable_for" \/ d[p] \in Vocabulary[p]

\* conflict(): a declaration that could never take effect, or contradicts one that
\* stands, or itself.
Incoherent(a, d) ==
  LET now == Semantics(a)
      Says(p) == IF p \in DOMAIN d THEN d[p] ELSE Unset
      Will(p) == IF p \in DOMAIN d THEN d[p] ELSE now[p]
      pin == Says("durability")
  IN \/ "resolvable_for" \in DOMAIN d /\ a \in Core \union Guardrailed
     \/ pin # Unset /\ (a \in Guardrailed \/ (pin # "CONSTITUTIVE" /\ Will("structural") = "true"))
     \/ pin = Unset /\ Says("structural") = "true"
        /\ now.durability \notin {"none", "CONSTITUTIVE"}
     \/ Says("fold_policy") = "last_write"
        /\ (Will("arity") = "set_valued" \/ Will("relation_family") = "containment")
     \/ Says("fold_policy") # "last_write" /\ now.fold_policy = "last_write"
        /\ (Says("arity") = "set_valued" \/ Says("relation_family") = "containment")

\* check_declaration_authority(): no core attribute, none that has data, retracted
\* or not.
Unauthorized(a, axes) ==
  \/ a \in Core
  \/ axes # {"resolvable_for"}
     /\ \E i \in DOMAIN rows : rows[i].type \notin {"declaration", "meta"} /\ rows[i].about = 0
                               /\ rows[i].attribute = a

-----------------------------------------------------------------------------
(* The alias map.                                                          *)

\* The receipts that carry the gate's own mark.
Receipts ==
  {i \in DOMAIN rows :
     /\ rows[i].attribute = "canonicalized_from" /\ ~Retracted(i)
     /\ rows[i].value[1] # "(inverse)"
     /\ rows[i].status = "inferred"
     /\ rows[i].about # 0 /\ rows[rows[i].about].attribute = rows[i].value[2]}

\* _rebuild_alias_map(): the built-ins, then the receipts in log order.
Rebuilt ==
  LET From(a) == {i \in Receipts : rows[i].value[1] = a}
      names == DOMAIN Builtin \union {rows[i].value[1] : i \in Receipts}
  IN [a \in names \ DOMAIN InverseOf |->
        IF From(a) # {} THEN rows[Max(From(a))].value[2] ELSE Builtin[a]]

\* _canonicalize(): a structural attribute keeps its name.
Canonical(a) ==
  IF Semantics(a).structural = "true" \/ a \notin DOMAIN aliases THEN a ELSE aliases[a]

-----------------------------------------------------------------------------
(* An item as the gate reads it.                                           *)

\* An item as a host sends it; most leave most fields out.
Blank ==
  [op |-> "assert", shape |-> "ok", entity |-> Unset, attribute |-> Unset, value |-> Unset,
   type |-> Unset, from |-> NoTime, to |-> NoTime, timeless |-> FALSE, frame |-> Unset,
   status |-> "stated", hints |-> <<>>, sides |-> {}, same |-> Unset, marker |-> Unset,
   id |-> 0]

\* A wrong form: the call's default frame is not looked at.
AuthoredFrame(it, default) == IF it.frame # Unset THEN it.frame ELSE "canon"

\* eff_frame(): the frame the row will land in.
EffFrame(it, default) ==
  IF it.frame # Unset THEN it.frame ELSE IF default # Unset THEN default ELSE "canon"

\* _normalize_item(): the call's frame fills an unframed item.
FrameOf(it) == LET said == {f \in {it.frame, call.frame} : f # Unset}
               IN IF said = {} THEN "canon" ELSE IF it.frame \in said THEN it.frame ELSE call.frame

\* infer_value_type(): only the full id grammar makes a reference.
TypeOf(it) == IF it.type # Unset THEN it.type
              ELSE IF it.value \in Ids THEN "entity" ELSE "literal"

IsDeclaration(it) == it.op = "declare" /\ it.attribute \in Axes \union {"resolvable_for"}

\* Steps 4 and 5: canonicalize, swap an inverse relation, stamp the cursor.
Read(it) ==
  LET name == Canonical(it.attribute)
      type == TypeOf(it)
      swap == name \in DOMAIN InverseOf /\ type = "entity" /\ Semantics(name).structural # "true"
      stamped == ~it.timeless /\ (call.authoritative \/ it.from = NoTime)
  IN [subject |-> IF swap THEN it.value ELSE it.entity,
      attribute |-> IF swap THEN InverseOf[name] ELSE name,
      value |-> IF swap THEN it.entity ELSE it.value,
      type |-> IF IsDeclaration(it) THEN "declaration" ELSE type,
      at |-> IF stamped THEN cursor ELSE IF it.timeless THEN NoTime ELSE it.from,
      to |-> it.to,
      frame |-> FrameOf(it),
      receipt |-> IF swap THEN <<"(inverse)", InverseOf[name]>>
                  ELSE IF name # it.attribute THEN <<it.attribute, name>> ELSE <<>>,
      demoted |-> call.authoritative /\ ~it.timeless /\ it.from # NoTime]

Rep(x) == IF x \in Ids THEN canon[x] ELSE x
Closure(x) == {y \in Ids : Rep(y) = Rep(x)}

\* visible() of a frame at a valid time; NoTime bounds nothing.
Visible(frame, t) ==
  {i \in DOMAIN rows : /\ Standing(i) /\ rows[i].about = 0 /\ rows[i].frame = frame
                       /\ rows[i].type \in {"entity", "literal"}
                       /\ t # NoTime => rows[i].at <= t /\ (rows[i].to = NoTime \/ rows[i].to > t)}

\* Where a place lies is part of what it is, once the row is classified: at once, or
\* at the end of an atomic call.
Fixed(i) ==
  /\ rows[i].subject \in PlaceIds /\ rows[i].attribute \notin {"held_by", "worn_by"}
  /\ ~(call.mode = "running" /\ call.atomic /\ rows[i].item[1] = Len(clocks))

\* The container of x: the first of its fixed rows, else the latest row of the family,
\* whatever its attribute; of rows of one moment that disagree, the first.
Container(x, frame, t) ==
  LET own == {i \in Visible(frame, t) : Rep(rows[i].subject) = Rep(x)
                                        /\ rows[i].attribute \in Family("containment")}
      fixed == {i \in own : Fixed(i)}
      now == {i \in own : \A j \in own : rows[j].at <= rows[i].at}
      torn == \E i, j \in now : Rep(rows[i].value) # Rep(rows[j].value)
      served == IF fixed # {} THEN Min(fixed) ELSE IF torn THEN Min(now) ELSE Max(now)
  IN IF own = {} \/ rows[served].type # "entity" THEN Unset ELSE Rep(rows[served].value)

\* indexes.locate(): up to a root, or until the walk meets itself.
Ancestors(x, frame, t) ==
  LET up[n \in 0..Cardinality(Ids)] ==
        IF n = 0 THEN Rep(x) ELSE IF up[n - 1] = Unset THEN Unset ELSE Container(up[n - 1], frame, t)
  IN {up[n] : n \in 1..Cardinality(Ids)} \ {Unset, Rep(x)}

\* A wrong form: only the thing itself is looked for above.
CyclesDirect(r, t) == Rep(r.subject) = Rep(r.value)

\* _cycle_reason()
Cycles(r, t) == Rep(r.subject) \in {Rep(r.value)} \union Ancestors(r.value, r.frame, t)

\* folded_kind(): what canon folds it to, by the best evidence; contested, nothing.
FoldedKind(x) ==
  LET said == {i \in Visible("canon", NoTime) : Rep(rows[i].subject) = Rep(x)
                                                /\ rows[i].attribute = "kind"}
      stated == {i \in said : rows[i].status = "stated"}
      best == {rows[i].value : i \in IF stated # {} THEN stated ELSE said}
  IN IF Cardinality(best) = 1 THEN CHOOSE v \in best : TRUE ELSE Unset

\* A wrong form: a person is known by the id alone.
PersonByName(x) == x \in PersonIds

Person(x) == Closure(x) \intersect PersonIds # {} \/ FoldedKind(x) = "person"

\* _is_person_role_move()
RoleMove(r) == r.attribute = "kind" /\ r.type = "literal" /\ r.value # "person"
               /\ Person(Rep(r.subject))

-----------------------------------------------------------------------------
(* Refusals.                                                               *)

NoPlan == [by |-> "nobody", says |-> <<>>]

\* _declaration_plan(): the item's hints, else the host's callback, asked once.
Plan(a, it) ==
  CASE a \in Core \/ IsDeclared(a) -> NoPlan
    [] a \notin Core /\ ~IsDeclared(a) /\ DOMAIN it.hints # {} -> [by |-> "item", says |-> it.hints]
    [] a \notin Core /\ ~IsDeclared(a) /\ DOMAIN it.hints = {} ->
         IF a \in asked THEN NoPlan
         ELSE [by |-> "host", says |-> IF a \in DOMAIN Default THEN Default[a] ELSE <<>>]

PlanOf(r, it) == IF r.type = "declaration" THEN NoPlan
                 ELSE Plan(IF RoleMove(r) THEN "role" ELSE r.attribute, it)

\* _family_after(): as the item's own declaration would leave it.
FamilyAfter(r, it) ==
  LET d == IF r.type = "declaration" THEN <<>> ELSE Plan(r.attribute, it).says
  IN IF "relation_family" \in DOMAIN d /\ d["relation_family"] \in Vocabulary["relation_family"]
     THEN d["relation_family"] ELSE Semantics(r.attribute).relation_family

\* _authorize(): a status outside the grant, the world's physics, or generated text
\* outside a host's own frame; raised whatever else is wrong with the item.
Violation(it) ==
  \/ it.entity = "attr:__world__" /\ it.attribute = "resolution_policy"
  \/ it.status \notin {"stated", "observed", "inferred", "assumed", "generated"}
  \/ /\ it.status = "generated" /\ it.shape # "bad_frame"
     /\ FrameOf(it) \in {"canon", "knows"} \/ it.sides \intersect {"source", "alias"} # {}

\* The registry's veto: two ids said to be distinct.
Vetoed(x, y) ==
  \E i \in DOMAIN rows : /\ Standing(i) /\ rows[i].attribute = "distinct_from"
                         /\ {Rep(rows[i].subject), Rep(rows[i].value)} = {Rep(x), Rep(y)}

\* Steps 6 to 9, and 11 for a merge: what is skipped with a receipt.
Skipped(it, r) ==
  LET family == FamilyAfter(r, it) IN
  \/ r.attribute \in Mechanism
  \/ r.type # "declaration" /\ r.subject \notin Ids
  \/ r.type = "entity" /\ r.value \notin Ids
  \/ /\ it.type = Unset /\ r.value \in Typos
     /\ family \in {"containment", "lateral"} \/ r.attribute \in {"part_of", "caused_by", "aka"}
  \/ r.attribute \in {"fixture", "frame_continues_as"} /\ call.extracted
  \/ r.attribute \in IdentityEdges \union {"frame_continues_as"} /\ r.frame # "canon"
  \/ r.attribute \in {"frame_continues_as", "same_as"} /\ r.type # "entity"
  \/ r.attribute = "same_as" /\ Vetoed(r.subject, r.value)
  \/ r.to # NoTime /\ (r.at = NoTime \/ r.to < r.at)
  \/ r.type = "entity" /\ family = "containment" /\ Cycles(r, r.at)
  \/ r.type = "entity" /\ family = "lateral" /\ Rep(r.subject) = Rep(r.value)

\* Step 10: the attribute a declaration is of, and what it says.
Declares(r, it) ==
  IF r.type = "declaration" THEN [of |-> r.subject, says |-> [p \in {r.attribute} |-> r.value]]
  ELSE [of |-> IF RoleMove(r) THEN "role" ELSE r.attribute, says |-> PlanOf(r, it).says]

\* What becomes of the item, in the order the gate asks.
Outcome(it) ==
  LET r == Read(it)
      d == Declares(r, it)
      axes == DOMAIN d.says
      manual == r.type = "declaration" /\ axes = {"resolvable_for"}
  IN CASE it.shape = "no_object" -> "refused"
       [] it.shape # "no_object" /\ Violation(it) -> "raised"
       [] it.shape # "no_object" /\ ~Violation(it) ->
            IF it.shape # "ok" \/ Skipped(it, r) THEN "refused"
            ELSE IF axes = {} THEN "written"
            ELSE IF ~manual /\ Unauthorized(d.of, axes) THEN "raised"
            ELSE IF ~InVocabulary(d.says) \/ Incoherent(d.of, d.says) THEN "refused"
            ELSE "written"

-----------------------------------------------------------------------------
(* What a written item appends.                                            *)

\* _declare(): one row for each axis, in the order of the code's keys.
DeclarationRows(it, r) ==
  LET d == Declares(r, it)
      Say(p) == IF p \in DOMAIN d.says THEN <<Row(it.id, d.of, p, d.says[p], "declaration")>>
                ELSE <<>>
  IN IF r.type = "declaration" THEN <<>>
     ELSE Say("arity") \o Say("relation_family") \o Say("fold_policy")
          \o Say("structural") \o Say("durability") \o Say("resolvable_for")

\* The main row; for a merge its event and its edge, or nothing when it is made.
MainRows(it, r) ==
  LET main == [Row(it.id, Rep(r.subject), IF RoleMove(r) THEN "role" ELSE r.attribute,
                   IF r.type = "entity" THEN Rep(r.value) ELSE r.value, r.type)
               EXCEPT !.at = r.at, !.to = r.to, !.frame = r.frame, !.status = it.status,
                      !.raw = <<it.entity, it.value>>]
  IN IF r.attribute # "same_as" THEN <<main>>
     ELSE IF Rep(r.subject) = Rep(r.value) THEN <<>>
     ELSE <<Row(it.id, "merge", "kind", "identity_merge", "event"),
            Row(it.id, r.subject, "same_as", r.value, "edge")>>

\* The rows beside it, about row n; a side field that is no id is dropped.
SideRows(it, r, n) ==
  LET Tell(when, attribute, value) ==
        IF n # 0 /\ when THEN <<About(it.id, n, attribute, value)>> ELSE <<>>
      kind == Row(it.id, Rep(r.subject), "kind", "person", "literal")
      named == \E i \in Visible(r.frame, NoTime) :
                 rows[i].attribute = "kind" /\ rows[i].value = "person"
                 /\ Rep(rows[i].subject) = Rep(r.subject)
  IN Tell(r.demoted, "source_valid_from", it.from)
     \o Tell(r.receipt # <<>>, "canonicalized_from", r.receipt)
     \o Tell(RoleMove(r), "reclassified_from", "kind")
     \o (IF RoleMove(r) /\ ~named THEN <<[kind EXCEPT !.frame = r.frame]>> ELSE <<>>)
     \o Tell("source" \in it.sides, "source", "doc")
     \o Tell("cause" \in it.sides, "caused_by", "event")
     \o (IF "alias" \in it.sides
         THEN <<[Row(it.id, Rep(it.entity), "alias", "name", "literal")
                 EXCEPT !.frame = r.frame, !.status = it.status]>> ELSE <<>>)
     \o Tell("correction" \in it.sides, "correction_proposal", "true")
     \o (IF it.same \in Ids /\ r.frame = "canon"
         THEN <<Row(it.id, Rep(it.entity), "maybe_same_as", it.same, "edge")>> ELSE <<>>)

\* A side field refused: the item lands, with a receipt.
SideRefused(it, r) ==
  \/ "bad_alias" \in it.sides
  \/ "bad_cause" \in it.sides /\ MainRows(it, r) # <<>>
  \/ it.same # Unset /\ (it.same \notin Ids \/ r.frame # "canon")

Written(it) ==
  LET r == Read(it)
      first == DeclarationRows(it, r) \o MainRows(it, r)
      n == IF MainRows(it, r) = <<>> THEN 0 ELSE Len(rows) + Len(first)
  IN first \o SideRows(it, r, n)

\* The rows that make two ids one are the last of them.
Merges(it, k) == Read(it).attribute = "same_as" /\ MainRows(it, Read(it)) # <<>> /\ k >= 2

-----------------------------------------------------------------------------
(* The moved pass: in an extracted call the engine authors the time of a   *)
(* movement, never the text.                                               *)

\* What is left of the items: those of a movement at the cursor, those of a complete
\* event to it.
Passed(items, dropped, closed, timed) ==
  LET Stamp(n) ==
        IF n \in closed \union timed
        THEN [items[n] EXCEPT !.from = cursor, !.timeless = FALSE,
                              !.to = IF n \in closed THEN cursor ELSE NoTime]
        ELSE items[n]
      kept[n \in 0..Len(items)] ==
        IF n = 0 THEN <<>> ELSE IF n \in dropped THEN kept[n - 1] ELSE Append(kept[n - 1], Stamp(n))
  IN kept[Len(items)]

\* What the pass makes of a call's items: those kept, and whether it dropped any.
MovedPass(items, default) ==
  LET Is(n, a) == Canonical(items[n].attribute) = a
      nums == DOMAIN items
      kinds == {n \in nums : items[n].entity \in EventIds /\ Is(n, "kind")
                             /\ items[n].value = "moved"}
      events == {items[n].entity : n \in kinds}
      stray == {n \in nums : items[n].entity \in events /\ Is(n, "complete")}
      Payload(e) == {n \in nums \ stray : items[n].entity = e}
      Kind(e) == Max({n \in kinds : items[n].entity = e})
      Sound(e) == {n \in Payload(e) : items[n].marker # Unset} = {Kind(e)}
                  /\ items[Kind(e)].marker \in {"yes", "no"}
      Complete(e) == items[Kind(e)].marker = "yes"
      Said(e, a) == {n \in Payload(e) : Is(n, a)}
      Arrivals(e) ==
        IF Said(e, "agent") = {} \/ Said(e, "destination") = {} THEN {}
        ELSE LET who == items[Max(Said(e, "agent"))]
                 dest == items[Max(Said(e, "destination"))]
             IN {n \in nums : /\ TypeOf(dest) = "entity"
                              /\ items[n].entity = who.value /\ Is(n, "in")
                              /\ items[n].value = dest.value
                              /\ EffFrame(items[n], default) = EffFrame(items[Kind(e)], default)}
      dropped == stray \union UNION {Payload(e) \union Arrivals(e) : e \in {f \in events : ~Sound(f)}}
                       \union UNION {Arrivals(e) : e \in {f \in events : ~Complete(f)}}
      complete == {e \in events : Complete(e)}
  IN [items |-> Passed(items, dropped, UNION {Payload(e) : e \in complete},
                       UNION {Payload(e) \union Arrivals(e) : e \in events}),
      dropped |-> dropped # {}]

-----------------------------------------------------------------------------
(* Calls.                                                                  *)

Init ==
  /\ rows \in {<<>>, OldLog}
  /\ canon = [x \in Ids |-> x]
  /\ aliases = Rebuilt
  /\ asked = {} /\ broken = {}
  /\ cursor = 0
  /\ call = Idle
  /\ clocks = <<>>
  /\ spent = [faults |-> 0, edits |-> 0]

Running == call.mode = "running"

\* The views an atomic call puts back: _snapshot_views(), and what SQLite rolls back.
Snapshot == [rows |-> rows, canon |-> canon, aliases |-> aliases, asked |-> asked]

\* A wrong form: the attributes consulted on are not put back.
RestoreHalf ==
  /\ rows' = call.before.rows /\ canon' = call.before.canon
  /\ aliases' = call.before.aliases
  /\ asked' = asked

\* _restore_views(), after the rollback.
Restore ==
  /\ rows' = call.before.rows /\ canon' = call.before.canon
  /\ aliases' = call.before.aliases
  /\ asked' = call.before.asked

\* ingest_structured() or commit_set(): the items numbered, and passed over if they
\* were extracted.
Begin(c) ==
  /\ call = Idle /\ Len(clocks) < MaxCalls
  /\ LET n == Len(clocks) + 1
         items == [k \in DOMAIN c.items |-> [c.items[k] EXCEPT !.id = <<n, k>>]]
         pass == IF c.extracted THEN MovedPass(items, c.frame)
                 ELSE [items |-> items, dropped |-> FALSE]
     IN call' = [mode |-> "running", items |-> pass.items, skipped |-> pass.dropped,
                 frame |-> c.frame, extracted |-> c.extracted, authoritative |-> c.authoritative,
                 atomic |-> c.atomic, before |-> IF c.atomic THEN Snapshot ELSE Idle]
  /\ clocks' = Append(clocks, IF c.extracted THEN cursor ELSE NoTime)
  /\ UNCHANGED <<rows, canon, aliases, asked, cursor, broken, spent>>

\* An error leaves the call: an atomic one takes its rows back.
Raise ==
  /\ call' = Idle
  /\ IF call.atomic THEN Restore ELSE UNCHANGED <<rows, canon, aliases, asked>>

\* What an item makes of the registry once k of its rows are in.
Elect(it, k) ==
  LET r == Read(it) IN
  IF Merges(it, k)
  THEN \E head \in {Rep(r.subject), Rep(r.value)} :
         canon' = [x \in Ids |-> IF canon[x] \in {Rep(r.subject), Rep(r.value)}
                                 THEN head ELSE canon[x]]
  ELSE canon' = canon

\* The callback counts as consulted once an item reaches the declaration step.
Consult(it) ==
  LET r == Read(it) IN
  asked' = IF PlanOf(r, it).by = "host"
           THEN asked \union {IF RoleMove(r) THEN "role" ELSE r.attribute} ELSE asked

\* _ingest_item(): the next item is written, refused, or raises.
Take ==
  /\ Running /\ call.items # <<>> /\ Head(call.items).op # "retract"
  /\ LET it == Head(call.items) IN
     \/ /\ Outcome(it) = "raised" /\ Raise
     \/ /\ Outcome(it) = "refused"
        /\ call' = [call EXCEPT !.items = Tail(@), !.skipped = TRUE]
        /\ UNCHANGED <<rows, canon, aliases, asked>>
     \/ /\ Outcome(it) = "written"
        /\ rows' = rows \o Written(it)
        /\ Elect(it, Len(Written(it)))
        /\ Consult(it)
        /\ call' = [call EXCEPT !.items = Tail(@), !.skipped = @ \/ SideRefused(it, Read(it))]
        /\ UNCHANGED aliases
  /\ UNCHANGED <<cursor, clocks, broken, spent>>

\* commit_set()'s other op: a retraction of an earlier row.  What a merge is when its
\* edge is taken back is module Identity's.
TakeRetract ==
  /\ Running /\ call.items # <<>> /\ Head(call.items).op = "retract"
  /\ LET it == Head(call.items) IN
     /\ it.value \in DOMAIN rows => rows[it.value].type # "edge"
     /\ IF Standing(it.value)
        THEN /\ rows' = Append(rows, About(it.id, it.value, "retracts", "reason"))
             /\ call' = [call EXCEPT !.items = Tail(@)]
             /\ UNCHANGED <<canon, aliases, asked>>
        ELSE Raise
  /\ UNCHANGED <<cursor, clocks, broken, spent>>

\* The rows of the next item stop at k: what stands of them in a plain call.
Cut(it, k) ==
  /\ rows' = rows \o SubSeq(Written(it), 1, k)
  /\ Elect(it, k)

\* An append fails, and the call with it.
Fail(k) ==
  /\ Running /\ call.items # <<>> /\ Head(call.items).op # "retract"
  /\ spent.faults < MaxFaults /\ spent' = [spent EXCEPT !.faults = @ + 1]
  /\ LET it == Head(call.items) IN
     /\ Outcome(it) = "written" /\ k < Len(Written(it))
     /\ IF call.atomic THEN Restore /\ UNCHANGED broken
        ELSE /\ Cut(it, k) /\ Consult(it) /\ UNCHANGED aliases
             /\ broken' = IF k = 0 /\ PlanOf(Read(it), it).by = "host"
                          THEN broken \union {Declares(Read(it), it).of} ELSE broken
  /\ call' = Idle
  /\ UNCHANGED <<cursor, clocks>>

\* The process dies there instead: an open unit of work is rolled back.
Crash(k) ==
  /\ Running /\ call.items # <<>> /\ Head(call.items).op # "retract"
  /\ spent.faults < MaxFaults /\ spent' = [spent EXCEPT !.faults = @ + 1]
  /\ LET it == Head(call.items) IN
     /\ Outcome(it) = "written" /\ k < Len(Written(it))
     /\ IF call.atomic THEN rows' = call.before.rows /\ canon' = call.before.canon
        ELSE Cut(it, k)
  /\ call' = [mode |-> "dead"]
  /\ UNCHANGED <<aliases, asked, cursor, clocks, broken>>

\* The last item is behind: a skip aborts an atomic call.
End ==
  /\ Running /\ call.items = <<>>
  /\ call' = Idle
  /\ IF call.atomic /\ call.skipped THEN Restore ELSE UNCHANGED <<rows, canon, aliases, asked>>
  /\ UNCHANGED <<cursor, clocks, broken, spent>>

-----------------------------------------------------------------------------
(* Between calls.                                                          *)

Edit == spent.edits < MaxEdits /\ spent' = [spent EXCEPT !.edits = @ + 1]

\* Ingestor.__init__: memory starts from the log.
Reopen ==
  /\ \/ call.mode = "dead" /\ UNCHANGED spent
     \/ call = Idle /\ Edit
  /\ aliases' = Rebuilt /\ asked' = {}
  /\ call' = Idle
  /\ UNCHANGED <<rows, canon, cursor, clocks, broken>>

\* add_attribute_alias()
InstallAlias(a) ==
  /\ call = Idle /\ Edit
  /\ a[1] \notin DOMAIN InverseOf
  /\ aliases' = [b \in DOMAIN aliases \union {a[1]} |-> IF b = a[1] THEN a[2] ELSE aliases[b]]
  /\ UNCHANGED <<rows, canon, asked, cursor, call, clocks, broken>>

\* SceneCursor.advance(), to any time.
Advance(t) ==
  /\ call = Idle /\ t # cursor /\ Edit
  /\ cursor' = t
  /\ UNCHANGED <<rows, canon, aliases, asked, call, clocks, broken>>

\* The host retracts a row that is no identity edge.
Retract(i) ==
  /\ call = Idle /\ Edit
  /\ Standing(i) /\ rows[i].type # "edge" /\ rows[i].attribute # "retracts"
  /\ rows' = Append(rows, About(<<0, 0>>, i, "retracts", "reason"))
  /\ UNCHANGED <<canon, aliases, asked, cursor, call, clocks, broken>>

Next ==
  \/ \E c \in Calls : Begin(c)
  \/ Take \/ TakeRetract \/ End \/ Reopen
  \/ \E k \in 0..5 : Fail(k) \/ Crash(k)
  \/ \E a \in HostAliases : InstallAlias(a)
  \/ \E t \in 0..MaxTime : Advance(t)
  \/ \E i \in DOMAIN rows : Retract(i)

Spec == Init /\ [][Next]_vars

-----------------------------------------------------------------------------
(* What the gate promises.                                                 *)

Stated(i) == rows[i].item[1] > 0
Extracted(i) == Stated(i) /\ clocks[rows[i].item[1]] # NoTime
IsMove(i) == rows[i].attribute = "kind" /\ rows[i].value = "moved" /\ Extracted(i)

\* The rows of the same call about the same event.
OfMove(i, a) == {j \in DOMAIN rows : /\ rows[j].item[1] = rows[i].item[1]
                                     /\ rows[j].subject = rows[i].subject /\ rows[j].attribute = a}

\* A movement told by prose takes its time from the scene cursor: an event that has a
\* duration of nothing or stays open, and at every arrival that names its agent and
\* its destination as the event does, in the frame both land in, the cursor again and
\* no end; an open one has no arrival.
MovesAreTheCursors ==
  \A i \in DOMAIN rows : IsMove(i) =>
    LET now == clocks[rows[i].item[1]] IN
    /\ rows[i].at = now /\ rows[i].to \in {NoTime, now}
    /\ \A a \in OfMove(i, "agent"), d \in OfMove(i, "destination"), j \in DOMAIN rows :
         /\ rows[j].item[1] = rows[i].item[1] /\ rows[j].attribute = "in"
         /\ rows[j].frame = rows[i].frame /\ rows[j].raw = <<rows[a].raw[2], rows[d].raw[2]>>
         => rows[i].to # NoTime /\ rows[j].at = now /\ rows[j].to = NoTime

\* The specification's words, over the ids as stored: no number of the model's enters
\* as the time of an arrival.
\* The code does not keep this (README, section 6).
NoInventedTime ==
  \A i \in DOMAIN rows : IsMove(i) =>
    \A a \in OfMove(i, "agent"), d \in OfMove(i, "destination"), j \in DOMAIN rows :
      /\ rows[j].item[1] = rows[i].item[1] /\ rows[j].attribute = "in"
      /\ rows[j].frame = rows[i].frame
      /\ rows[j].subject = rows[a].value /\ rows[j].value = rows[d].value
      => rows[j].at = clocks[rows[i].item[1]]

\* However declarations come in, by hints, by the host's default or as rows, one axis
\* at a time or together, no attribute ends as last-write and set-valued, as
\* last-write and containment, or as structural and not constitutive, as long as none
\* of its rows is retracted.
SemanticsCoherent ==
  \A a \in {rows[i].subject : i \in {j \in DOMAIN rows : rows[j].type = "declaration"}} :
    LET s == Semantics(a) IN
    \/ \E i \in DOMAIN rows : rows[i].type = "declaration" /\ rows[i].subject = a /\ Retracted(i)
    \/ /\ s.fold_policy = "last_write" => s.arity # "set_valued" /\ s.relation_family # "containment"
       /\ s.structural = "true" => s.durability \in {"none", "CONSTITUTIVE"}

\* After any number of crashes and reopenings the alias map holds the built-in aliases
\* and the host's, and no other: nothing a row of the log says makes one spelling
\* another, and no inverse relation is ever a plain alias.
AliasesAreEarned ==
  \A a \in DOMAIN aliases :
    /\ a \notin DOMAIN InverseOf
    /\ <<a, aliases[a]>> \in HostAliases \/ (a \in DOMAIN Builtin /\ aliases[a] = Builtin[a])

\* The rows of a log that only grew forward in time, merged nothing and took nothing
\* back: what the gate can judge with one walk.
Forward ==
  /\ \A i \in DOMAIN rows : rows[i].attribute \notin {"retracts", "same_as"}
  /\ \A i, j \in DOMAIN rows :
       i < j /\ rows[i].type = "entity" /\ rows[j].type = "entity" => rows[i].at <= rows[j].at

\* In such a log nothing is inside itself, however far up and whichever attribute of
\* the containment family, declared ones included, says so.
NoCycle ==
  Forward => \A x \in Ids, f \in {"canon", "plot"} :
    LET up[n \in 0..Cardinality(Ids)] ==
          IF n = 0 THEN x ELSE IF up[n - 1] = Unset THEN Unset ELSE Container(up[n - 1], f, NoTime)
    IN \A n \in 1..Cardinality(Ids) : up[n] # x

\* Whether a chain of merges among the first n rows joins x to a person's id.
KnownPerson(x, n) ==
  LET join[k \in 0..n] ==
        IF k = 0 THEN {x}
        ELSE IF rows[k].attribute = "same_as"
                /\ {rows[k].subject, rows[k].value} \intersect join[k - 1] # {}
             THEN join[k - 1] \union {rows[k].subject, rows[k].value} ELSE join[k - 1]
  IN join[n] \intersect PersonIds # {}

\* A kind said of someone known to be a person, by id, by a merge, or by an earlier
\* kind, is kept as a role, whatever spelling or frame it came in.
PersonsStayPersons ==
  \A j \in DOMAIN rows :
    rows[j].attribute = "kind" /\ rows[j].type = "literal" /\ rows[j].value # "person" /\ Stated(j)
    => ~KnownPerson(rows[j].subject, j - 1)

\* No data of an attribute the host declares lands before the declaration, across
\* refusals, aborted calls and crashes: only a failure of the declaration's own first
\* row in a plain call loses it.
DeclarationsPrecedeData ==
  \A i \in DOMAIN rows :
    /\ rows[i].attribute \in DOMAIN Default \ broken /\ rows[i].type \in {"entity", "literal"}
    /\ rows[i].about = 0 /\ Stated(i)
    => \E j \in 1..(i - 1) : rows[j].type = "declaration" /\ rows[j].subject = rows[i].attribute

\* What the world says of its attributes holds: an attribute's declarations agree, they
\* come before its data, and no row makes one spelling of it another.
DeclarationsHold == SemanticsCoherent /\ AliasesAreEarned /\ DeclarationsPrecedeData
=============================================================================
