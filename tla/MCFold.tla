-------------------------------- MODULE MCFold --------------------------------
(* Fold with one attribute under each declaration, for TLC.                *)
EXTENDS Fold

CONSTANTS p, q, hall, yard, letter, copy, ann, black, red, dark

MCSubjects == {p, q}
MCPlaces == {hall, yard}
MCDocuments == {letter, copy}
MCVoices == {letter, copy, ann}
\* `dark` is the approximate value black refines.
MCRefinements == {<<dark, black>>}

Said(subject, type, value, at, status, by) ==
  [subject |-> subject, type |-> type, value |-> value, at |-> at,
   status |-> status, by |-> by]

MCOffers == [
  by_class |->
       {Said(p, "literal", black, t, "stated", {}) : t \in 0..1}
    \union {Said(p, "literal", red, 0, "stated", {letter}),
            Said(p, "literal", black, 0, "stated", {copy}), Said(p, "literal", dark, 0, "stated", {}),
            Said(p, "literal", dark, 0, "stated", {ann}), Said(q, "literal", red, 0, "stated", {}),
            Said(p, "literal", red, 1, "inferred", {}), Said(p, "unresolved", 0, NoTime, "stated", {})},
  containment |->
       {Said(p, "entity", hall, t, "stated", {}) : t \in {NoTime, 0}}
    \union {Said(p, "entity", yard, t, "stated", {letter}) : t \in {NoTime, 0}}
    \union {Said(p, "entity", yard, 1, "stated", {}), Said(p, "entity", hall, 1, "observed", {letter}),
            Said(q, "entity", hall, 1, "stated", {copy}), Said(p, "entity", yard, 1, "generated", {})},
  last_write |->
       {Said(p, "literal", black, t, s, {}) : t \in 0..1, s \in {"stated", "assumed"}}
    \union {Said(q, "literal", red, 0, "stated", {letter})},
  set_valued |->
       {Said(x, "entity", v, 0, "stated", {}) : x \in {p, q}, v \in {hall, yard}}
    \union {Said(p, "unresolved", 0, NoTime, "stated", {})},
  accrue |->
       {Said(p, ty, 5, t, "stated", {}) : ty \in {"literal", "delta"}, t \in 0..1}
    \union {Said(q, "delta", -2, 1, "stated", {letter})}]

=============================================================================
