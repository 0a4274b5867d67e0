---------------------------- MODULE MCClassifier ----------------------------
(***************************************************************************)
(* A small instance: locations of a thing, a place and a person, a pinned  *)
(* attribute, an event, declarations of a fixture.                         *)
(***************************************************************************)
EXTENDS Classifier

Kind(entity, attribute, value, type, at) ==
  [entity |-> entity, attribute |-> attribute, value |-> value, type |-> type, at |-> at]

MCKinds ==
  {Kind("thing", "in", "hall", "entity", 0), Kind("thing", "in", "hall", "entity", 1),
   Kind("place", "in", "hall", "entity", NoTime),
   Kind("thing", "fixture", "true", "literal", NoTime),
   Kind("color", "durability", "STATE", "literal", NoTime),
   Kind("thing", "color", "red", "literal", 0),
   Kind("event", "moved", "hall", "literal", 0)}
MCAnswers == {Verdict("CONSTITUTIVE", 3), Verdict("CONSTITUTIVE", 4), Verdict("EVENT", 4)}
=============================================================================
