------------------------------ MODULE MCViewFeed ------------------------------
(***************************************************************************)
(* A study, a desk in it, a key in the desk, a person with a note: the     *)
(* player knows the study, may come to know the desk or that two ids are   *)
(* one.                                                                    *)
(***************************************************************************)
EXTENDS ViewFeed

MCIds == {"place:study", "obj:desk", "obj:key", "npc:guard", "person:mara"}
MCPersonIds == {"person:mara"}
MCPlaceIds == {"place:study"}

Founding(rows) ==
  [i \in DOMAIN rows |-> WithRep(rows[i], [x \in MCIds |-> x])]
MCOldLog ==
  Founding(<<Row("place:study", "light", "dim", 0, "view"),
             Row("obj:desk", "in", "place:study", 0, "canon"),
             Row("obj:key", "in", "obj:desk", 0, "canon"),
             Row("npc:guard", "in", "obj:desk", 0, "canon"),
             Row("npc:guard", "guards", "obj:key", 0, "canon")>>)

MCOffers ==
  {Row("place:study", "light", "bright", 1, "view"),
   Row("obj:desk", "look", "oak", 0, "view"),
   [Row("place:study", "retracts", "none", 0, "canon") EXCEPT !.about = 1],
   Row("obj:key", "in", "npc:guard", 1, "canon"),
   Row("npc:guard", "kind", "person", 0, "canon"),
   Row("obj:key", "same_as", "npc:guard", 0, "canon"),
   Row("npc:guard", "same_as", "person:mara", 0, "canon")}

MCFirstService == [key |-> {"k1"}, people |-> {{"guards"}}]
MCServices ==
  {[key |-> {"k1"}, people |-> {}], MCFirstService,
   [key |-> {}, people |-> {{}}]}
=============================================================================
