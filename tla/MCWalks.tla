-------------------------------- MODULE MCWalks --------------------------------
(***************************************************************************)
(* Three small worlds.  In the first a hall and a yard are joined by a     *)
(* gate, with two boxes and a move that ends: the gate may be shut, one    *)
(* box may turn out to be the other, the yard to be the hall, and a        *)
(* watcher hears of it.  In the second the fall shuts the gate and moves a *)
(* box.  In the third things are asked for, learned and bound by words.    *)
(***************************************************************************)
EXTENDS Bind

MCIds == {"place:hall", "place:yard", "obj:gate", "obj:box", "obj:box_2", "obj:box_3", "event:fall"}
MCPlaceIds == {"place:hall", "place:yard"}
MCEventIds == {"event:fall"}
MCAlphabet == <<"event:fall", "obj:box", "obj:box_2", "obj:box_3", "obj:gate", "place:hall", "place:yard">>
MCRanking == <<"obj:box_2", "place:hall", "event:fall", "obj:gate", "obj:box", "place:yard", "obj:box_3">>
MCKnowers == {"knows:watcher"}
MCTraversal == {<<"gate", "traversal:gate">>}

Founding(rows) == [i \in DOMAIN rows |-> WithRep(rows[i], [x \in MCIds |-> x])]
Until(t, row) == [row EXCEPT !.until = t]
About(i, row) == [row EXCEPT !.about = i]

Crossing ==
  [old |-> Founding(<<Row("place:hall", "connects_to", "obj:gate", 0, "canon"),
                      Row("obj:gate", "connects_to", "place:yard", 0, "canon"),
                      Row("obj:gate", "kind", "gate", 0, "canon"),
                      Row("traversal:gate", "blocks_when_state", "shut", 0, "canon"),
                      Row("obj:box", "in", "place:hall", 0, "canon"),
                      Row("event:fall", "agent", "obj:box", 0, "canon")>>),
   offers |-> {Row("obj:gate", "state", "shut", 1, "canon"),
               Row("obj:gate", "state", "open", 2, "canon"),
               Row("traversal:gate", "blocks_when_relation", "barred_by", 0, "canon"),
               Row("obj:gate", "barred_by", "obj:box_2", 1, "canon"),
               Until(2, Row("place:yard", "connects_to", "place:hall", 0, "canon")),
               Row("obj:box_2", "in", "obj:box", 0, "canon"),
               Row("obj:box_2", "in", "place:yard", 1, "canon"),
               Row("obj:box_2", "same_as", "obj:box", 0, "canon"),
               Row("place:yard", "same_as", "place:hall", 0, "canon"),
               Row("obj:gate", "part_of", "place:hall", 0, "canon"),
               Row("obj:gate", "part_of", "place:yard", 0, "canon"),
               Row("obj:box", "in", "place:yard", 0, "knows:watcher"),
               Row("obj:box_2", "in", "place:hall", 1, "knows:watcher"),
               About(5, Row("obj:box", "retracts", "none", 0, "canon"))},
   max |-> 8, verdicts |-> 1, asks |-> {}, turns |-> {}]

\* The fall shuts the gate it is said to have shut, once its cause is written.
Falling ==
  [old |-> Founding(<<Row("obj:box", "in", "place:hall", 0, "canon"),
                      Row("obj:gate", "state", "open", 0, "canon"),
                      Row("event:fall", "agent", "obj:box", 1, "canon"),
                      Row("obj:gate", "state", "shut", 1, "canon"),
                      About(4, Row("row", "caused_by", "event:fall", 0, "canon")),
                      Row("obj:gate", "in", "place:hall", 1, "canon")>>),
   offers |-> {About(1, Row("row", "caused_by", "event:fall", 0, "canon")),
               About(6, Row("row", "caused_by", "event:fall", 0, "canon")),
               About(5, Row("row", "retracts", "none", 0, "canon")),
               Row("obj:box", "in", "place:yard", 2, "canon"),
               Row("obj:gate", "state", "shut", 2, "knows:watcher"),
               Until(2, Row("event:fall", "patient", "obj:box_2", 1, "canon")),
               Row("event:fall", "caused_by", "obj:gate", 2, "canon"),
               Row("obj:box_2", "same_as", "obj:box", 0, "canon")},
   max |-> 8, verdicts |-> 1, asks |-> {}, turns |-> {}]

\* The box of the hall is known to the watcher only; the gate comes later.
Asked(text, scope, t, learn) ==
  [text |-> text, scope |-> scope, frame |-> "canon", t |-> t, constraints |-> <<>>, learn |-> learn]
Mention(e, attr, v, names) == [e |-> e, attr |-> attr, v |-> v, names |-> names]
Turned(rows, t) ==
  [rows |-> rows, t |-> t, scope |-> {"place:hall"}, include |-> {"obj:gate"}, widen |-> {"obj"},
   mint |-> {"obj"}, frame |-> "canon"]
Naming ==
  [old |-> Founding(<<Row("place:hall", "kind", "room", 0, "canon"),
                      Row("obj:box", "kind", "box", 0, "knows:watcher"),
                      Row("obj:gate", "kind", "gate", 2, "canon"),
                      Row("obj:gate", "in", "place:hall", 2, "canon")>>),
   offers |-> {Row("obj:box_2", "alias", "crate", 1, "canon"),
               Row("obj:box_3", "same_as", "obj:gate", 0, "canon"),
               About(5, Row("obj:box", "retracts", "none", 0, "canon"))},
   max |-> 7, verdicts |-> 0,
   asks |-> {Asked("the crate", {"place:hall"}, 2, TRUE), Asked("crate", {"place:hall"}, 1, FALSE),
             Asked("the crate", {"place:yard"}, 1, TRUE), Asked("the box", {}, 2, FALSE)},
   turns |-> {Turned(<<Mention("obj:box", "in", "place:hall", {}),
                       Mention("obj:box", "kind", "box", {})>>, 1),
              Turned(<<Mention("obj:box", "in", "place:hall", {"the gate"})>>, 1),
              Turned(<<Mention("obj:box_2", "state", "shut", {"crate"}),
                       Mention("event:fall", "agent", "obj:box", {})>>, 2)}]
MCWorlds == {Crossing, Falling, Naming}

MCTexts == {"the crate", "crate", "the box", "the gate", "box", "gate"}
MCNorm == [text \in MCTexts |-> text]
MCCore ==
  [text \in MCTexts |-> CASE text = "the crate" -> "crate" [] text = "the box" -> "box"
                          [] text = "the gate" -> "gate" [] OTHER -> text]
MCKindWord ==
  [text \in MCTexts |-> CASE text = "the crate" -> "crate" [] text = "the box" -> "box"
                          [] text = "the gate" -> "gate" [] OTHER -> "none"]
MCSlug ==
  [x \in MCIds |->
     CASE x = "place:hall" -> <<"hall">> [] x = "place:yard" -> <<"yard">> [] x = "obj:gate" -> <<"gate">>
       [] x = "obj:box" -> <<"box">> [] x = "obj:box_2" -> <<"box", "2">>
       [] x = "obj:box_3" -> <<"box", "3">> [] x = "event:fall" -> <<"fall">>]
MCTokens ==
  [text \in MCTexts \union {"room"} |->
     CASE text = "the crate" -> <<"the", "crate">> [] text = "the box" -> <<"the", "box">>
       [] text = "the gate" -> <<"the", "gate">> [] OTHER -> <<text>>]
MCVariants ==
  [x \in MCIds |->
     CASE x = "obj:box" -> <<"obj:box", "obj:box_2", "obj:box_3">>
       [] x = "obj:box_2" -> <<"obj:box_2", "obj:box_3">> [] OTHER -> <<x>>]
MCPlurals == {}
MCTitles == {"lady"}
MCArticles == {"the", "a", "an"}
=============================================================================
