------------------------------- MODULE MCGate -------------------------------
(***************************************************************************)
(* A small instance of the gate: two persons' ids, two places, an event,   *)
(* a log with a forged receipt, and the calls worth interleaving.          *)
(***************************************************************************)
EXTENDS Gate

MCIds == {"person:b", "npc:b", "place:x", "place:y", "box:z", "event:m"}
MCPersonIds == {"person:b"}
MCEventIds == {"event:m"}
MCPlaceIds == {"place:x", "place:y"}
MCTypos == {"Place:X"}
MCCore == {"kind", "in", "held_by", "worn_by", "connects_to", "part_of", "caused_by", "fixture"}
          \union IdentityEdges
MCGuardrailed == {"name", "alias"}
MCBuiltin == ("type" :> "kind") @@ ("located_in" :> "in")
MCInverseOf == ("holds" :> "held_by")
MCDefault == ("stowed_in" :> ("relation_family" :> "containment"))
             @@ ("role" :> ("arity" :> "set_valued"))
MCHostAliases == {<<"job", "kind">>, <<"sits", "stowed_in">>}

\* A row someone wrote as a receipt when the gate did not yet refuse it.
MCOldLog == <<[Row(<<0, 0>>, "place:x", "in", "place:y", "entity") EXCEPT !.at = 0, !.status = "stated"],
              [About(<<0, 0>>, 1, "canonicalized_from", <<"look", "in">>) EXCEPT !.status = "stated"]>>

Say(entity, attribute, value) ==
  [Blank EXCEPT !.entity = entity, !.attribute = attribute, !.value = value]
Declare(attribute, axis, value) ==
  [Blank EXCEPT !.op = "declare", !.entity = attribute, !.attribute = axis, !.value = value]

Plain(items) == [items |-> items, frame |-> Unset, extracted |-> FALSE,
                 authoritative |-> FALSE, atomic |-> FALSE]
Prose(items, frame) == [Plain(items) EXCEPT !.extracted = TRUE, !.frame = frame]
Atomic(items) == [Plain(items) EXCEPT !.atomic = TRUE]

Moved(marker, time, who) ==
  <<[Say("event:m", "type", "moved") EXCEPT !.marker = marker, !.from = time, !.frame = "plot"],
    Say("event:m", "agent", who), Say("event:m", "destination", "place:x"),
    [Say("person:b", "located_in", "place:x") EXCEPT !.from = time]>>

MCCalls ==
  {Plain(<<Say("place:x", "in", "place:y")>>),
   Plain(<<[Say("place:y", "located_in", "box:z") EXCEPT !.sides = {"source", "bad_cause"}],
           Say("box:z", "stowed_in", "place:x")>>),
   Plain(<<Say("place:y", "holds", "place:x"), Say("place:x", "in", "Place:X")>>),
   Plain(<<[Say("person:b", "same_as", "npc:b") EXCEPT !.sides = {"alias"}]>>),
   Plain(<<Say("npc:b", "job", "guard"),
           [Say("npc:b", "type", "guard") EXCEPT !.frame = "plot", !.status = "generated"]>>),
   Plain(<<[Say("npc:b", "name", "bo") EXCEPT !.hints =
              ("arity" :> "functional") @@ ("fold_policy" :> "last_write")],
           Declare("lock", "fold_policy", "last_write")>>),
   Plain(<<Declare("lock", "arity", "set_valued"), Declare("lock", "structural", "true"),
           Declare("lock", "durability", "STATE")>>),
   Atomic(<<Say("box:z", "sits", "place:y"), Say("npc:b", "retracts", "place:x")>>),
   Atomic(<<Say("box:z", "stowed_in", "place:x"), [Blank EXCEPT !.op = "retract", !.value = 1]>>),
   Prose(Moved("yes", 2, "person:b"), "plot"),
   Prose(Moved("no", 2, "person:b"), "plot"),
   Prose(Moved("text", 2, "person:b"), Unset),
   Prose(Moved("yes", 2, "npc:b"), "plot")}
=============================================================================
