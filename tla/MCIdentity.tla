------------------------------ MODULE MCIdentity ------------------------------
(* Identity on three ids, for TLC.                                         *)
EXTENDS Identity
MCIds == 1..3
MCWords == [ann |-> {"ann"}, brook |-> {"ann", "brook"}, mine |-> {"brother"}]
MCDescriptions == {"mine"}
Told(attr, of, val) == Row(attr, of, val, "told")
MCStarts == {
  \* Two share a name and are near each other; two share a description.
  <<Told("name", 1, "ann"), Told("name", 2, "ann"), Told("near", 1, 2),
    Told("alias", 3, "mine"), Told("alias", 1, "mine")>>,
  \* Two share an alias of two words; one has a kind.
  <<Told("alias", 2, "brook"), Told("alias", 3, "brook"), Told("kind", 2, "dog"), Told("name", 1, "ann")>>,
  \* Three share a name; two of them were merged, and the host took it back.
  <<Told("name", 1, "ann"), Told("name", 2, "ann"), Told("name", 3, "ann")>>
    \o <<Row("event", 4, 0, "engine"), Row("same_as", 1, 2, "engine"), Row("caused_by", 5, 4, "engine"),
        Row("decided_by", 4, 0, "engine"), Row("retracts", 5, 0, "host")>>}

MCOffers == {
  Told("same_as", 1, 2), Told("maybe_same_as", 1, 3), Told("distinct_from", 1, 2),
  Told("aka", 2, 3), Told("in", 3, 2),
  Told("kind", 3, "dog"), Told("kind", 1, "wolf"), Told("knows", 1, 1)}
MCWithdrawn == {"same_as", "distinct_from", "caused_by", "decided_by"}
=============================================================================
