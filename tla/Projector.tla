------------------------------ MODULE Projector ------------------------------
(***************************************************************************)
(* What a host renders from (project.py): the rows of a scope under a      *)
(* lens, and what one frame knows that others do not (porcelain.py).       *)
(*                                                                         *)
(* A lens reads the walks and the folds at a query and keeps nothing.      *)
(* Left out: habits, pinned rows, sums, the correlated union, the defaults *)
(* a kind is painted with, and the sheet, which is the current state of    *)
(* one thing.  Salience is the constant ranking of module Walks.           *)
(***************************************************************************)
EXTENDS Walks

CONSTANT
  Room       \* how many rows a projection is asked for

ASSUME ProjectorConstants == Room \in Nat

-----------------------------------------------------------------------------
(* The scope and what stands in it.                                        *)

Meta == {"retracts", "source", "same_as", "learned_alias"}

\* current_state(): the keys a thing has rows of, folded.
Keys(x, q) == {log[i].attr : i \in RowsOf(x, q)} \ Meta
Winners(x, q) == {F(x, attr, q).winner : attr \in Keys(x, q)} \ {0}
Shown(rows) == {i \in rows : log[i].v # Unresolved}
Standing(roots, q) == Shown(UNION {Winners(x, q) : x \in Scope(roots, q)})

\* Both sides of a conflict stand.
Parties(live) == IF \E i \in live : IsHard(i) THEN {i \in live : IsHard(i)} ELSE Latest(live)
ServedOf(live) == IF FoldRows(live).conflicted THEN Parties(live) ELSE {FoldRows(live).winner} \ {0}
Served(roots, q) ==
  UNION {ServedOf(Concrete(KeyRows(q.rows, xa[1], xa[2]))) :
           xa \in UNION {{<<x, attr>> : attr \in Keys(x, q)} : x \in Scope(roots, q)}}

-----------------------------------------------------------------------------
(* The world at rest.                                                      *)

\* is_event_effect(): an event caused the row.
CausedBy(i, h) == {j \in 1..h : Visible(j, h) /\ log[j].attr = "caused_by" /\ log[j].about = i}
AtRest(i, h) == IsHard(i) \/ CausedBy(i, h) = {}

Sooner(i, j) == log[i].at < log[j].at \/ (log[i].at = log[j].at /\ i <= j)
First(rows) == {i \in rows : \A j \in rows : Sooner(i, j)}

\* _establishing_scope(): the subtree by where each thing was put first.
Resting(c, q) ==
  First({i \in KeyRows(q.rows, c, "in") : log[i].v \in Ids /\ AtRest(i, q.h)})
RestingIn(q) == UNION {{<<Now(log[i].v), c>> : i \in Resting(c, q)} : c \in Things}
RestingUnder(roots, edges) ==
  LET gather[n \in 0..Cardinality(Ids)] ==
        IF n = 0 THEN {Now(r) : r \in roots}
        ELSE gather[n - 1] \union UNION {Linked(x, edges) : x \in gather[n - 1]}
  IN gather[Cardinality(Ids)]

\* _establishing_state(): what a key first said of its own accord.
Establishing(i, x, q) ==
  IF IsHard(i) THEN {i}
  ELSE First({j \in KeyRows(q.rows, x, log[i].attr) :
                log[j].v # Unresolved /\ ~IsHard(j) /\ CausedBy(j, q.h) = {}})
Established(roots, q) ==
  UNION {UNION {Establishing(i, x, q) : i \in Shown(Winners(x, q))} :
           x \in RestingUnder(roots, RestingIn(q))}

-----------------------------------------------------------------------------
(* What happened.                                                          *)

Events(q) == {Now(log[i].e) : i \in EventRows(q.frame, q.h, q.t)}
Records(events, q) == UNION {Record(e, q) : e \in events}

\* A wrong form: an event is looked for by the id its row names.
HappenedToOneId(roots, q) ==
  Records({e \in Events(q) :
             roots = {} \/ \E i \in Record(e, q) : log[i].v \in Scope(roots, q)}, q)

\* _lens_events(): the events of the scope, and those whose record names a thing in it.
Concerns(e, scope, q) ==
  e \in scope \/ \E i \in Record(e, q) : log[i].v \in Ids /\ Now(log[i].v) \in scope
Happened(roots, q) ==
  Records({e \in Events(q) : roots = {} \/ Concerns(e, Scope(roots, q), q)}, q)

\* _lens_situation(): what stands, and the events that still have something standing.
Live(roots, q) ==
  {Now(log[j].v) : j \in {k \in UNION {CausedBy(i, q.h) : i \in Served(roots, q)} :
                            log[k].frame = q.frame /\ log[k].v \in Ids}}
LastOf(rows, n) == {i \in rows : Cardinality({j \in rows : i # j /\ Sooner(i, j)}) < n}
Situation(roots, q) ==
  LET floor == Standing(roots, q)
      events == Records(Live(roots, q), q)
      kept == LastOf(events, Max({0, Room - Cardinality(floor)}))
  IN [rows |-> floor \union kept, cut |-> Cardinality(events) - Cardinality(kept)]

-----------------------------------------------------------------------------
(* The budget, and the difference of frames.                               *)

\* _shape_to_budget(): the spine, then the most salient rows, later ones first.
Salience(x) == CHOOSE k \in DOMAIN Ranking : Ranking[k] = x
Ahead(i, j) ==
  \/ Salience(Now(log[i].e)) < Salience(Now(log[j].e))
  \/ Now(log[i].e) = Now(log[j].e) /\ i > j
ToBudget(rows) ==
  LET spine == {i \in rows : IsHard(i)}
      keep == Max({0, Room - Cardinality(spine)})
      rest == {i \in rows \ spine : Cardinality({j \in rows \ spine : Ahead(j, i)}) < keep}
  IN IF Cardinality(rows) <= Room THEN [rows |-> rows, cut |-> 0]
     ELSE [rows |-> spine \union rest, cut |-> Cardinality(rows) - Cardinality(spine \union rest)]

\* materialize(): a situation budgets itself.
Materialize(lens, roots, q) ==
  CASE lens = "situation" -> Situation(roots, q)
    [] lens = "what_happened" -> ToBudget(Happened(roots, q))
    [] lens = "establishing_set" -> ToBudget(Established(roots, q))
    [] lens = "current_state" -> ToBudget(Standing(roots, q))

\* frame_diff(): what stands in one frame and in none of the others, with the latest
\* of what they hold instead.
Elsewhere(i, others, q) ==
  {F(Now(log[i].e), log[i].attr, Query(b, q.h, q.t)).winner : b \in others} \ {0}
Differs(i, others, q) == \A j \in Elsewhere(i, others, q) : Value(j) # Value(i)
Instead(rows) == {i \in rows : \A j \in rows : Sooner(j, i)}
FrameDiff(roots, others, q) ==
  {<<i, Instead(Elsewhere(i, others, q))>> : i \in {j \in Standing(roots, q) : Differs(j, others, q)}}

-----------------------------------------------------------------------------
(* What a projection promises.                                             *)

\* What a frame knows is what is not told it as a difference: frame_diff is the
\* inverse of who_knows, for one frame, and for several it is what none of them knows.
DiffIsWhatNobodyKnows ==
  \A q \in Queries : \A x \in Things : \A i \in Shown(Winners(x, q)) :
    \A others \in SUBSET Knowers :
      (\E d \in FrameDiff({x}, others, q) : d[1] = i)
        <=> others \intersect WhoKnows(x, log[i].attr, {log[i].v}, q.h, q.t) = {}

\* What a thing took part in is told of it: the lens finds an event through the rows
\* of its record, participation through the rows that name the thing.
EventsAreTold ==
  \A q \in Queries : \A x \in Things :
    /\ Records(Participation(x, q), q) \subseteq Happened({x}, q)
    /\ Happened({x}, q) \subseteq Happened({}, q)

\* What stands is never cut: a situation keeps its floor and tells the latest of the
\* live events beside it, all of which have occurred; a budget keeps the spine; what
\* was cut is counted.
NothingStandingIsCut ==
  \A q \in {r \in Queries : r.h = LogHead} : \A x \in Things : \A floor \in {Standing({x}, q)} :
    /\ \A told \in {Materialize("situation", {x}, q)} :
         /\ floor \subseteq told.rows /\ told.rows \ floor \subseteq Happened({}, q)
         /\ Cardinality(told.rows) <= Max({Room, Cardinality(floor)})
    /\ \A shaped \in {Materialize("current_state", {x}, q)} :
         /\ {i \in floor : IsHard(i)} \subseteq shaped.rows
         /\ Cardinality(shaped.rows) + shaped.cut = Cardinality(floor)

\* The world at rest is the one before the plot: rows that an event caused, and that
\* no verdict made structural, change nothing in it wherever a row of its own stands.
Unplotted(q) == [q EXCEPT !.rows = {i \in @ : IsHard(i) \/ CausedBy(i, q.h) = {}}]
RestIsBeforeThePlot ==
  \A q \in Queries : \A x \in Things :
    Established({x}, Unplotted(q)) = Established({x}, q)

\* What is recalled and what is projected of a thing are what the folds, and the rows
\* of its events, say of it: nothing is lost, made up or cut beyond what the lens says.
ProjectionsHold ==
  /\ RecallsHold
  /\ DiffIsWhatNobodyKnows /\ EventsAreTold /\ NothingStandingIsCut /\ RestIsBeforeThePlot
=============================================================================
