------------------------------- MODULE LogReads -------------------------------
(***************************************************************************)
(* The log as the derived reads see it: which rows are visible at a log    *)
(* position and a time, which ids are one, and what a key folds to.        *)
(*                                                                         *)
(* Rows are all stated by one voice, so that evidence ranks and source     *)
(* classes (module Fold) play no part; every attribute folds by class.     *)
(* Each row carries the registry's election after it (`rep`).              *)
(***************************************************************************)
EXTENDS Integers, Sequences, FiniteSets, FiniteSetsExt

CONSTANTS
  Ids,       \* ids of things
  PersonIds, \* those in the person: namespace
  PlaceIds,  \* those in the place: namespace
  EventIds   \* those in the event: namespace

ASSUME Namespaces == PersonIds \subseteq Ids /\ PlaceIds \subseteq Ids /\ EventIds \subseteq Ids

VARIABLES
  log,       \* rows, each with the registry's election after it
  hard       \* the rows a verdict made CONSTITUTIVE

Unresolved == "unresolved"
Timeless == 0
Forever == 1000

Row(e, attr, v, at, frame) ==
  [e |-> e, attr |-> attr, v |-> v, at |-> at, until |-> Forever, frame |-> frame, about |-> 0]

Idempotent(f) == f \in [Ids -> Ids] /\ \A x \in Ids : f[f[x]] = f[x]

-----------------------------------------------------------------------------
(* Identity.                                                               *)

LogHead == Len(log)
Rep(h) == IF h = 0 THEN [x \in Ids |-> x] ELSE log[h].rep
Closure(x, h) == {y \in Ids : Rep(h)[y] = Rep(h)[x]}

\* The fold's closure is the head's, whatever position is read.
Now(x) == Rep(LogHead)[x]
SameNow(x, y) == Now(x) = Now(y)
ClosureNow(x) == Closure(x, LogHead)
Things == {Now(x) : x \in Ids}

\* The registry elects one of the two; a row of any other kind changes no identity.
Elections(row) ==
  IF row.attr # "same_as" THEN {Rep(LogHead)}
  ELSE {[x \in Ids |-> IF Rep(LogHead)[x] \in {Rep(LogHead)[row.e], Rep(LogHead)[row.v]} THEN elected
                       ELSE Rep(LogHead)[x]] : elected \in {Rep(LogHead)[row.e], Rep(LogHead)[row.v]}}
WithRep(row, rep) ==
  [e |-> row.e, attr |-> row.attr, v |-> row.v, at |-> row.at, until |-> row.until,
   frame |-> row.frame, about |-> row.about, rep |-> rep]

-----------------------------------------------------------------------------
(* Visibility.                                                             *)

Visible(i, h) ==
  /\ i <= h
  /\ \A m \in 1..h : log[m].attr # "retracts" \/ log[m].about # i
Valid(i, t) == log[i].at <= t /\ t < log[i].until
VisibleRows(frame, h, t) == {i \in 1..h : Visible(i, h) /\ log[i].frame = frame /\ Valid(i, t)}

IsEventRow(i) == log[i].e \in EventIds

-----------------------------------------------------------------------------
(* The fold of one key.                                                    *)

\* What the classifier's rules decide before any verdict is asked for: structure
\* is CONSTITUTIVE, a person moves, a place does not.
Structural == {"kind", "part_of", "connects_to", "fixture"}
RuledHard(i) ==
  /\ log[i].v # Unresolved
  /\ log[i].attr \in Structural \/ (log[i].attr = "in" /\ log[i].e \in PlaceIds)
Ruled(i) ==
  \/ RuledHard(i) \/ log[i].v = Unresolved \/ IsEventRow(i)
  \/ log[i].attr \in {"same_as", "retracts", "resolvable_for", "caused_by", "source", "learned_alias"}
  \/ log[i].attr = "in" /\ log[i].e \in PersonIds
IsHard(i) == RuledHard(i) \/ i \in hard

KeyRows(rows, x, attr) ==
  {i \in rows : log[i].attr = attr /\ log[i].e \in Ids /\ SameNow(log[i].e, x) /\ ~IsEventRow(i)}

Value(i) == IF log[i].v \in Ids THEN Now(log[i].v) ELSE log[i].v
Contradict(S) == \E i, j \in S : Value(i) # Value(j)

\* fold_key(): a placeholder gives way to a concrete row; what is structural is
\* served as first said, else the latest is.  0: nothing is.
Concrete(rows) ==
  IF \E i \in rows : log[i].v # Unresolved THEN {i \in rows : log[i].v # Unresolved} ELSE rows
Latest(rows) == {i \in rows : \A j \in rows : log[j].at <= log[i].at}
Serve(top, fixed) ==
  [winner |-> IF top = {} THEN 0 ELSE IF fixed \/ Contradict(top) THEN Min(top) ELSE Max(top),
   conflicted |-> Contradict(top)]
ServeHard(fixed, live) == IF fixed # {} THEN Serve(fixed, TRUE) ELSE Serve(Latest(live), FALSE)
FoldRows(live) == ServeHard({i \in live : IsHard(i)}, live)
FoldKey(rows, x, attr) == FoldRows(Concrete(KeyRows(rows, x, attr)))
Fold(x, attr, frame, h, t) == FoldKey(VisibleRows(frame, h, t), x, attr)

Concretely(f) == f.winner # 0 /\ log[f.winner].v # Unresolved
KnownValue(f) == Concretely(f) /\ ~f.conflicted

\* The fold serves an entity: the thing it lands on, an option.
Target(f) == IF f.winner # 0 /\ log[f.winner].v \in Ids THEN {Now(log[f.winner].v)} ELSE {}
=============================================================================
