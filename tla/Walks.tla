--------------------------------- MODULE Walks ---------------------------------
(***************************************************************************)
(* The derived reads that walk: containment and composition (walks.py),    *)
(* paths and routes (routes.py), the neighborhood (neighborhood.py), who   *)
(* knows (knowledge.py) and the events of a thing (events.py).             *)
(*                                                                         *)
(* Each is computed anew from the rows visible at a position and a time,   *)
(* through lookups by value or by subject that no other read uses; what    *)
(* they answer must agree with the folds, and with each other, whatever    *)
(* was merged, retracted or judged in between.  The actions write the log. *)
(*                                                                         *)
(* A query is a frame, a log position and a time.  Reads without a bound   *)
(* on time, set-valued keys and the arithmetic of aggregate() are left     *)
(* out; salience is a constant ranking of the ids.                         *)
(***************************************************************************)
EXTENDS LogReads, SequencesExt

CONSTANTS
  Worlds,    \* rows a world opens with, rows that may be written, how many it may hold, and verdicts
  Alphabet,  \* the ids in the order sorted() puts them
  Ranking,   \* the ids, the most salient first
  Knowers,   \* frames of the knows: namespace
  Traversal, \* <<kind, id>>: the subject a kind's traversal policy is about
  Depth, Fanout, Budget, \* how a neighborhood is asked for
  MaxTime    \* a bound

ASSUME WalkConstants ==
  /\ Range(Alphabet) = Ids /\ Range(Ranking) = Ids
  /\ Depth \in 0..3 /\ Fanout \in Nat /\ Budget \in Nat
  /\ MaxTime \in Nat
  /\ \A w \in Worlds : w.max \in Nat /\ w.verdicts \in Nat

VARIABLE
  world      \* the world the log is of

vars == <<log, hard, world>>

Query(frame, h, t) == [frame |-> frame, h |-> h, t |-> t, rows |-> VisibleRows(frame, h, t)]
F(x, attr, q) == FoldKey(q.rows, x, attr)
RowsOf(x, q) == {i \in q.rows : log[i].e \in ClosureNow(x)}
RowsTo(x, q) == {i \in q.rows : log[i].v \in ClosureNow(x)}
Linked(x, edges) == {edge[2] : edge \in {d \in edges : d[1] = x}}

-----------------------------------------------------------------------------
(* Containment and composition.                                            *)

Inside(q) == UNION {{<<c, p>> : p \in Target(F(c, "in", q))} : c \in Things}
WholeOf(f) == IF f.conflicted THEN {} ELSE Target(f)
PartOf(q) == UNION {{<<c, p>> : p \in WholeOf(F(c, "part_of", q))} : c \in Things}

\* locate(), composition(): up from x, nearest first, until nothing is served or the
\* chain turns back.
Extend(chain, up) ==
  IF up \subseteq Range(chain) THEN chain ELSE Append(chain, CHOOSE p \in up : TRUE)
Above(chain, edges) == Extend(chain, Linked(Last(chain), edges))
Chain(x, edges) ==
  LET climb[n \in 0..Cardinality(Ids)] == IF n = 0 THEN <<x>> ELSE Above(climb[n - 1], edges)
  IN Tail(climb[Cardinality(Ids)])
Locate(x, q) == Chain(Now(x), Inside(q))
Composition(x, q) == Chain(Now(x), PartOf(q))

\* A wrong form: rows that name another id of the same thing are not looked up.
SaidInOneId(p, attr, q) ==
  {Now(log[i].e) : i \in {j \in q.rows : log[j].attr = attr /\ log[j].v = Now(p)}}

\* contents(), features(): the rows that name the container under any of its ids say
\* who to ask; the fold says who is in.
SaidIn(p, attr, q) == {Now(log[i].e) : i \in {j \in RowsTo(p, q) : log[j].attr = attr}}
Contents(p, q) == {c \in SaidIn(p, "in", q) : Target(F(c, "in", q)) = {Now(p)}}
Features(p, q) == {c \in SaidIn(p, "part_of", q) : WholeOf(F(c, "part_of", q)) = {Now(p)}}

\* aggregate(recursive=True): whose values are rolled up.
Deeper(S, q) == S \union UNION {Contents(m, q) : m \in S}
Members(p, q) ==
  LET gather[n \in 0..Cardinality(Ids)] == IF n = 0 THEN {p} ELSE Deeper(gather[n - 1], q)
  IN gather[Cardinality(Ids)] \ {p}

\* A scope: things, and what they contain at any depth.
Scope(roots, q) == UNION {{Now(r)} \union Members(Now(r), q) : r \in roots}

-----------------------------------------------------------------------------
(* The lateral graph.                                                      *)

LateralRows(rows) == {i \in rows : log[i].attr = "connects_to" /\ log[i].v \in Ids}
LateralEdges(q) ==
  UNION {{<<Now(log[i].e), Now(log[i].v)>>, <<Now(log[i].v), Now(log[i].e)>>} :
           i \in LateralRows(q.rows)}

\* lateral_neighbors(): one hop, by the thing's own rows and the rows that name it.
LateralNeighbors(x, q) ==
  ({Now(log[i].v) : i \in LateralRows(RowsOf(x, q))}
     \union {Now(log[i].e) : i \in LateralRows(RowsTo(x, q))}) \ {Now(x)}

\* The search path() and route() share: a queue of paths, each id visited once.
Sorted(S) == SelectSeq(Alphabet, LAMBDA x : x \in S)
Fresh(s, edges, ok) == (Linked(Last(Head(s.frontier)), edges) \intersect ok) \ s.seen
Visit(s, b, fresh) ==
  IF b \in fresh THEN [s EXCEPT !.found = Append(Head(s.frontier), b)]
  ELSE [s EXCEPT !.seen = @ \union fresh,
                 !.frontier = Tail(@) \o [k \in 1..Cardinality(fresh) |->
                                            Append(Head(@), Sorted(fresh)[k])]]
Pop(s, b, edges, ok) ==
  IF s.found # <<>> \/ s.frontier = <<>> THEN s ELSE Visit(s, b, Fresh(s, edges, ok))
Search(a, b, edges, ok) ==
  LET run[n \in 0..Cardinality(Ids)] ==
        IF n = 0 THEN [frontier |-> <<<<a>>>>, seen |-> {a}, found |-> <<>>]
        ELSE Pop(run[n - 1], b, edges, ok)
  IN run[Cardinality(Ids)].found

\* path(); <<>> is None.
PathIn(a, b, edges) == IF a = b THEN <<a>> ELSE Search(a, b, edges, Things)
Path(a, b, q) == PathIn(Now(a), Now(b), LateralEdges(q))

\* _traversal_policy(): what the host declared of a kind, whenever and in any frame.
Declared(kind, attr) ==
  {log[i].v : i \in {j \in 1..LogHead : /\ Visible(j, LogHead) /\ log[j].attr = attr
                                        /\ \E tk \in Traversal : tk = <<kind, log[j].e>>}}

\* _classify_portal(): a declared relation, as a row says it, blocks before the state
\* does; a gating portal whose state no one established is obscured.
Tied(n, relations, q) == \E i \in RowsOf(n, q) : log[i].attr \in relations /\ log[i].v \in Ids
UnderPolicy(n, states, relations, q) ==
  IF states = {} /\ relations = {} THEN "clear"
  ELSE IF Tied(n, relations, q) THEN "blocked"
  ELSE IF ~Concretely(F(n, "state", q)) THEN "obscured"
  ELSE IF log[F(n, "state", q).winner].v \in states THEN "blocked" ELSE "clear"
OfKind(n, kind, q) ==
  UnderPolicy(n, Declared(kind, "blocks_when_state"), Declared(kind, "blocks_when_relation"), q)
PortalByKind(n, kind, q) ==
  IF Concretely(kind) THEN OfKind(n, log[kind.winner].v, q) ELSE "clear"
Portal(n, q) == PortalByKind(n, F(n, "kind", q), q)

Answer(route, status) == [route |-> route, status |-> status]

\* A wrong form: what is not clear is taken out of the graph.
RouteDeleting(a, b, edges, portals) ==
  LET clear == {n \in Things : <<n, "clear">> \in portals}
      found == IF a \in clear THEN Search(a, b, edges, clear) ELSE <<>>
  IN Answer(found, IF found = <<>> THEN "no_path" ELSE "clear")

\* route(): a clear way if there is one, else the way there is, flagged.
RouteIn(a, b, edges, portals) ==
  LET clear == {n \in Things : <<n, "clear">> \in portals}
      open == IF a \in clear THEN Search(a, b, edges, clear) ELSE <<>>
      any == Search(a, b, edges, Things)
  IN IF open # <<>> THEN Answer(open, "clear")
     ELSE IF any = <<>> THEN Answer(any, "no_path")
     ELSE Answer(any, IF \E n \in Range(any) : <<n, "blocked">> \in portals THEN "blocked"
                      ELSE "obscured")
Portals(q) == {<<n, Portal(n, q)>> : n \in Things}
RouteOver(a, b, edges, portals) ==
  IF a # b THEN RouteIn(a, b, edges, portals)
  ELSE Answer(<<a>>, CHOOSE status \in {"clear", "blocked", "obscured"} : <<a, status>> \in portals)
Route(a, b, q) == RouteOver(Now(a), Now(b), LateralEdges(q), Portals(q))

-----------------------------------------------------------------------------
(* Who knows, and what happened.                                           *)

\* fold_matches(): no value asked for, or the served one by identity.
Matches(f, wanted) ==
  wanted = {} \/ (\E w \in wanted : Value(f.winner) = IF w \in Ids THEN Now(w) ELSE w)

\* who_knows(): the frames that touched the key, if their own fold serves it.
Touched(x, attr, h, t) ==
  {k \in Knowers : \E i \in RowsOf(x, Query(k, h, t)) : log[i].attr = attr}
WhoKnows(x, attr, wanted, h, t) ==
  {k \in Touched(x, attr, h, t) :
     Concretely(F(x, attr, Query(k, h, t))) /\ Matches(F(x, attr, Query(k, h, t)), wanted)}

\* An event's rows, open or closed: valid_to never hides one.
EventRows(frame, h, t) ==
  {i \in 1..h : Visible(i, h) /\ log[i].frame = frame /\ IsEventRow(i) /\ log[i].attr # "same_as"}

\* event_records(): the record of an event as of t, empty if it has not occurred.
Stamped(rows) == {i \in rows : log[i].at # Timeless}
RecordOf(rows, t) ==
  IF Stamped(rows) # {} /\ \A i \in Stamped(rows) : log[i].at > t THEN {}
  ELSE {i \in rows : log[i].at <= t}
Record(e, q) ==
  RecordOf({i \in EventRows(q.frame, q.h, q.t) : Now(log[i].e) = Now(e)}, q.t)

Takes(i, x) == log[i].attr \in {"agent", "patient"} /\ log[i].v \in ClosureNow(x)

\* event_participation(): the rows that name the thing say which events to ask.
Participation(x, q) ==
  {e \in {Now(log[i].e) : i \in {j \in EventRows(q.frame, q.h, q.t) : Takes(j, x)}} :
     \E i \in Record(e, q) : Takes(i, x)}

\* caused_by_of()
Causes(events, q) ==
  {Now(log[i].v) : i \in {j \in UNION {Record(e, q) : e \in events} :
                            log[j].attr = "caused_by" /\ log[j].v \in Ids}}

-----------------------------------------------------------------------------
(* The neighborhood.                                                       *)

\* _entity_relation_neighbors(): what the thing's other keys serve.
Relations(x, q) ==
  UNION {Target(F(x, log[i].attr, q)) :
           i \in {j \in RowsOf(x, q) : log[j].attr \notin {"in", "connects_to", "same_as", "retracts"}}}
    \ {Now(x)}

\* _containment_edge_protected()
Protected(c, p, f) == Target(f) = {p} /\ IsHard(f.winner)
ProtectedFrom(x, q) ==
  {p \in Things : Protected(x, p, F(x, "in", q))}
    \union {c \in Contents(x, q) : Protected(c, x, F(c, "in", q))}

\* _one_hop_neighbors(): the container, the contents, the lateral neighbors, what the
\* other keys serve, and the events with their causes.
Happening(x, events, q) == events \union Causes(events \union ({x} \intersect EventIds), q)
Around(x, q) ==
  Target(F(x, "in", q)) \union Contents(x, q) \union LateralNeighbors(x, q)
    \union Relations(x, q) \union Happening(x, Participation(x, q), q)

\* One turn of the loop: what is around the head of the queue, the most salient
\* first, up to the fanout.
Ranked(S) == SelectSeq(Ranking, LAMBDA y : y \in S)
Kept(ranked) == SubSeq(ranked, 1, Min({Len(ranked), Fanout}))
Near(id, hop, protected) == [id |-> id, hop |-> hop, protected |-> protected]
Met(near, kept, hop, protected) ==
  {Near(n.id, n.hop, n.protected \/ n.id \in Range(kept) \intersect protected) : n \in near}
    \union {Near(id, hop, id \in protected) :
              id \in Range(kept) \ {n.id : n \in near}}
Unseen(kept, near) == SelectSeq(kept, LAMBDA id : \A n \in near : n.id # id)
Expand(s, hop, ranked, protected) ==
  [near |-> Met(s.near, Kept(ranked), hop, protected),
   queue |-> Tail(s.queue) \o [k \in DOMAIN Unseen(Kept(ranked), s.near) |->
                                 <<Unseen(Kept(ranked), s.near)[k], hop>>],
   cut |-> s.cut + Len(ranked) - Len(Kept(ranked))]

Turn(s, subject, q) ==
  IF s.queue = <<>> THEN s
  ELSE IF Head(s.queue)[2] >= Depth THEN [s EXCEPT !.queue = Tail(@)]
  ELSE Expand(s, Head(s.queue)[2] + 1,
              Ranked(Around(Head(s.queue)[1], q) \ {subject}),
              ProtectedFrom(Head(s.queue)[1], q))
Gathered(x, q) ==
  LET loop[n \in 0..Cardinality(Ids)] ==
        IF n = 0 THEN [near |-> {}, queue |-> <<<<x, 0>>>>, cut |-> 0]
        ELSE Turn(loop[n - 1], x, q)
  IN loop[Cardinality(Ids)]

\* The budget: the protected ones, and the most salient of the rest.
Shaped(near) ==
  LET safe == {n \in near : n.protected}
      rest == Ranked({n.id : n \in near \ safe})
      room == Max({0, Budget - Cardinality(safe)})
  IN IF Cardinality(near) <= Budget THEN near
     ELSE safe \union {n \in near : \E k \in 1..Min({room, Len(rest)}) : rest[k] = n.id}
Told(gathered, near) ==
  [near |-> near, cut |-> gathered.cut + Cardinality(gathered.near) - Cardinality(near)]
Neighborhood(x, q) ==
  LET gathered == Gathered(Now(x), q) IN Told(gathered, Shaped(gathered.near))

-----------------------------------------------------------------------------
(* The log grows.                                                          *)

Appended(row) == {Append(log, WithRep(row, rep)) : rep \in Elections(row)}

Write(row) ==
  /\ LogHead < world.max
  /\ row.about <= LogHead
  /\ \A i \in 1..LogHead : WithRep(row, log[i].rep) # log[i]
  /\ log' \in Appended(row)
  /\ UNCHANGED <<hard, world>>

Judge(i) ==
  /\ Cardinality(hard) < world.verdicts
  /\ i \notin hard /\ ~Ruled(i)
  /\ hard' = hard \union {i}
  /\ UNCHANGED <<log, world>>

Init == world \in Worlds /\ log = world.old /\ hard = {}
Next == (\E row \in world.offers : Write(row)) \/ (\E i \in 1..LogHead : Judge(i))
Spec == Init /\ [][Next]_vars

-----------------------------------------------------------------------------
(* What the walks promise.                                                 *)

\* Reads of now, and of one row ago: the identities and verdicts are now's in both.
Heads == Max({Len(world.old), LogHead - 1})..LogHead
Queries == {Query("canon", h, t) : h \in Heads, t \in 0..MaxTime}

FirstIs(walk, p) == walk # <<>> /\ walk[1] = p
Simple(seq) == \A j, k \in DOMAIN seq : seq[j] = seq[k] => j = k
\* What lies in a thing is what is located in it first, its features are what it is
\* the nearest whole of, a rollup counts what is located in it at any depth, and no
\* walk goes twice through one thing (walks.py), whatever ids the rows used.
ContainmentAgrees ==
  \A q \in Queries :
    /\ \A held \in {UNION {{<<c, p>> : c \in Contents(p, q)} : p \in Things}} :
       \A rolled \in {UNION {{<<c, p>> : c \in Members(p, q)} : p \in Things}} :
       \A walk \in {<<x, Locate(x, q)>> : x \in Things} :
         /\ Simple(<<walk[1]>> \o walk[2])
         /\ \A p \in Things \ {walk[1]} :
              /\ <<walk[1], p>> \in held <=> FirstIs(walk[2], p)
              /\ <<walk[1], p>> \in rolled <=> p \in Range(walk[2])
    /\ \A featured \in {UNION {{<<c, p>> : c \in Features(p, q)} : p \in Things}} :
       \A walk \in {<<x, Composition(x, q)>> : x \in Things} :
         /\ Simple(<<walk[1]>> \o walk[2])
         /\ \A p \in Things \ {walk[1]} : <<walk[1], p>> \in featured <=> FirstIs(walk[2], p)

\* All that can be reached in n steps.
Spread(S, edges, ok) == S \union (UNION {Linked(x, edges) : x \in S} \intersect ok)
Ball(a, edges, ok) ==
  LET ball[n \in 0..Cardinality(Ids)] == IF n = 0 THEN {a} ELSE Spread(ball[n - 1], edges, ok)
  IN ball
Reaches(a, b, edges, ok) == b \in Ball(a, edges, ok)[Cardinality(Ids)]

RouteIsRight(a, b, r, edges, portals, clear) ==
  LET ok == IF r.status = "clear" THEN clear ELSE Things
  IN /\ r.status = "no_path" <=> ~Reaches(a, b, edges, Things)
     /\ r.status = "clear" <=> a \in clear /\ Reaches(a, b, edges, clear)
     /\ r.status = "blocked" <=> r.status # "clear" /\ \E n \in Range(r.route) : <<n, "blocked">> \in portals
     /\ r.route # <<>> =>
          /\ r.route[1] = a /\ Last(r.route) = b /\ Range(r.route) \subseteq ok
          /\ \A k \in 1..(Len(r.route) - 1) : <<r.route[k], r.route[k + 1]>> \in edges
          /\ a # b => b \notin Ball(a, edges, ok)[Len(r.route) - 2]
\* A route is clear exactly if a way through nothing closed or obscured exists, and
\* there is no path exactly if there is no way at all; what is answered is a walk of
\* the graph, as short as any of its kind, and path()'s hops are those of the
\* neighborhood (route, path, lateral_neighbors).
RoutesAreRight ==
  \A q \in Queries : \A edges \in {LateralEdges(q)} : \A portals \in {Portals(q)} :
    \A clear \in {{n \in Things : <<n, "clear">> \in portals}} : \A a, b \in Things :
      /\ a # b => RouteIsRight(a, b, RouteOver(a, b, edges, portals), edges, portals, clear)
      /\ b \in LateralNeighbors(a, q) <=> PathIn(a, b, edges) = <<a, b>>

\* A frame knows a fact exactly if its own reading of the key serves it: under
\* whatever id of the thing it was told (who_knows against state).
KnowersKnow ==
  \A h \in Heads, t \in 0..MaxTime, x \in Things :
    \A attr \in {row.attr : row \in {r \in world.offers : r.frame \in Knowers}} :
      \A wanted \in {{}} \union {{row.v} : row \in {r \in world.offers : r.frame \in Knowers}} :
        \A k \in Knowers :
          k \in WhoKnows(x, attr, wanted, h, t)
            <=> \E f \in {F(x, attr, Query(k, h, t))} : Concretely(f) /\ Matches(f, wanted)

\* What a thing took part in by t, it took part in by any later time: an event that
\* ended stays in its record, and a record only grows (event_records,
\* event_participation).
OccurredStays ==
  \A q \in Queries : \A later \in {r \in Queries : r.h = q.h /\ r.t >= q.t} :
    \A x \in Things :
      /\ Record(x, q) \subseteq Record(x, later)
      /\ Participation(x, q) \subseteq Participation(x, later)

\* What is recalled is neither lost nor made up: what a frame knows, and what a thing
\* took part in.
RecallsHold == KnowersKnow /\ OccurredStays

NearGraph(q) == UNION {{<<x, y>> : y \in Around(x, q)} : x \in Things}
HopByHop(x, near, graph) ==
  \A n \in near :
    /\ n.id # x /\ n.hop \in 1..Depth
    /\ \E from \in {x} \union {m.id : m \in near} :
         /\ <<from, n.id>> \in graph
         /\ n.hop = 1 + (IF from = x THEN 0 ELSE (CHOOSE m \in near : m.id = from).hop)
Distances(x, graph) ==
  UNION {{<<y, n>> : y \in Ball(x, graph, Things)[n] \ Ball(x, graph, Things)[n - 1]} : n \in 1..Depth}

\* The neighborhood is what lies within the depth asked for, each at its distance,
\* unless the fanout cut some; what it then lists is still reached hop by hop; the
\* budget drops no fixture's edge, and what was dropped is counted (neighborhood).
NeighborsAreNear ==
  \A q \in Queries : \A graph \in {NearGraph(q)} : \A x \in Things :
    \A whole \in {Gathered(x, q)} : \A told \in {Told(whole, Shaped(whole.near))} :
      /\ HopByHop(x, whole.near, graph)
      /\ whole.cut = 0 => {<<n.id, n.hop>> : n \in whole.near} = Distances(x, graph)
      /\ {n \in whole.near : n.protected} \subseteq told.near
      /\ Cardinality(told.near) <= Max({Budget, Cardinality({n \in whole.near : n.protected})})
      /\ told.cut = whole.cut + Cardinality(whole.near \ told.near)

\* The walks of containment and of the neighborhood agree with the folds they go by.
WalksAgree == ContainmentAgrees /\ NeighborsAreNear
=============================================================================
