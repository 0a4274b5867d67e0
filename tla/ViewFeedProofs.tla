---------------------------- MODULE ViewFeedProofs ----------------------------
(***************************************************************************)
(* For any world, any number of pages and any bounds: an answer of the     *)
(* feed makes the device's document the service's export (AnswersApply),   *)
(* it is a reset only for a reason (ResetsAreEarned), no page puts back an *)
(* older document where the browser has locks (NoStaleOverwrite), and what *)
(* the player has not perceived is not named (UnperceivedStaysOpaque).     *)
(***************************************************************************)
EXTENDS ViewFeed, Numbers

-----------------------------------------------------------------------------
(* The difference of two layers, applied.                                  *)

\* One value per key.
OneValue(layer) == \A e, f \in layer : e[1] = f[1] => e = f

\* Deleting what left, and putting what came or changed, makes a layer the new one;
\* what else was dropped must not be in it (mirror._diff, apply).
LEMMA LayerMoves ==
  ASSUME NEW old, NEW new, NEW drop,
         OneValue(old), OneValue(new),
         Keys(old) \ Keys(new) \subseteq drop, drop \cap Keys(new) = {}
  PROVE  AfterOps(old, drop, new \ old) = new
<1>1. ASSUME NEW e \in old, e[1] \notin drop, e[1] \notin Keys(new \ old)
      PROVE  e \in new
  <2>1. e[1] \in Keys(old)
    BY DEF Keys
  <2>2. e[1] \in Keys(new)
    BY <1>1, <2>1
  <2>3. PICK f \in new : f[1] = e[1]
    BY <2>2 DEF Keys
  <2>4. f \in old
    BY <1>1, <2>3 DEF Keys
  <2> QED
    BY <2>3, <2>4 DEF OneValue
<1>2. ASSUME NEW e \in new, e \in old
      PROVE  e[1] \notin drop /\ e[1] \notin Keys(new \ old)
  <2>1. e[1] \in Keys(new)
    BY <1>2 DEF Keys
  <2>2. ASSUME e[1] \in Keys(new \ old) PROVE FALSE
    <3>1. PICK f \in new \ old : f[1] = e[1]
      BY <2>2 DEF Keys
    <3> QED
      BY <1>2, <3>1 DEF OneValue
  <2> QED
    BY <2>1, <2>2
<1> QED
  BY <1>1, <1>2 DEF AfterOps

\* A reset puts every entry of an empty layer.
LEMMA LayerFills == \A new, drop : AfterOps({}, drop, new) = new
  BY DEF AfterOps

-----------------------------------------------------------------------------
(* A side of the world.                                                    *)

\* The log's elections name a representative each, and the service is one of those
\* the host runs.
ElectedOK == \E S : log \in Seq(S) /\ \A row \in S : Idempotent(row.rep)
ServiceOK == service \in Services

\* A person, a handle, a subject: each has one record.
LEMMA SideIsSingle ==
  ASSUME ServiceOK, NEW h, NEW t
  PROVE  /\ OneValue(Side(h, t, service).of.known)
         /\ OneValue(Side(h, t, service).of.present)
         /\ OneValue(Side(h, t, service).of.people)
<1>1. OneValue(Known(h, t))
  <2> DEFINE Subjects == {Rep(h)[log[i].e] : i \in ViewRows(h, t)}
             Record(x) == KnownRecord({<<log[i].attr, Fold(x, log[i].attr, "view", h, t)>> :
                                         i \in {j \in ViewRows(h, t) : Rep(h)[log[j].e] = x}})
  <2>1. Known(h, t) = {<<x, Record(x)>> : x \in Subjects}
    BY DEF Known, KnownOf
  <2> HIDE DEF Subjects, Record
  <2> QED
    BY <2>1 DEF OneValue
<1>2. ASSUME NEW k \in service.key PROVE OneValue(Present(k, Keys(Known(h, t)), h, t))
  <2>1. ASSUME NEW found, NEW roots, NEW into
        PROVE  OneValue(PresentIn(found, roots, into, Keys(Known(h, t)), k, h, t))
    <3> DEFINE Record(c) == PresentRecord(c, CHOOSE p \in roots \union found : <<p, c>> \in into,
                                          Keys(Known(h, t)), k, h, t)
    <3>1. PresentIn(found, roots, into, Keys(Known(h, t)), k, h, t)
            = {<<<<k, c>>, Record(c)>> : c \in found}
      BY DEF PresentIn, Handle
    <3> HIDE DEF Record
    <3> QED
      BY <3>1 DEF OneValue
  <2> QED
    BY <2>1 DEF Present, PresentFrom
<1>3. OneValue(UNION {Present(k, Keys(Known(h, t)), h, t) : k \in service.key})
  BY <1>2, ViewConstants DEF OneValue, ServiceOK
<1>4. ASSUME NEW attrs \in service.people
      PROVE  OneValue(People(Keys(Known(h, t)), service.key, attrs, h, t))
  <2> DEFINE Subjects == {y \in CanonSubjects(h, t) : IsPerson(y, h, t)}
             Record(x) == PersonRecord(x, Keys(Known(h, t)), service.key, attrs, h, t)
  <2>1. People(Keys(Known(h, t)), service.key, attrs, h, t)
          = {r \in {<<x, Record(x)>> : x \in Subjects} : r[2] # Blank}
    BY DEF People
  <2> HIDE DEF Subjects, Record
  <2> QED
    BY <2>1 DEF OneValue
<1>5. OneValue(UNION {People(Keys(Known(h, t)), service.key, attrs, h, t) : attrs \in service.people})
  BY <1>4, ViewConstants DEF OneValue, ServiceOK
<1> QED
  BY <1>1, <1>3, <1>5 DEF Side, SideFrom, LayersFrom

\* What is present is canonical and not known (present()).
LEMMA PresentIsUnknown ==
  ASSUME NEW k, NEW h, NEW t, NEW seen,
         NEW g \in Keys(Present(k, seen, h, t))
  PROVE  g[2] \in {Rep(h)[x] : x \in Ids} \ seen
<1> DEFINE Found == Reached(NotPersons({Rep(h)[x] : x \in Ids} \ seen, h, t),
                            NotPersons(seen, h, t), {})
<1>1. ASSUME NEW found, NEW roots, NEW into,
             g \in Keys(PresentIn(found, roots, into, seen, k, h, t))
      PROVE  g[2] \in found
  <2> DEFINE Record(c) == PresentRecord(c, CHOOSE p \in roots \union found : <<p, c>> \in into,
                                        seen, k, h, t)
  <2>1. PresentIn(found, roots, into, seen, k, h, t) = {<<<<k, c>>, Record(c)>> : c \in found}
    BY DEF PresentIn, Handle
  <2> HIDE DEF Record
  <2> QED
    BY <1>1, <2>1 DEF Keys
<1>2. \A unseen, roots, into : Reached(unseen, roots, into) \subseteq unseen
  BY DEF Reached
<1>3. \A S : NotPersons(S, h, t) \subseteq S
  BY DEF NotPersons
<1> QED
  BY <1>1, <1>2, <1>3 DEF Present, PresentFrom

\* So a handle whose thing the player knows now is not in the present layer.
LEMMA RevealedIsGone ==
  ASSUME ServiceOK, ElectedOK, NEW t,
         NEW g \in Keys(Side(LogHead, t, service).of.present)
  PROVE  Rep(LogHead)[g[2]] \notin Keys(Side(LogHead, t, service).of.known)
<1>1. PICK k \in service.key : g \in Keys(Present(k, Keys(Known(LogHead, t)), LogHead, t))
  <2>1. Side(LogHead, t, service).of.present
          = UNION {Present(k, Keys(Known(LogHead, t)), LogHead, t) : k \in service.key}
    BY DEF Side, SideFrom, LayersFrom
  <2>2. PICK e \in Side(LogHead, t, service).of.present : g = e[1]
    BY DEF Keys
  <2>3. PICK k \in service.key : e \in Present(k, Keys(Known(LogHead, t)), LogHead, t)
    BY <2>1, <2>2
  <2>4. g \in Keys(Present(k, Keys(Known(LogHead, t)), LogHead, t))
    BY <2>2, <2>3 DEF Keys
  <2> QED
    BY <2>4
<1>2. g[2] \in {Rep(LogHead)[x] : x \in Ids} \ Keys(Known(LogHead, t))
  BY <1>1, PresentIsUnknown
<1>3. Idempotent(Rep(LogHead))
  BY DEF Rep, LogHead, ElectedOK, Idempotent
<1>4. Rep(LogHead)[g[2]] = g[2]
  BY <1>2, <1>3 DEF Idempotent
<1>5. Side(LogHead, t, service).of.known = Known(LogHead, t)
  BY DEF Side, SideFrom, LayersFrom
<1> QED
  BY <1>2, <1>4, <1>5

-----------------------------------------------------------------------------
(* One answer.                                                             *)

\* What a document is that the service, or the static site, gave.
Honest(doc) ==
  /\ doc = Doc(doc.side, doc.cursor, doc.born)
  /\ \A c, d \in doc.cursor : c = d
  /\ \A c \in doc.cursor : doc.side = c.d

Fits(base, a) == Applies(base, a) /\ Apply(base, a).side = a.cursor.d

\* A reset, applied to any document, gives the service's own view.
LEMMA ResetFits ==
  ASSUME ServiceOK, NEW base
  PROVE  Fits(base, Respond(Side(LogHead, now, service), {}))
<1> DEFINE new == Side(LogHead, now, service)
           a == Respond(new, {})
<1>1. /\ a.ops = Reset(new) /\ a.on = new.on /\ a.cursor.d = new
  BY DEF Respond, Cursor
<1>3. /\ new = [on |-> new.on, of |-> new.of]
      /\ new.of = [known |-> new.of.known, present |-> new.of.present, people |-> new.of.people]
  BY DEF Side, SideFrom, LayersFrom
<1>4. \A l \in Layers \ new.on : new.of[l] = {}
  BY DEF Side, SideFrom, LayersFrom, Layers
<1> HIDE DEF a, new
<1>2. /\ a.ops.clear /\ a.ops.reveal = {}
      /\ a.ops.put = new.of
      /\ a.ops.del = [known |-> {}, present |-> {}, people |-> {}]
  BY <1>1 DEF Reset, Each, Layers
<1>5. Applies(base, a)
  BY <1>1, <1>2, <1>4 DEF Applies, Layers
<1>6. Apply(base, a).side = new
  BY <1>1, <1>2, <1>3, LayerFills DEF Apply, Doc, Each, Layers
<1> QED
  BY <1>1, <1>5, <1>6 DEF Fits, a, new

\* A diff, applied to a document that holds the cursor's view, gives the
\* service's own.
LEMMA DiffFits ==
  ASSUME ServiceOK, ElectedOK, NEW base, Honest(base),
         NEW c \in base.cursor, Trusted(c)
  PROVE  Fits(base, Respond(Side(LogHead, now, service), {Side(c.h, c.t, service)}))
<1> DEFINE old == Side(c.h, c.t, service)
           new == Side(LogHead, now, service)
           a == Respond(new, {old})
           revealed == {g \in Keys(old.of.present) : Rep(LogHead)[g[2]] \in Keys(new.of.known)}
<1>1. base.side = old
  BY DEF Honest, Trusted
<1>2. old.on = new.on
  BY DEF Side, SideFrom
<1>3. /\ new = [on |-> new.on, of |-> new.of]
      /\ new.of = [known |-> new.of.known, present |-> new.of.present, people |-> new.of.people]
  BY DEF Side, SideFrom, LayersFrom
<1>4. \A l \in Layers \ new.on : new.of[l] = {} /\ old.of[l] = {}
  BY DEF Side, SideFrom, LayersFrom, Layers
<1>5. /\ OneValue(old.of.known) /\ OneValue(old.of.present) /\ OneValue(old.of.people)
      /\ OneValue(new.of.known) /\ OneValue(new.of.present) /\ OneValue(new.of.people)
  BY SideIsSingle
<1>6. revealed \cap Keys(new.of.present) = {}
  BY RevealedIsGone
<1>7. /\ a.ops = Diff(old, new) /\ a.on = new.on /\ a.cursor.d = new
  BY DEF Respond, Cursor
<1>8. "present" \notin new.on => revealed = {}
  BY <1>4 DEF Layers, Keys
<1> HIDE DEF a, new, old
<1>9. /\ ~a.ops.clear
      /\ a.ops.reveal = {<<g, Rep(LogHead)[g[2]]>> : g \in revealed}
      /\ a.ops.del = [known |-> Keys(old.of.known) \ Keys(new.of.known),
                      present |-> (Keys(old.of.present) \ Keys(new.of.present)) \ revealed,
                      people |-> Keys(old.of.people) \ Keys(new.of.people)]
      /\ a.ops.put = [known |-> new.of.known \ old.of.known,
                      present |-> new.of.present \ old.of.present,
                      people |-> new.of.people \ old.of.people]
  BY <1>7 DEF Diff, Each, Layers
<1>10. {r[1] : r \in a.ops.reveal} = revealed
  <2> DEFINE Thing(g) == Rep(LogHead)[g[2]]
  <2>1. a.ops.reveal = {<<g, Thing(g)>> : g \in revealed}
    BY <1>9
  <2> HIDE DEF revealed, Thing
  <2>2. ASSUME NEW g \in revealed PROVE g \in {r[1] : r \in a.ops.reveal}
    <3>1. <<g, Thing(g)>> \in a.ops.reveal /\ <<g, Thing(g)>>[1] = g
      BY <2>1
    <3> QED
      BY <3>1
  <2>3. ASSUME NEW r \in a.ops.reveal PROVE r[1] \in revealed
    BY <2>1
  <2> QED
    BY <2>2, <2>3
<1> HIDE DEF revealed
<1>11. Applies(base, a)
  <2>1. a.ops.reveal = {} \/ "present" \in a.on
    BY <1>7, <1>8, <1>9
  <2>2. ASSUME NEW l \in Layers \ a.on PROVE a.ops.del[l] = {} /\ a.ops.put[l] = {}
    <3>1. new.of[l] = {} /\ old.of[l] = {}
      BY <1>4, <1>7
    <3>2. Keys({}) = {}
      BY DEF Keys
    <3>3. CASE l = "known"
      <4>1. new.of.known = {} /\ old.of.known = {}
        BY <3>1, <3>3
      <4>2. a.ops.del.known = {} /\ a.ops.put.known = {}
        BY <1>9, <3>2, <4>1
      <4> QED
        BY <3>3, <4>2
    <3>4. CASE l = "present"
      <4>1. new.of.present = {} /\ old.of.present = {}
        BY <3>1, <3>4
      <4>2. a.ops.del.present = {} /\ a.ops.put.present = {}
        BY <1>7, <1>8, <1>9, <3>2, <4>1
      <4> QED
        BY <3>4, <4>2
    <3>5. CASE l = "people"
      <4>1. new.of.people = {} /\ old.of.people = {}
        BY <3>1, <3>5
      <4>2. a.ops.del.people = {} /\ a.ops.put.people = {}
        BY <1>9, <3>2, <4>1
      <4> QED
        BY <3>5, <4>2
    <3> QED
      BY <3>3, <3>4, <3>5 DEF Layers
  <2> QED
    BY <1>1, <1>2, <1>7, <2>1, <2>2 DEF Applies
<1>12. /\ AfterOps(old.of.known, (Keys(old.of.known) \ Keys(new.of.known)) \union {},
                   new.of.known \ old.of.known) = new.of.known
       /\ AfterOps(old.of.people, (Keys(old.of.people) \ Keys(new.of.people)) \union {},
                   new.of.people \ old.of.people) = new.of.people
  BY <1>5, LayerMoves
<1>13. AfterOps(old.of.present,
                ((Keys(old.of.present) \ Keys(new.of.present)) \ revealed) \union revealed,
                new.of.present \ old.of.present) = new.of.present
  BY <1>5, <1>6, LayerMoves
<1>14. Apply(base, a).side
         = [on |-> a.on,
            of |-> [known |-> AfterOps(old.of.known, a.ops.del.known \union {}, a.ops.put.known),
                    present |-> AfterOps(old.of.present, a.ops.del.present \union revealed,
                                         a.ops.put.present),
                    people |-> AfterOps(old.of.people, a.ops.del.people \union {},
                                        a.ops.put.people)]]
  BY <1>1, <1>9, <1>10 DEF Apply, Doc, Each, Layers
<1>15. Apply(base, a).side = new
  BY <1>3, <1>7, <1>9, <1>12, <1>13, <1>14
<1> QED
  BY <1>7, <1>11, <1>15 DEF Fits, a, new, old

\* feed(since), asked with the cursor of an honest document.
LEMMA FeedFits ==
  ASSUME ServiceOK, ElectedOK, NEW base, Honest(base)
  PROVE  Fits(base, Feed(base.cursor)) /\ Feed(base.cursor).born = events
<1> DEFINE olds == {Side(c.h, c.t, service) : c \in {k \in base.cursor : Trusted(k)}}
<1>1. Feed(base.cursor) = Respond(Side(LogHead, now, service), olds)
  BY DEF Feed
<1>2. Feed(base.cursor).born = events
  BY <1>1 DEF Respond
<1>3. CASE \E c \in base.cursor : Trusted(c)
  <2>1. PICK c \in base.cursor : Trusted(c)
    BY <1>3
  <2>2. olds = {Side(c.h, c.t, service)}
    BY <2>1 DEF Honest
  <2> QED
    BY <1>1, <1>2, <2>1, <2>2, DiffFits
<1>4. CASE ~\E c \in base.cursor : Trusted(c)
  <2>1. olds = {}
    BY <1>4
  <2> QED
    BY <1>1, <1>2, <2>1, ResetFits
<1> QED
  BY <1>3, <1>4

-----------------------------------------------------------------------------
(* Reads of the past.                                                      *)

\* A row that elects nobody is added: what a read as of an earlier position sees is
\* where it was.
Grows ==
  /\ LogHead \in Nat /\ LogHead <= LogHead'
  /\ \A i \in 1..LogHead : log'[i] = log[i]
  /\ Rep(LogHead)' = Rep(LogHead) /\ hard' = hard

\* A log position of the past sees the rows it saw, and each is what it was.
LEMMA RowsStay ==
  ASSUME Grows, NEW h \in 0..LogHead
  PROVE  /\ Rep(h)' = Rep(h)
         /\ \A x : Closure(x, h)' = Closure(x, h)
         /\ \A x : Now(x)' = Now(x)
         /\ \A i \in 1..h : /\ log'[i] = log[i]
                            /\ Visible(i, h)' <=> Visible(i, h)
                            /\ IsHard(i)' <=> IsHard(i)
                            /\ Value(i)' = Value(i)
         /\ \A frame, t : /\ VisibleRows(frame, h, t)' = VisibleRows(frame, h, t)
                          /\ VisibleRows(frame, h, t) \in SUBSET (1..h)
<1>1. \A i \in 1..h : log'[i] = log[i]
  BY DEF Grows
<1>2. Rep(h)' = Rep(h)
  BY <1>1 DEF Rep, Grows
<1>3. \A x : Now(x)' = Now(x)
  BY DEF Now, Grows
<1>4. \A x : Closure(x, h)' = Closure(x, h)
  BY <1>2 DEF Closure
<1>5. \A i \in 1..h : /\ Visible(i, h)' <=> Visible(i, h)
                      /\ IsHard(i)' <=> IsHard(i)
                      /\ Value(i)' = Value(i)
  BY <1>1, <1>3 DEF Visible, IsHard, RuledHard, Value, Grows
<1>6. ASSUME NEW frame, NEW t
      PROVE  /\ VisibleRows(frame, h, t)' = VisibleRows(frame, h, t)
             /\ VisibleRows(frame, h, t) \in SUBSET (1..h)
  BY <1>1, <1>5 DEF VisibleRows, Valid
<1> QED
  BY <1>1, <1>2, <1>3, <1>4, <1>5, <1>6

\* The fold of rows of the past, and that it serves one of them or none.
LEMMA FoldRowsStay ==
  ASSUME Grows, NEW h \in 0..LogHead, NEW live \in SUBSET (1..h)
  PROVE  FoldRows(live)' = FoldRows(live) /\ FoldRows(live).winner \in {0} \union live
<1>1. \A S \in SUBSET (1..h) : Contradict(S)' = Contradict(S)
  BY RowsStay DEF Contradict
<1>2. \A S \in SUBSET (1..h) : Latest(S)' = Latest(S) /\ Latest(S) \subseteq S
  BY RowsStay DEF Latest
<1>3. ASSUME NEW S \in SUBSET (1..h), NEW fixed
      PROVE  Serve(S, fixed)' = Serve(S, fixed) /\ Serve(S, fixed).winner \in {0} \union S
  <2>1. S # {} => Min(S) \in S /\ Max(S) \in S
    <3>1. h \in Nat /\ S \in SUBSET Nat
      BY DEF Grows
    <3> QED
      BY <3>1, MinIs, MaxIs
  <2>2. Contradict(S)' = Contradict(S)
    BY <1>1
  <2>3. Serve(S, fixed)' = Serve(S, fixed)
    BY <2>2, Zenon DEF Serve
  <2>4. Serve(S, fixed).winner \in {0} \union S
    BY <2>1 DEF Serve
  <2> QED
    BY <2>3, <2>4
<1>4. {i \in live : IsHard(i)}' = {i \in live : IsHard(i)}
  BY RowsStay
<1> DEFINE fixed == {i \in live : IsHard(i)}
<1>5. fixed \in SUBSET (1..h) /\ Latest(live) \in SUBSET (1..h)
  BY <1>2
<1>6. ServeHard(fixed, live)' = ServeHard(fixed, live)
  BY <1>2, <1>3, <1>4, <1>5 DEF ServeHard
<1>7. ServeHard(fixed, live).winner \in {0} \union live
  BY <1>2, <1>3, <1>5 DEF ServeHard
<1> QED
  BY <1>6, <1>7 DEF FoldRows

\* What a key of the past folds to, and that its winner is a row of the past.
LEMMA FoldStays ==
  ASSUME Grows, NEW h \in 0..LogHead, NEW x, NEW attr, NEW frame, NEW t
  PROVE  /\ Fold(x, attr, frame, h, t)' = Fold(x, attr, frame, h, t)
         /\ Fold(x, attr, frame, h, t).winner \in 0..h
<1> DEFINE rows == VisibleRows(frame, h, t)
           mine == KeyRows(rows, x, attr)
<1>1. rows' = rows /\ rows \in SUBSET (1..h)
  BY RowsStay
<1>2. \A i \in 1..h : SameNow(log[i].e, x)' = SameNow(log[i].e, x) /\ IsEventRow(i)' = IsEventRow(i)
  BY RowsStay DEF SameNow, IsEventRow
<1>3. mine' = mine /\ mine \in SUBSET (1..h)
  BY <1>1, <1>2, RowsStay DEF KeyRows
<1> DEFINE live == Concrete(mine)
<1>4. live' = live /\ live \in SUBSET (1..h)
  BY <1>3, RowsStay DEF Concrete
<1>5. FoldRows(live)' = FoldRows(live) /\ FoldRows(live).winner \in {0} \union live
  <2> HIDE DEF live
  <2>1. \A S \in SUBSET (1..h) : FoldRows(S)' = FoldRows(S) /\ FoldRows(S).winner \in {0} \union S
    BY FoldRowsStay
  <2> QED
    BY <1>4, <2>1
<1>6. FoldRows(live).winner \in 0..h
  <2>1. h \in Nat
    BY DEF Grows
  <2>2. {0} \union live \subseteq 0..h
    BY <1>4, <2>1
  <2> QED
    BY <1>5, <2>2
<1> QED
  BY <1>5, <1>6, Zenon DEF Fold, FoldKey

\* What is known of canon at a position of the past.
LEMMA ReadsStay ==
  ASSUME Grows, NEW h \in 0..LogHead, NEW t
  PROVE  /\ \A f : f.winner \in 0..h => /\ KnownValue(f)' = KnownValue(f)
                                        /\ LiteralOf(f)' = LiteralOf(f)
                                        /\ Target(f)' = Target(f)
                                        /\ ParentOf(f, h)' = ParentOf(f, h)
                                        /\ KnownValue(f) => log'[f.winner] = log[f.winner]
         /\ \A x, attr : Literal(x, attr, h, t)' = Literal(x, attr, h, t)
         /\ \A x : IsPerson(x, h, t)' = IsPerson(x, h, t)
         /\ \A x : IsPlace(x, h, t)' = IsPlace(x, h, t)
         /\ \A x : Parent(x, h, t)' = Parent(x, h, t)
         /\ \A p, c : Holds(p, c, h, t)' = Holds(p, c, h, t)
         /\ Drawable(h)' = Drawable(h)
<1>1. ASSUME NEW f, f.winner \in 0..h
      PROVE  /\ KnownValue(f)' = KnownValue(f)
             /\ LiteralOf(f)' = LiteralOf(f)
             /\ Target(f)' = Target(f)
             /\ ParentOf(f, h)' = ParentOf(f, h)
             /\ KnownValue(f) => log'[f.winner] = log[f.winner]
  <2>1. f.winner # 0 => log'[f.winner] = log[f.winner]
    BY <1>1, RowsStay DEF Grows
  <2>2. Concretely(f)' = Concretely(f)
    BY <2>1 DEF Concretely
  <2>3. KnownValue(f)' = KnownValue(f)
    BY <2>2 DEF KnownValue
  <2>4. LiteralOf(f)' = LiteralOf(f)
    BY <2>1, <2>3 DEF LiteralOf, KnownValue, Concretely
  <2>5. Target(f)' = Target(f)
    BY <2>1, RowsStay DEF Target
  <2>6. ParentOf(f, h)' = ParentOf(f, h)
    BY <2>1, <2>3, RowsStay DEF ParentOf, KnownValue, Concretely
  <2> QED
    BY <2>1, <2>3, <2>4, <2>5, <2>6 DEF KnownValue, Concretely
<1>2. ASSUME NEW x, NEW attr
      PROVE  Literal(x, attr, h, t)' = Literal(x, attr, h, t)
  BY <1>1, FoldStays DEF Literal
<1>3. ASSUME NEW x
      PROVE  Parent(x, h, t)' = Parent(x, h, t)
  BY <1>1, FoldStays DEF Parent
<1>4. ASSUME NEW p, NEW c
      PROVE  Holds(p, c, h, t)' = Holds(p, c, h, t)
  BY <1>1, FoldStays, RowsStay DEF Holds
<1>5. ASSUME NEW x
      PROVE  OwnsFrame(x, h)' = OwnsFrame(x, h)
  BY RowsStay DEF OwnsFrame
<1>6. ASSUME NEW x
      PROVE  IsPerson(x, h, t)' = IsPerson(x, h, t)
  BY <1>2, <1>5, RowsStay DEF IsPerson
<1>7. ASSUME NEW x
      PROVE  IsPlace(x, h, t)' = IsPlace(x, h, t)
  BY <1>2, RowsStay DEF IsPlace
<1>8. Drawable(h)' = Drawable(h)
  BY RowsStay DEF Drawable
<1> QED
  BY <1>1, <1>2, <1>3, <1>4, <1>6, <1>7, <1>8

\* The known layer.
LEMMA KnownStays ==
  ASSUME Grows, NEW h \in 0..LogHead, NEW t
  PROVE  Known(h, t)' = Known(h, t)
<1> DEFINE rows == ViewRows(h, t)
           Of(x) == {i \in rows : Rep(h)[log[i].e] = x}
           Folds(x) == {<<log[i].attr, Fold(x, log[i].attr, "view", h, t)>> : i \in Of(x)}
<1>1. rows' = rows /\ rows \in SUBSET (1..h)
  BY RowsStay DEF ViewRows
<1>2. ASSUME NEW x
      PROVE  Folds(x)' = Folds(x) /\ \A k \in Folds(x) : k[2].winner \in 0..h
  <2>1. Of(x)' = Of(x) /\ Of(x) \in SUBSET (1..h)
    BY <1>1, RowsStay
  <2>2. \A a : /\ Fold(x, a, "view", h, t)' = Fold(x, a, "view", h, t)
               /\ Fold(x, a, "view", h, t).winner \in 0..h
    BY FoldStays
  <2> HIDE DEF Of
  <2>3. \A i \in Of(x) : log'[i] = log[i]
    BY <2>1, RowsStay
  <2> QED
    BY <2>1, <2>2, <2>3
<1>3. ASSUME NEW folds, \A k \in folds : k[2].winner \in 0..h
      PROVE  KnownRecord(folds)' = KnownRecord(folds)
  BY <1>3, ReadsStay DEF KnownRecord
<1>4. {Rep(h)[log[i].e] : i \in rows}' = {Rep(h)[log[i].e] : i \in rows}
  BY <1>1, RowsStay
<1>5. \A x : KnownRecord(Folds(x))' = KnownRecord(Folds(x))
  <2> HIDE DEF Folds
  <2> QED
    BY <1>2, <1>3
<1> DEFINE Record(x) == KnownRecord(Folds(x))
           Subjects == {Rep(h)[log[i].e] : i \in rows}
<1>6. Known(h, t) = {<<x, Record(x)>> : x \in Subjects}
  BY DEF Known, KnownOf
<1>7. Known(h, t)' = {<<x, Record(x)'>> : x \in Subjects'}
  BY DEF Known, KnownOf
<1>8. Subjects' = Subjects /\ \A x : Record(x)' = Record(x)
  BY <1>4, <1>5
<1> HIDE DEF Record, Subjects
<1> QED
  BY <1>6, <1>7, <1>8

\* The present layer, of the same known one.
LEMMA PresentStays ==
  ASSUME Grows, NEW h \in 0..LogHead, NEW t, NEW key, NEW seen
  PROVE  Present(key, seen, h, t)' = Present(key, seen, h, t)
<1>1. \A S : NotPersons(S, h, t)' = NotPersons(S, h, t)
  BY ReadsStay DEF NotPersons
<1>2. \A S : Held(S, h, t)' = Held(S, h, t)
  <2>1. {Rep(LogHead)[y] : y \in Ids}' = {Rep(LogHead)[y] : y \in Ids}
    BY DEF Grows
  <2> QED
    BY <2>1, ReadsStay, RowsStay DEF Held
<1>3. \A c, p : PresentRecord(c, p, seen, key, h, t)' = PresentRecord(c, p, seen, key, h, t)
  BY ReadsStay, Zenon DEF PresentRecord
<1>4. ASSUME NEW found, NEW roots, NEW into
      PROVE  PresentIn(found, roots, into, seen, key, h, t)' = PresentIn(found, roots, into, seen, key, h, t)
  <2> DEFINE Record(c) == PresentRecord(c, CHOOSE p \in roots \union found : <<p, c>> \in into,
                                        seen, key, h, t)
  <2>1. \A c : Record(c)' = Record(c)
    BY <1>3
  <2>2. /\ PresentIn(found, roots, into, seen, key, h, t) = {<<Handle(key, c), Record(c)>> : c \in found}
        /\ PresentIn(found, roots, into, seen, key, h, t)' = {<<Handle(key, c), Record(c)'>> : c \in found}
    BY DEF PresentIn
  <2> HIDE DEF Record
  <2> QED
    BY <2>1, <2>2
<1>5. ASSUME NEW roots, NEW unseen, NEW into
      PROVE  PresentFrom(roots, unseen, into, seen, key, h, t)' = PresentFrom(roots, unseen, into, seen, key, h, t)
  BY <1>4 DEF PresentFrom
<1> DEFINE all == {Rep(h)[x] : x \in Ids}
<1>6. /\ NotPersons(seen, h, t)' = NotPersons(seen, h, t)
      /\ NotPersons(all \ seen, h, t)' = NotPersons(all \ seen, h, t)
      /\ Held(all, h, t)' = Held(all, h, t)
  <2>1. all' = all
    BY RowsStay
  <2> HIDE DEF all
  <2> QED
    BY <1>1, <1>2, <2>1
<1> QED
  BY <1>5, <1>6 DEF Present

\* A person's record, of the same known layer.
LEMMA PersonStays ==
  ASSUME Grows, NEW h \in 0..LogHead, NEW t, NEW seen, NEW key, NEW attrs, NEW x
  PROVE  PersonRecord(x, seen, key, attrs, h, t)' = PersonRecord(x, seen, key, attrs, h, t)
<1>1. \A y, places : Ref(y, seen, key, places, h, t)' = Ref(y, seen, key, places, h, t)
  BY ReadsStay DEF Ref
<1>2. \A first, place : Where(first, place, seen, key, h, t)' = Where(first, place, seen, key, h, t)
  BY <1>1 DEF Where
<1>3. PlaceOf(x, h, t)' = PlaceOf(x, h, t)
  <2>1. \A up : Climb(up, x, h, t)' = Climb(up, x, h, t)
    BY ReadsStay DEF Climb
  <2>2. [y \in Ids |-> Parent(y, h, t)]' = [y \in Ids |-> Parent(y, h, t)]
    BY ReadsStay
  <2> QED
    BY <2>1, <2>2 DEF PlaceOf
<1>4. \A v : FactOf(v, seen, key, h, t)' = FactOf(v, seen, key, h, t)
  BY <1>1, RowsStay DEF FactOf
<1>5. PersonFacts(x, seen, key, attrs, h, t)' = PersonFacts(x, seen, key, attrs, h, t)
  <2> DEFINE Of(f, a) == {<<a, r>> : r \in FactOf(log[f.winner].v, seen, key, h, t)}
             Facts(a) == UNION {Of(f, a) : f \in {g \in {Fold(x, a, "canon", h, t)} : KnownValue(g)}}
  <2>1. ASSUME NEW f, NEW a, f.winner \in 0..h, KnownValue(f)
        PROVE  Of(f, a)' = Of(f, a)
    BY <1>4, <2>1, ReadsStay
  <2>2. ASSUME NEW a PROVE Facts(a)' = Facts(a)
    <3>1. /\ Fold(x, a, "canon", h, t)' = Fold(x, a, "canon", h, t)
          /\ Fold(x, a, "canon", h, t).winner \in 0..h
      BY FoldStays
    <3>2. KnownValue(Fold(x, a, "canon", h, t))' = KnownValue(Fold(x, a, "canon", h, t))
      BY <3>1, ReadsStay
    <3> HIDE DEF Of
    <3> QED
      BY <2>1, <3>1, <3>2
  <2>3. /\ PersonFacts(x, seen, key, attrs, h, t) = UNION {Facts(a) : a \in attrs}
        /\ PersonFacts(x, seen, key, attrs, h, t)' = UNION {Facts(a)' : a \in attrs}
    BY DEF PersonFacts
  <2> HIDE DEF Facts
  <2> QED
    BY <2>2, <2>3
<1>6. Where(Parent(x, h, t), PlaceOf(x, h, t), seen, key, h, t)'
        = Where(Parent(x, h, t), PlaceOf(x, h, t), seen, key, h, t)
  BY <1>2, <1>3, ReadsStay
<1> QED
  BY <1>5, <1>6 DEF PersonRecord

\* The whole side.
LEMMA SideStays ==
  ASSUME Grows, NEW h \in 0..LogHead, NEW t, UNCHANGED service
  PROVE  Side(h, t, service)' = Side(h, t, service)
<1>1. Known(h, t)' = Known(h, t)
  BY KnownStays
<1>2. ASSUME NEW known, NEW s
      PROVE  SideFrom(known, h, t, s)' = SideFrom(known, h, t, s)
  <2> DEFINE seen == Keys(known)
  <2>1. UNION {Present(k, seen, h, t) : k \in s.key}' = UNION {Present(k, seen, h, t) : k \in s.key}
    BY PresentStays
  <2>2. ASSUME NEW attrs
        PROVE  People(seen, s.key, attrs, h, t)' = People(seen, s.key, attrs, h, t)
    <3> DEFINE Record(x) == PersonRecord(x, seen, s.key, attrs, h, t)
               Subjects == {y \in CanonSubjects(h, t) : IsPerson(y, h, t)}
    <3>1. CanonSubjects(h, t)' = CanonSubjects(h, t)
      BY RowsStay DEF CanonSubjects
    <3>2. Subjects' = Subjects
      BY <3>1, ReadsStay
    <3>3. \A x : Record(x)' = Record(x)
      BY PersonStays
    <3>4. /\ People(seen, s.key, attrs, h, t) = {r \in {<<x, Record(x)>> : x \in Subjects} : r[2] # Blank}
          /\ People(seen, s.key, attrs, h, t)' = {r \in {<<x, Record(x)'>> : x \in Subjects'} : r[2] # Blank}
      BY DEF People
    <3> HIDE DEF Record, Subjects
    <3> QED
      BY <3>2, <3>3, <3>4
  <2>3. UNION {People(seen, s.key, attrs, h, t) : attrs \in s.people}'
          = UNION {People(seen, s.key, attrs, h, t) : attrs \in s.people}
    BY <2>2
  <2> QED
    BY <2>1, <2>3 DEF SideFrom, LayersFrom
<1> QED
  BY <1>1, <1>2 DEF Side

-----------------------------------------------------------------------------
(* The invariant.                                                          *)

Option(S) == \A x, y \in S : x = y
Given(doc, n) == Honest(doc) /\ doc.born \in 0..n

\* A page's call: what it holds, and what it has of it in each phase.
TabOK(tab, n) ==
  /\ tab = Page(tab.pc, tab.op, tab.doc, tab.base, tab.answer)
  /\ Option(tab.doc) /\ Option(tab.base)
  /\ \A doc \in tab.doc \union tab.base : Given(doc, n)
  /\ \A a \in tab.answer : a.born \in 0..n /\ \A base \in tab.base : Fits(base, a)
  /\ tab.answer # {} => tab.pc = "putting"
  /\ tab.pc = "asking" => tab.op = "sync"
  /\ tab.pc = "putting" => \/ tab.op = "sync" /\ tab.answer # {}
                           \/ tab.op \in {"open", "replace"} /\ tab.answer = {}

ServedInv == ElectedOK /\ ServiceOK /\ events \in Nat
DocsInv == Option(stored) /\ \A doc \in stored \union {published} : Given(doc, events)
TabsInv == tabs = [p \in Tabs |-> tabs[p]] /\ \A p \in Tabs : TabOK(tabs[p], events)

Busy(p) == tabs[p].pc \in {"asking", "putting"}

\* The holder of the lock is alone, and what it is about to put is not older than
\* what is stored.
LockInv ==
  locks => /\ line \in Seq(Tabs)
           /\ \A p \in Tabs : Busy(p) => line # <<>> /\ line[1] = p
           /\ \A p \in Tabs : tabs[p].pc = "putting" =>
                /\ tabs[p].op = "open" => stored = {}
                /\ \A a \in tabs[p].answer, doc \in stored : doc.born <= a.born

Inv == ServedInv /\ DocsInv /\ TabsInv /\ LockInv

\* Appending to a sequence.
LEMMA SeqGrows ==
  ASSUME NEW S, NEW T, S \subseteq T, NEW s \in Seq(S), NEW x \in T
  PROVE  Append(s, x) \in Seq(T)
<1>1. s \in Seq(T)
  BY SMT
<1> QED
  BY <1>1

\* Whichever of the two the registry elects, who represents is represented by itself.
LEMMA WriteElects ==
  ASSUME ElectedOK, NEW row \in Offers, NEW rep \in Elections(row)
  PROVE  \E S : Append(log, WithRep(row, rep)) \in Seq(S) /\ \A r \in S : Idempotent(r.rep)
<1>1. Idempotent(Rep(LogHead))
  BY DEF Rep, LogHead, ElectedOK, Idempotent
<1>2. Idempotent(rep)
  <2>1. CASE row.attr # "same_as"
    BY <1>1, <2>1 DEF Elections
  <2>2. CASE row.attr = "same_as"
    <3>1. row.e \in Ids /\ row.v \in Ids
      BY <2>2, ViewConstants
    <3> DEFINE f == Rep(LogHead)
    <3>2. PICK elected \in {f[row.e], f[row.v]} :
            rep = [x \in Ids |-> IF f[x] \in {f[row.e], f[row.v]} THEN elected ELSE f[x]]
      BY <2>2 DEF Elections
    <3> HIDE DEF f
    <3>3. f \in [Ids -> Ids] /\ \A x \in Ids : f[f[x]] = f[x]
      BY <1>1 DEF Idempotent, f
    <3>4. rep \in [Ids -> Ids]
      BY <3>1, <3>2, <3>3
    <3>5. ASSUME NEW x \in Ids PROVE rep[rep[x]] = rep[x]
      BY <3>1, <3>2, <3>3
    <3> QED
      BY <3>4, <3>5 DEF Idempotent
  <2> QED
    BY <2>1, <2>2
<1>3. PICK S : log \in Seq(S) /\ \A r \in S : Idempotent(r.rep)
  BY DEF ElectedOK
<1> DEFINE new == WithRep(row, rep)
<1>4. new.rep = rep
  BY DEF WithRep
<1> HIDE DEF new
<1>5. Append(log, new) \in Seq(S \union {new})
  BY <1>3, SeqGrows
<1>6. \A r \in S \union {new} : Idempotent(r.rep)
  BY <1>2, <1>3, <1>4
<1> QED
  BY <1>5, <1>6 DEF new

\* Time passing takes nothing from a document or a call.
LEMMA TabLasts ==
  ASSUME NEW tab, NEW n \in Nat, TabOK(tab, n)
  PROVE  TabOK(tab, n + 1)
<1>1. \A doc : Given(doc, n) => Given(doc, n + 1)
  BY DEF Given
<1>2. \A a \in tab.answer : a.born \in 0..(n + 1)
  BY DEF TabOK
<1> QED
  BY <1>1, <1>2 DEF TabOK
\* What a fitting answer makes of a document is a document of the service's.
LEMMA ApplyGives ==
  ASSUME NEW base, NEW a, Fits(base, a)
  PROVE  Honest(Apply(base, a)) /\ Apply(base, a).born = a.born
<1>1. \E side : Apply(base, a) = Doc(side, {a.cursor}, a.born)
  BY Zenon DEF Apply
<1>2. PICK side : Apply(base, a) = Doc(side, {a.cursor}, a.born)
  BY <1>1
<1>3. side = a.cursor.d
  BY <1>2 DEF Fits, Doc
<1> QED
  BY <1>2, <1>3 DEF Honest, Doc

\* The document a tab starts with is one the service could have given.
LEMMA EmptyGiven == \A n \in Nat : Given(EmptyDocument, n)
<1>1. \E side : EmptyDocument = Doc(side, {}, 0)
  BY Zenon DEF EmptyDocument
<1>2. PICK side : EmptyDocument = Doc(side, {}, 0)
  BY <1>1
<1> QED
  BY <1>2 DEF Given, Honest, Doc

\* Nothing is stored, called or locked at first.
LEMMA InitHolds == Init => Inv
<1> SUFFICES ASSUME Init PROVE Inv
  OBVIOUS
<1> USE DEF Init
<1>1. ServedInv
  <2>1. \A row \in {OldLog[i] : i \in DOMAIN OldLog} : Idempotent(row.rep)
    BY ViewConstants
  <2> QED
    BY <2>1, ViewConstants DEF ServedInv, ElectedOK, ServiceOK
<1>2. DocsInv
  BY EmptyGiven DEF DocsInv, Option
<1>3. TabsInv
  BY DEF TabsInv, TabOK, Page, Idle, Option
<1>4. LockInv
  BY DEF LockInv, Busy, Idle, Page
<1> QED
  BY <1>1, <1>2, <1>3, <1>4 DEF Inv

\* What the world does leaves the device as it was; what it ships is an export.
LEMMA WorldKeeps == Inv /\ WorldStep => Inv'
<1> SUFFICES ASSUME Inv, WorldStep PROVE Inv'
  OBVIOUS
<1>1. /\ UNCHANGED <<stored, tabs, line, locks>>
      /\ events' = events + 1 /\ events \in Nat
  BY DEF WorldStep, Write, Judge, Restore, Publish, SetNow, Rerun, Happens, device, Inv, ServedInv
<1>2. ElectedOK'
  <2>1. CASE \E row \in Offers : Write(row)
    <3>1. PICK row \in Offers : Write(row)
      BY <2>1
    <3>2. PICK rep \in Elections(row) : log' = Append(log, WithRep(row, rep))
      BY <3>1 DEF Write
    <3> QED
      BY <3>2, WriteElects DEF ElectedOK, Inv, ServedInv
  <2>2. CASE Restore
    <3>1. \A row \in {OldLog[i] : i \in DOMAIN OldLog} : Idempotent(row.rep)
      BY ViewConstants
    <3> QED
      BY <2>2, <3>1, ViewConstants DEF Restore, ElectedOK
  <2>3. CASE UNCHANGED log
    BY <2>3 DEF ElectedOK, Inv, ServedInv
  <2> QED
    BY <2>1, <2>2, <2>3 DEF WorldStep, Judge, Publish, SetNow, Rerun
<1>3. ServiceOK'
  BY DEF WorldStep, Write, Judge, Restore, Publish, SetNow, Rerun, ServiceOK, Inv, ServedInv
<1>4. \A doc : Given(doc, events) => Given(doc, events')
  BY <1>1 DEF Given
<1>5. Given(published', events')
  <2>1. CASE Publish
    <3>1. Feed({}) = Respond(Side(LogHead, now, service), {})
      BY DEF Feed
    <3>2. Fits(EmptyDocument, Feed({})) /\ Feed({}).born = events
      BY <3>1, ResetFits DEF Respond, Inv, ServedInv
    <3>3. Given(Export, events)
      BY <1>1, <3>2, ApplyGives DEF Given, Export
    <3> QED
      BY <1>4, <2>1, <3>3 DEF Publish
  <2>2. CASE UNCHANGED published
    BY <1>4, <2>2 DEF Inv, DocsInv
  <2> QED
    BY <2>1, <2>2 DEF WorldStep, Write, Judge, Restore, SetNow, Rerun
<1>6. DocsInv'
  BY <1>1, <1>4, <1>5 DEF DocsInv, Inv
<1>7. TabsInv'
  BY <1>1, TabLasts DEF TabsInv, Inv
<1>8. LockInv'
  BY <1>1 DEF LockInv, Busy, Inv
<1> QED
  BY <1>1, <1>2, <1>3, <1>6, <1>7, <1>8 DEF Inv, ServedInv

\* A step of one page: its call is what TabOK says, and the others' are as they were.
LEMMA TabMoves ==
  ASSUME Inv, NEW p \in Tabs, NEW tab, TabOK(tab, events), UNCHANGED events,
         tabs' = [tabs EXCEPT ![p] = tab]
  PROVE  TabsInv'
<1>1. ASSUME NEW q \in Tabs PROVE TabOK(tabs'[q], events)
  BY DEF Inv, TabsInv
<1>2. tabs' = [q \in Tabs |-> tabs'[q]]
  BY DEF Inv, TabsInv
<1> QED
  BY <1>1, <1>2 DEF TabsInv

\* A tab at rest with a document that was given is sound.
LEMMA IdleOK ==
  ASSUME NEW doc, NEW n \in Nat, Option(doc), \A d \in doc : Given(d, n)
  PROVE  TabOK(Idle(doc), n)
BY DEF TabOK, Page, Idle, Option

\* What a call is about to put is a document the service, or the site, gave.
LEMMA OutcomeGiven ==
  ASSUME Inv, NEW p \in Tabs, tabs[p].pc = "putting", NEW base \in tabs[p].base
  PROVE  Given(Outcome(base, tabs[p].answer), events)
<1>1. TabOK(tabs[p], events)
  BY DEF Inv, TabsInv
<1>2. CASE tabs[p].answer = {}
  BY <1>1, <1>2 DEF TabOK, Outcome
<1>3. CASE tabs[p].answer # {}
  <2> DEFINE a == CHOOSE x \in tabs[p].answer : TRUE
  <2>1. a \in tabs[p].answer
    BY <1>3
  <2> HIDE DEF a
  <2>2. a.born \in 0..events /\ Fits(base, a)
    BY <1>1, <2>1 DEF TabOK
  <2>3. Given(Apply(base, a), events)
    BY <2>2, ApplyGives DEF Given
  <2> QED
    BY <1>3, <2>3 DEF Outcome, a
<1> QED
  BY <1>2, <1>3
\* A call that is over leaves the lock to the next in line: nobody is busy.
LEMMA OverKeeps ==
  ASSUME Inv, NEW p \in Tabs, NEW doc, Option(doc), \A d \in doc : Given(d, events),
         Over(p, doc), UNCHANGED <<events, locks>>,
         locks => line # <<>> /\ line[1] = p
  PROVE  TabsInv' /\ LockInv'
<1>1. tabs' = [tabs EXCEPT ![p] = Idle(doc)]
  BY DEF Over
<1>2. TabsInv'
  BY <1>1, IdleOK, TabMoves DEF Inv, ServedInv
<1>3. ASSUME locks PROVE line' \in Seq(Tabs) /\ \A q \in Tabs : ~Busy(q)'
  <2>1. line' = Tail(line) /\ line \in Seq(Tabs) /\ line # <<>> /\ line[1] = p
    BY <1>3 DEF Over, Inv, LockInv
  <2>2. line' \in Seq(Tabs)
    BY <2>1
  <2>3. \A q \in Tabs : q # p => ~Busy(q)
    BY <1>3, <2>1 DEF Inv, LockInv
  <2>4. \A q \in Tabs : tabs'[q].pc = IF q = p THEN "idle" ELSE tabs[q].pc
    BY <1>1 DEF Inv, TabsInv, Idle, Page
  <2> QED
    BY <2>2, <2>3, <2>4 DEF Busy
<1>4. LockInv'
  BY <1>3 DEF LockInv, Busy
<1> QED
  BY <1>2, <1>4

\* A page that goes on with its call, by its turn, and leaves the store as it is.
LEMMA TurnKeeps ==
  ASSUME Inv, NEW p \in Tabs, NEW tab, TabOK(tab, events),
         UNCHANGED <<events, locks, line, stored>>, tabs' = [tabs EXCEPT ![p] = tab],
         locks => line # <<>> /\ line[1] = p,
         locks /\ tab.pc = "putting" => /\ tab.op = "open" => stored = {}
                                       /\ \A a \in tab.answer, doc \in stored : doc.born <= a.born
  PROVE  TabsInv' /\ LockInv'
<1>1. TabsInv'
  BY TabMoves
<1>2. \A q \in Tabs : tabs'[q] = IF q = p THEN tab ELSE tabs[q]
  BY DEF Inv, TabsInv
<1>3. LockInv'
  BY <1>2 DEF LockInv, Busy, Inv
<1> QED
  BY <1>1, <1>3

\* No step of a tab breaks the invariant.
LEMMA DeviceKeeps ==
  ASSUME Inv, NEW p \in Tabs,
         Runs(p) \/ Fail(p) \/ \E op \in {"open", "sync", "replace"} : Call(p, op)
  PROVE  Inv'
<1>1. /\ TabOK(tabs[p], events) /\ events \in Nat
      /\ tabs[p] = Page(tabs[p].pc, tabs[p].op, tabs[p].doc, tabs[p].base, tabs[p].answer)
      /\ DOMAIN tabs = Tabs
  BY DEF Inv, TabsInv, TabOK, ServedInv
<1>2. locks /\ Busy(p) => line # <<>> /\ line[1] = p
  BY DEF Inv, LockInv
<1>3. /\ UNCHANGED <<log, service, events, published, locks>> /\ ServedInv'
      /\ (Inv /\ UNCHANGED stored => DocsInv')
  BY DEF Runs, OpenView, Ask, Answer, Replace, Put, Fail, Call, world, Inv, ServedInv, DocsInv,
         ElectedOK, ServiceOK
<1>4. ASSUME NEW op \in {"open", "sync", "replace"}, Call(p, op) PROVE TabsInv' /\ LockInv'
  <2> DEFINE tab == Page("waiting", op, tabs[p].doc, {}, {})
  <2>1. tabs' = [tabs EXCEPT ![p] = tab] /\ tabs[p].pc = "idle"
    BY <1>1, <1>4 DEF Call
  <2>2. TabOK(tab, events)
    BY <1>1, <2>1 DEF TabOK, Page, Option
  <2>3. TabsInv'
    BY <1>3, <2>1, <2>2, TabMoves
  <2>4. \A q \in Tabs : tabs'[q] = IF q = p THEN tab ELSE tabs[q]
    BY <2>1 DEF Inv, TabsInv
  <2>5. locks /\ line \in Seq(Tabs) => line' \in Seq(Tabs) /\ (line # <<>> => line' # <<>> /\ line'[1] = line[1])
    BY <1>4 DEF Call
  <2>6. ASSUME locks
        PROVE  /\ line' \in Seq(Tabs)
               /\ \A q \in Tabs : Busy(q)' => line' # <<>> /\ line'[1] = q
    BY <1>4, <2>4, <2>5, <2>6 DEF LockInv, Busy, Inv, Page
  <2>7. \A q \in Tabs : tabs'[q].pc = "putting" => tabs'[q] = tabs[q]
    BY <2>4 DEF Page
  <2>8. stored' = stored
    BY <1>4 DEF Call
  <2>9. LockInv'
    BY <1>3, <2>6, <2>7, <2>8 DEF LockInv, Busy, Inv
  <2> QED
    BY <2>3, <2>9
<1>5. ASSUME OpenView(p) PROVE TabsInv' /\ LockInv'
  <2>1. CASE stored # {}
    <3>1. Over(p, stored)
      BY <1>5, <2>1 DEF OpenView
    <3> QED
      BY <1>3, <1>5, <3>1, OverKeeps DEF OpenView, Turn, Inv, DocsInv
  <2>2. CASE stored = {}
    <3> DEFINE tab == Page("putting", "open", tabs[p].doc, {published}, {})
    <3>1. tabs' = [tabs EXCEPT ![p] = tab]
      BY <1>1, <1>5, <2>2 DEF OpenView, TabOK
    <3>2. TabOK(tab, events)
      BY <1>1 DEF TabOK, Page, Option, Inv, DocsInv
    <3> QED
      BY <1>3, <1>5, <2>2, <3>1, <3>2, TurnKeeps DEF OpenView, Turn, Page
  <2> QED
    BY <2>1, <2>2
<1>6. ASSUME Ask(p) PROVE TabsInv' /\ LockInv'
  <2> DEFINE tab == Page("asking", "sync", tabs[p].doc, IF stored # {} THEN stored ELSE tabs[p].doc, {})
  <2>1. tabs' = [tabs EXCEPT ![p] = tab]
    BY <1>1, <1>6 DEF Ask, TabOK
  <2>2. TabOK(tab, events)
    BY <1>1 DEF TabOK, Page, Inv, DocsInv
  <2> QED
    BY <1>3, <1>6, <2>1, <2>2, TurnKeeps DEF Ask, Turn, Page
<1>7. ASSUME Answer(p) PROVE TabsInv' /\ LockInv'
  <2>1. PICK base \in tabs[p].base :
          tabs' = [tabs EXCEPT ![p] = Page("putting", "sync", tabs[p].doc, tabs[p].base,
                                                {Feed(base.cursor)})]
    BY <1>7 DEF Answer
  <2> DEFINE tab == Page("putting", "sync", tabs[p].doc, tabs[p].base, {Feed(base.cursor)})
  <2>2. tabs' = [tabs EXCEPT ![p] = tab]
    BY <1>1, <1>7, <2>1 DEF Answer, TabOK
  <2>3. Fits(base, Feed(base.cursor)) /\ Feed(base.cursor).born = events
    BY <1>1, FeedFits DEF Inv, ServedInv, TabOK, Given
  <2>4. TabOK(tab, events)
    BY <1>1, <2>3 DEF TabOK, Page, Option
  <2>5. \A doc \in stored : doc.born <= events
    BY <1>1 DEF Inv, DocsInv, Given
  <2> QED
    BY <1>2, <1>3, <1>7, <2>2, <2>3, <2>4, <2>5, TurnKeeps DEF Answer, Busy, Page
<1>8. ASSUME Replace(p) PROVE TabsInv' /\ LockInv'
  <2> DEFINE tab == Page("putting", "replace", tabs[p].doc, {published}, {})
  <2>1. tabs' = [tabs EXCEPT ![p] = tab]
    BY <1>1, <1>8 DEF Replace, TabOK
  <2>2. TabOK(tab, events)
    BY <1>1 DEF TabOK, Page, Option, Inv, DocsInv
  <2> QED
    BY <1>3, <1>8, <2>1, <2>2, TurnKeeps DEF Replace, Turn, Page
<1>9. ASSUME Put(p) PROVE DocsInv' /\ TabsInv' /\ LockInv'
  <2>1. PICK base \in tabs[p].base : /\ stored' = {Outcome(base, tabs[p].answer)}
                                     /\ Over(p, {Outcome(base, tabs[p].answer)})
    BY <1>9 DEF Put
  <2>2. Given(Outcome(base, tabs[p].answer), events)
    BY <1>9, OutcomeGiven DEF Put
  <2>3. DocsInv'
    BY <1>3, <2>1, <2>2 DEF DocsInv, Option, Inv
  <2>4. Option({Outcome(base, tabs[p].answer)})
    BY DEF Option
  <2> QED
    BY <1>2, <1>3, <1>9, <2>1, <2>2, <2>3, <2>4, OverKeeps DEF Put, Busy
<1>10. ASSUME Fail(p) PROVE TabsInv' /\ LockInv'
  BY <1>1, <1>2, <1>3, <1>10, OverKeeps DEF Fail, Busy, TabOK
<1>11. Call(p, "open") \/ Call(p, "sync") \/ Call(p, "replace") \/ OpenView(p) \/ Ask(p)
         \/ Answer(p) \/ Replace(p) \/ Fail(p) => UNCHANGED stored
  BY DEF Call, OpenView, Ask, Answer, Replace, Fail
<1> QED
  BY <1>3, <1>4, <1>5, <1>6, <1>7, <1>8, <1>9, <1>10, <1>11 DEF Inv, Runs

\* Nor does the loss of what the browser stored.
LEMMA EvictKeeps == Inv /\ Evict => Inv'
<1> SUFFICES ASSUME Inv, Evict PROVE Inv'
  OBVIOUS
<1>1. /\ stored' = {} /\ events' = events + 1 /\ events \in Nat
      /\ UNCHANGED <<log, service, published, tabs, line, locks>>
  BY DEF Evict, Inv, ServedInv
<1>2. ServedInv'
  BY <1>1 DEF Inv, ServedInv, ElectedOK, ServiceOK
<1>3. \A doc : Given(doc, events) => Given(doc, events')
  BY <1>1 DEF Given
<1>4. DocsInv'
  BY <1>1, <1>3 DEF Inv, DocsInv, Option
<1>5. TabsInv'
  BY <1>1, TabLasts DEF Inv, TabsInv
<1>6. LockInv'
  BY <1>1 DEF Inv, LockInv, Busy
<1> QED
  BY <1>2, <1>4, <1>5, <1>6 DEF Inv

\* Nor does a stutter.
LEMMA StutterKeeps == Inv /\ UNCHANGED vars => Inv'
BY DEF Inv, vars, world, device, ServedInv, ElectedOK, ServiceOK, DocsInv, TabsInv, LockInv, Busy

\* What every state satisfies.
THEOREM Invariance == Spec => []Inv
<1>1. Inv /\ [Next]_vars => Inv'
  BY WorldKeeps, DeviceKeeps, EvictKeeps, StutterKeeps DEF Next, DeviceStep
<1> QED
  BY <1>1, InitHolds, PTL DEF Spec

-----------------------------------------------------------------------------
(* What a cursor is worth.                                                 *)

\* Until the next event that may change a side already served, the service knows
\* its own cursor again.
Kept(c, born) == c.h \in Nat /\ c.t \in Nat /\ (born >= upset => Trusted(c))
KeptDoc(doc) == \A c \in doc.cursor : Kept(c, doc.born)
KeptTab(tab) ==
  /\ \A doc \in tab.doc \union tab.base : KeptDoc(doc)
  /\ \A a \in tab.answer : /\ Kept(a.cursor, a.born)
                           /\ \A base \in tab.base :
                                a.ops.clear => base.cursor = {} \/ base.born < upset

TrackInv ==
  /\ now \in Nat /\ upset \in 0..events
  /\ \A doc \in stored \union {published} : KeptDoc(doc)
  /\ \A p \in Tabs : KeptTab(tabs[p])

\* An answer comes with a cursor the service knows, and is a reset only when it did
\* not know the one it was asked with (feed).
LEMMA FeedKeeps ==
  ASSUME Inv, TrackInv, NEW since
  PROVE  /\ Kept(Feed(since).cursor, Feed(since).born)
         /\ Feed(since).born = events
         /\ Feed(since).ops.clear => \A c \in since : ~Trusted(c)
<1> DEFINE new == Side(LogHead, now, service)
           olds == {Side(c.h, c.t, service) : c \in {k \in since : Trusted(k)}}
<1>1. Feed(since) = Respond(new, olds)
  BY DEF Feed
<1>2. LogHead \in Nat /\ now \in Nat
  BY DEF LogHead, Inv, ServedInv, ElectedOK, TrackInv
<1>3. Kept(Cursor(new, LogHead, now), events)
  <2>1. new = Side(LogHead, now, service)
    OBVIOUS
  <2> HIDE DEF new
  <2>2. Trusted(Cursor(new, LogHead, now))
    BY <1>2, <2>1 DEF Trusted, Cursor
  <2> QED
    BY <1>2, <2>2 DEF Kept, Cursor
<1> HIDE DEF new, olds
<1>4. Feed(since).cursor = Cursor(new, LogHead, now) /\ Feed(since).born = events
  BY <1>1 DEF Respond
<1>5. ASSUME NEW c \in since, Trusted(c) PROVE ~Feed(since).ops.clear
  <2>1. olds # {}
    BY <1>5 DEF olds
  <2>2. Feed(since).ops = Diff(CHOOSE old \in olds : TRUE, new)
    BY <1>1, <2>1 DEF Respond
  <2> QED
    BY <2>2 DEF Diff
<1> QED
  BY <1>3, <1>4, <1>5

\* Applied, an answer leaves its own cursor.
LEMMA ApplyTracks ==
  ASSUME NEW base, NEW a, Kept(a.cursor, a.born)
  PROVE  KeptDoc(Apply(base, a))
<1>1. PICK side : Apply(base, a) = Doc(side, {a.cursor}, a.born)
  BY Zenon DEF Apply
<1> QED
  BY <1>1 DEF KeptDoc, Doc

\* A row that merges nothing leaves every identity elected before.
LEMMA WriteGrows ==
  ASSUME Inv, NEW row \in Offers, Write(row), row.attr # "same_as"
  PROVE  Grows
<1>1. PICK rep \in Elections(row) : log' = Append(log, WithRep(row, rep))
  BY DEF Write
<1>2. rep = Rep(LogHead)
  BY DEF Elections
<1>3. PICK S : log \in Seq(S)
  BY DEF Inv, ServedInv, ElectedOK
<1> DEFINE new == WithRep(row, rep)
<1>4. new.rep = rep
  BY DEF WithRep
<1> HIDE DEF new
<1>5. log' = Append(log, new)
  BY <1>1 DEF new
<1>6. /\ LogHead \in Nat /\ LogHead' = LogHead + 1
      /\ \A i \in 1..LogHead : log'[i] = log[i]
      /\ log'[LogHead'] = new
  BY <1>3, <1>5 DEF LogHead
<1>7. Rep(LogHead)' = Rep(LogHead)
  BY <1>2, <1>4, <1>6 DEF Rep
<1>8. hard' = hard
  BY DEF Write
<1>9. LogHead <= LogHead'
  BY <1>6
<1> QED
  BY <1>6, <1>7, <1>8, <1>9, Zenon DEF Grows

\* So does no row at all.
LEMMA SameGrows ==
  ASSUME Inv, UNCHANGED <<log, hard>>
  PROVE  Grows
BY DEF Grows, Rep, LogHead, Inv, ServedInv, ElectedOK

\* A cursor known stays known while rows only come and time only passes.
LEMMA TrustedStays ==
  ASSUME Inv, TrackInv, Grows, UNCHANGED service, now' \in Nat, now <= now',
         NEW c, c.h \in Nat, c.t \in Nat, Trusted(c)
  PROVE  Trusted(c)'
<1>1. LogHead \in Nat /\ LogHead' \in Int /\ LogHead <= LogHead' /\ now \in Nat
  BY DEF Grows, LogHead, TrackInv
<1>2. c.h \in 0..LogHead /\ c.h <= LogHead'
  BY <1>1 DEF Trusted
<1>3. Side(c.h, c.t, service)' = Side(c.h, c.t, service)
  BY <1>2, SideStays
<1>4. c.t <= now => c.t <= now'
  BY <1>1
<1> QED
  BY <1>2, <1>3, <1>4 DEF Trusted

\* Whatever happens, a cursor is lost only to an event that may change its side.
LEMMA KeptStays ==
  ASSUME Inv, TrackInv, Next \/ UNCHANGED vars,
         NEW c, NEW born \in 0..events, Kept(c, born)
  PROVE  Kept(c, born)'
<1>1. events \in Nat /\ upset \in 0..events /\ now \in Nat
  BY DEF Inv, ServedInv, TrackInv
<1>2. CASE events' = events + 1 /\ upset' = events'
  BY <1>1, <1>2 DEF Kept
<1>3. CASE /\ Grows /\ UNCHANGED service /\ now' \in Nat /\ now <= now' /\ upset' = upset
  <2>1. Trusted(c) => Trusted(c)'
    BY <1>3, TrustedStays DEF Kept
  <2> QED
    BY <1>3, <2>1 DEF Kept
<1>4. CASE UNCHANGED <<log, hard, service, now, upset>>
  <2>1. Grows
    BY <1>4, SameGrows
  <2> QED
    BY <1>1, <1>3, <1>4, <2>1
<1>5. ASSUME NEW row \in Offers, Write(row) PROVE Kept(c, born)'
  <2>1. CASE row.attr = "same_as"
    BY <1>2, <1>5, <2>1 DEF Write, Happens
  <2>2. CASE row.attr # "same_as"
    <3>1. Grows
      BY <1>5, <2>2, WriteGrows
    <3> QED
      BY <1>1, <1>3, <1>5, <2>2, <3>1 DEF Write
  <2> QED
    BY <2>1, <2>2
<1>6. ASSUME NEW t \in 0..MaxTime, SetNow(t) PROVE Kept(c, born)'
  <2>1. t \in Nat /\ now' = t
    BY <1>6, ViewConstants DEF SetNow
  <2>2. CASE t < now
    BY <1>2, <1>6, <2>2 DEF SetNow, Happens
  <2>3. CASE ~(t < now)
    <3>1. Grows
      BY <1>6, SameGrows DEF SetNow
    <3> QED
      BY <1>1, <1>3, <1>6, <2>1, <2>3, <3>1 DEF SetNow
  <2> QED
    BY <2>2, <2>3
<1>7. ASSUME (\E i \in 1..LogHead : Judge(i)) \/ Restore \/ \E s \in Services : Rerun(s)
      PROVE  events' = events + 1 /\ upset' = events'
  BY <1>7 DEF Judge, Restore, Rerun, Happens
<1>8. Publish \/ DeviceStep \/ UNCHANGED vars => UNCHANGED <<log, hard, service, now, upset>>
  <2>1. UNCHANGED world => UNCHANGED <<log, hard, service, now, upset>>
    BY DEF world
  <2>2. DeviceStep => UNCHANGED world \/ Evict
    BY Zenon DEF DeviceStep, Runs, OpenView, Ask, Answer, Replace, Put, Fail, Call
  <2> QED
    BY <2>1, <2>2 DEF Publish, Evict, vars, world
<1> QED
  BY <1>2, <1>4, <1>5, <1>6, <1>7, <1>8 DEF Next, WorldStep

\* A document, or a call, that nobody touched is as well tracked as it was.
LEMMA TabKept ==
  ASSUME Inv, TrackInv, Next \/ UNCHANGED vars,
         upset' \in 0..events', upset <= upset'
  PROVE  /\ \A doc : Given(doc, events) /\ KeptDoc(doc) => KeptDoc(doc)'
         /\ \A tab : TabOK(tab, events) /\ KeptTab(tab) => KeptTab(tab)'
<1>1. events \in Nat /\ upset \in 0..events
  BY DEF Inv, ServedInv, TrackInv
<1>2. \A doc : Given(doc, events) /\ KeptDoc(doc) => KeptDoc(doc)'
  BY KeptStays DEF Given, KeptDoc
<1>3. ASSUME NEW tab, TabOK(tab, events), KeptTab(tab) PROVE KeptTab(tab)'
  <2>1. \A doc \in tab.doc \union tab.base : KeptDoc(doc)'
    BY <1>2, <1>3 DEF TabOK, KeptTab
  <2>2. \A a \in tab.answer : Kept(a.cursor, a.born)'
    BY <1>3, KeptStays DEF TabOK, KeptTab
  <2>3. ASSUME NEW a \in tab.answer, NEW base \in tab.base, a.ops.clear
        PROVE  base.cursor = {} \/ base.born < upset'
    <3>1. base.born \in Int
      BY <1>3 DEF TabOK, Given
    <3> QED
      BY <1>1, <1>3, <2>3, <3>1 DEF KeptTab
  <2> QED
    BY <2>1, <2>2, <2>3 DEF KeptTab
<1> QED
  BY <1>2, <1>3

\* The first view is the site's, and has no cursor.
LEMMA InitTracks == Init => TrackInv
<1> SUFFICES ASSUME Init PROVE TrackInv
  OBVIOUS
<1>1. EmptyDocument.cursor = {}
  <2>1. PICK side : EmptyDocument = Doc(side, {}, 0)
    BY Zenon DEF EmptyDocument
  <2> QED
    BY <2>1 DEF Doc
<1>2. KeptDoc(EmptyDocument)
  BY <1>1 DEF KeptDoc
<1>3. \A p \in Tabs : tabs[p] = Idle({})
  BY DEF Init
<1>4. KeptTab(Idle({}))
  BY DEF KeptTab, Idle, Page
<1> QED
  BY <1>2, <1>3, <1>4 DEF Init, TrackInv

\* What a call is about to put is as well tracked as what it holds.
LEMMA OutcomeKept ==
  ASSUME NEW tab, KeptTab(tab), NEW base \in tab.base
  PROVE  KeptDoc(Outcome(base, tab.answer))
<1>1. CASE tab.answer = {}
  BY <1>1 DEF KeptTab, Outcome
<1>2. CASE tab.answer # {}
  <2> DEFINE a == CHOOSE x \in tab.answer : TRUE
  <2>1. a \in tab.answer
    BY <1>2
  <2> HIDE DEF a
  <2>2. Kept(a.cursor, a.born)
    BY <2>1 DEF KeptTab
  <2>3. KeptDoc(Apply(base, a))
    BY <2>2, ApplyTracks
  <2> QED
    BY <1>2, <2>3 DEF Outcome, a
<1> QED
  BY <1>1, <1>2

\* A page's step, seen before anything of the world moves: what it holds next.
LEMMA StepKeeps ==
  ASSUME Inv, TrackInv, NEW p \in Tabs,
         Runs(p) \/ Fail(p) \/ \E op \in {"open", "sync", "replace"} : Call(p, op)
  PROVE  /\ \A doc \in stored' : KeptDoc(doc)
         /\ \A q \in Tabs : KeptTab(tabs'[q])
<1>1. /\ tabs = [q \in Tabs |-> tabs[q]]
      /\ KeptTab(tabs[p]) /\ TabOK(tabs[p], events)
      /\ \A doc \in stored \union {published} : KeptDoc(doc)
  BY DEF Inv, TabsInv, TrackInv
<1>2. ASSUME NEW tab, tabs' = [tabs EXCEPT ![p] = tab], KeptTab(tab)
      PROVE  \A q \in Tabs : KeptTab(tabs'[q])
  <2>1. \A q \in Tabs : tabs'[q] = IF q = p THEN tab ELSE tabs[q]
    BY <1>1, <1>2
  <2> QED
    BY <1>2, <2>1 DEF TrackInv
<1>3. ASSUME NEW doc, \A d \in doc : KeptDoc(d) PROVE KeptTab(Idle(doc))
  BY <1>3 DEF KeptTab, Idle, Page
<1>4. ASSUME NEW pc, NEW op, NEW base, \A d \in base : KeptDoc(d)
      PROVE  KeptTab(Page(pc, op, tabs[p].doc, base, {}))
  <2> DEFINE tab == Page(pc, op, tabs[p].doc, base, {})
  <2>1. tab.doc = tabs[p].doc /\ tab.base = base /\ tab.answer = {}
    BY DEF Page
  <2> HIDE DEF tab
  <2>2. KeptTab(tab)
    BY <1>1, <1>4, <2>1 DEF KeptTab
  <2> QED
    BY <2>2 DEF tab
<1>5. ASSUME NEW op \in {"open", "sync", "replace"}, Call(p, op)
      PROVE  UNCHANGED stored /\ \A q \in Tabs : KeptTab(tabs'[q])
  BY <1>2, <1>4, <1>5 DEF Call
<1>6. ASSUME OpenView(p)
      PROVE  UNCHANGED stored /\ \A q \in Tabs : KeptTab(tabs'[q])
  <2>1. CASE stored # {}
    BY <1>1, <1>2, <1>3, <1>6, <2>1 DEF OpenView, Over
  <2>2. CASE stored = {}
    BY <1>1, <1>2, <1>4, <1>6, <2>2 DEF OpenView
  <2> QED
    BY <1>6, <2>1, <2>2 DEF OpenView
<1>7. ASSUME Ask(p)
      PROVE  UNCHANGED stored /\ \A q \in Tabs : KeptTab(tabs'[q])
  <2> DEFINE base == IF stored # {} THEN stored ELSE tabs[p].doc
  <2>1. \A d \in base : KeptDoc(d)
    BY <1>1 DEF KeptTab
  <2> QED
    BY <1>2, <1>4, <1>7, <2>1 DEF Ask
<1>8. ASSUME Answer(p)
      PROVE  UNCHANGED stored /\ \A q \in Tabs : KeptTab(tabs'[q])
  <2>1. PICK base \in tabs[p].base :
          tabs' = [tabs EXCEPT ![p] = Page("putting", "sync", tabs[p].doc, tabs[p].base,
                                           {Feed(base.cursor)})]
    BY <1>8 DEF Answer
  <2> DEFINE a == Feed(base.cursor)
             tab == Page("putting", "sync", tabs[p].doc, tabs[p].base, {a})
  <2>2. tab.doc = tabs[p].doc /\ tab.base = tabs[p].base /\ tab.answer = {a}
    BY DEF Page
  <2>3. /\ Kept(a.cursor, a.born)
        /\ a.ops.clear => \A c \in base.cursor : ~Trusted(c)
    BY FeedKeeps
  <2>4. a.ops.clear => base.cursor = {} \/ base.born < upset
    <3>1. base.born \in Int /\ upset \in Int
      BY <1>1 DEF TabOK, Given, TrackInv
    <3>2. KeptDoc(base)
      BY <1>1 DEF KeptTab
    <3> QED
      BY <2>3, <3>1, <3>2 DEF KeptDoc, Kept
  <2>5. \A other \in tabs[p].base : other = base
    BY <1>1 DEF TabOK, Option
  <2> HIDE DEF tab, a
  <2>6. KeptTab(tab)
    BY <1>1, <2>2, <2>3, <2>4, <2>5 DEF KeptTab
  <2> QED
    BY <1>2, <1>8, <2>1, <2>6 DEF tab, a, Answer
<1>9. ASSUME Replace(p)
      PROVE  UNCHANGED stored /\ \A q \in Tabs : KeptTab(tabs'[q])
  BY <1>1, <1>2, <1>4, <1>9 DEF Replace
<1>10. ASSUME Put(p)
       PROVE  (\A doc \in stored' : KeptDoc(doc)) /\ \A q \in Tabs : KeptTab(tabs'[q])
  <2>1. PICK base \in tabs[p].base : /\ stored' = {Outcome(base, tabs[p].answer)}
                                     /\ Over(p, {Outcome(base, tabs[p].answer)})
    BY <1>10 DEF Put
  <2>2. KeptDoc(Outcome(base, tabs[p].answer))
    BY <1>1, OutcomeKept
  <2> QED
    BY <1>2, <1>3, <2>1, <2>2 DEF Over
<1>11. ASSUME Fail(p)
       PROVE  UNCHANGED stored /\ \A q \in Tabs : KeptTab(tabs'[q])
  BY <1>1, <1>2, <1>3, <1>11 DEF Fail, Over, KeptTab
<1> QED
  BY <1>1, <1>5, <1>6, <1>7, <1>8, <1>9, <1>10, <1>11 DEF Runs

\* The bounds of the history variables.
LEMMA UpsetStays ==
  ASSUME Inv, TrackInv, Next \/ UNCHANGED vars
  PROVE  /\ upset' \in 0..events' /\ upset <= upset' /\ now' \in Nat
         /\ UNCHANGED published \/ Publish
<1>1. events \in Nat /\ upset \in 0..events /\ now \in Nat
  BY DEF Inv, ServedInv, TrackInv
<1>2. CASE WorldStep
  <2>1. events' = events + 1 /\ upset' \in {upset, events'}
    BY <1>2 DEF WorldStep, Write, Judge, Restore, Publish, SetNow, Rerun, Happens
  <2>2. now' \in Nat
    BY <1>1, <1>2, ViewConstants DEF WorldStep, Write, Judge, Restore, Publish, SetNow, Rerun
  <2>3. UNCHANGED published \/ Publish
    BY <1>2 DEF WorldStep, Write, Judge, Restore, SetNow, Rerun
  <2> QED
    BY <1>1, <2>1, <2>2, <2>3
<1>3. CASE DeviceStep \/ UNCHANGED vars
  <2>1. DeviceStep => UNCHANGED world \/ Evict
    BY Zenon DEF DeviceStep, Runs, OpenView, Ask, Answer, Replace, Put, Fail, Call
  <2>2. UNCHANGED <<upset, now, published>> /\ events' \in {events, events + 1}
    BY <1>3, <2>1 DEF world, vars, Evict
  <2> QED
    BY <1>1, <2>2
<1> QED
  BY <1>2, <1>3 DEF Next

\* No step loses track.
LEMMA NextTracks == Inv /\ TrackInv /\ [Next]_vars => TrackInv'
<1> SUFFICES ASSUME Inv, TrackInv, Next \/ UNCHANGED vars PROVE TrackInv'
  OBVIOUS
<1>1. /\ upset' \in 0..events' /\ now' \in Nat
      /\ UNCHANGED published \/ Publish
  BY UpsetStays
<1>2. /\ \A doc : Given(doc, events) /\ KeptDoc(doc) => KeptDoc(doc)'
      /\ \A tab : TabOK(tab, events) /\ KeptTab(tab) => KeptTab(tab)'
  BY UpsetStays, TabKept
<1>3. KeptDoc(published') /\ Given(published', events)
  <2>1. CASE UNCHANGED published
    BY <2>1 DEF TrackInv, Inv, DocsInv
  <2>2. CASE Publish
    <3>1. Kept(Feed({}).cursor, Feed({}).born) /\ Feed({}).born = events
      BY FeedKeeps
    <3>2. KeptDoc(Export)
      BY <3>1, ApplyTracks DEF Export
    <3>3. Feed({}) = Respond(Side(LogHead, now, service), {})
      BY DEF Feed
    <3>4. Fits(EmptyDocument, Feed({}))
      BY <3>3, ResetFits DEF Inv, ServedInv
    <3>5. events \in Nat
      BY DEF Inv, ServedInv
    <3>6. Given(Export, events)
      BY <3>1, <3>4, <3>5, ApplyGives DEF Given, Export
    <3> QED
      BY <2>2, <3>2, <3>6 DEF Publish
  <2> QED
    BY <1>1, <2>1, <2>2
<1>4. /\ \A doc \in stored' : KeptDoc(doc) /\ Given(doc, events)
      /\ \A q \in Tabs : KeptTab(tabs'[q]) /\ TabOK(tabs'[q], events)
  <2>1. CASE UNCHANGED <<stored, tabs>>
    BY <2>1 DEF TrackInv, Inv, DocsInv, TabsInv
  <2>2. CASE Evict
    BY <2>2 DEF Evict, TrackInv, Inv, TabsInv
  <2>3. ASSUME NEW p \in Tabs,
               Runs(p) \/ Fail(p) \/ \E op \in {"open", "sync", "replace"} : Call(p, op)
        PROVE  /\ \A doc \in stored' : KeptDoc(doc) /\ Given(doc, events)
               /\ \A q \in Tabs : KeptTab(tabs'[q]) /\ TabOK(tabs'[q], events)
    <3>1. Inv'
      BY <2>3, DeviceKeeps
    <3>2. events' = events
      BY <2>3, Zenon DEF Runs, OpenView, Ask, Answer, Replace, Put, Fail, Call, world
    <3>3. /\ \A doc \in stored' : Given(doc, events)
          /\ \A q \in Tabs : TabOK(tabs'[q], events)
      BY <3>1, <3>2 DEF Inv, DocsInv, TabsInv
    <3> QED
      BY <2>3, <3>3, StepKeeps
  <2>4. WorldStep \/ UNCHANGED vars => UNCHANGED <<stored, tabs>>
    BY DEF WorldStep, Write, Judge, Restore, Publish, SetNow, Rerun, Happens, device, vars
  <2> QED
    BY <2>1, <2>2, <2>3, <2>4 DEF Next, DeviceStep
<1>5. (\A doc \in stored \union {published} : KeptDoc(doc))'
  BY <1>2, <1>3, <1>4
<1>6. (\A q \in Tabs : KeptTab(tabs[q]))'
  BY <1>2, <1>4
<1> QED
  BY <1>1, <1>5, <1>6 DEF TrackInv

-----------------------------------------------------------------------------
(* The theorems.                                                           *)

\* Whatever was merged, judged, restored or reconfigured since a document's cursor,
\* the feed's answer fits it and makes of it the export of its moment.
THEOREM SyncedIsExport == Spec => []AnswersApply
<1>1. Inv => AnswersApply
  BY DEF Inv, TabsInv, TabOK, AnswersApply, Fits
<1> QED
  BY <1>1, Invariance, PTL

\* Under the browser's locks no sync and no seed overwrites a newer document.
THEOREM LocksOrderWrites == Spec => []NoStaleOverwrite
<1>1. ASSUME Inv PROVE NoStaleOverwrite
  <2> SUFFICES ASSUME NEW p \in Tabs, NEW base \in tabs[p].base, NEW doc \in stored,
                      locks, tabs[p].pc = "putting", tabs[p].op # "replace"
               PROVE  Outcome(base, tabs[p].answer).born >= doc.born
    BY DEF NoStaleOverwrite
  <2>1. TabOK(tabs[p], events) /\ doc.born \in Int
    BY <1>1 DEF Inv, TabsInv, DocsInv, Given
  <2>2. tabs[p].op = "sync" /\ tabs[p].answer # {}
    BY <1>1, <2>1 DEF TabOK, Inv, LockInv
  <2> DEFINE a == CHOOSE x \in tabs[p].answer : TRUE
  <2>3. a \in tabs[p].answer
    BY <2>2
  <2>4. Outcome(base, tabs[p].answer) = Apply(base, a)
    BY <2>2 DEF Outcome
  <2> HIDE DEF a
  <2>5. doc.born <= a.born /\ a.born \in Int
    BY <1>1, <2>1, <2>3 DEF TabOK, Inv, LockInv
  <2>6. Apply(base, a).born = a.born
    BY <2>1, <2>3, ApplyGives DEF TabOK
  <2> QED
    BY <2>1, <2>4, <2>5, <2>6
<1> QED
  BY <1>1, Invariance, PTL

\* A document given since the last merge, verdict, restored backup, turn back or
\* change of key or mode is never answered with a reset, whatever rows came.
THEOREM ResetsHaveReason == Spec => []ResetsAreEarned
<1>1. Init => Inv /\ TrackInv
  BY InitHolds, InitTracks
<1>2. Inv /\ TrackInv /\ [Next]_vars => (Inv /\ TrackInv)'
  BY NextTracks, WorldKeeps, DeviceKeeps, EvictKeeps, StutterKeeps DEF Next, DeviceStep
<1>3. Inv /\ TrackInv => ResetsAreEarned
  BY DEF TrackInv, KeptTab, ResetsAreEarned
<1> QED
  BY <1>1, <1>2, <1>3, PTL DEF Spec

-----------------------------------------------------------------------------
(* What the player has not perceived.                                      *)

Perceived(r, seen, t) == r[1] = "id" => r[2] \in seen \/ IsPerson(r[2], LogHead, t)

\* A reference is the name of what may be named, or a handle, which is no id.
LEMMA RefIsOpaque ==
  ASSUME ServiceOK, NEW x, NEW seen, NEW places \in BOOLEAN, NEW t,
         NEW r \in Ref(x, seen, service.key, places, LogHead, t)
  PROVE  Perceived(r, seen, t) \/ (places /\ IsPlace(r[2], LogHead, t))
<1>1. \A k \in service.key : k # "id"
  BY ViewConstants DEF ServiceOK
<1>2. CASE r = Name(x) /\ (x \in seen \/ IsPerson(x, LogHead, t) \/ (places /\ IsPlace(x, LogHead, t)))
  BY <1>2 DEF Name, Perceived
<1>3. CASE \E k \in service.key : r = Handle(k, x)
  BY <1>1, <1>3 DEF Handle, Perceived
<1> QED
  BY <1>2, <1>3 DEF Ref

\* What is present stands in what the player knows, or in a handle.
LEMMA PresentIsOpaque ==
  ASSUME ServiceOK, NEW seen, NEW t, NEW k \in service.key,
         NEW entry \in Present(k, seen, LogHead, t)
  PROVE  Perceived(entry[2].in, seen, t)
<1>1. k # "id"
  BY ViewConstants DEF ServiceOK
<1>2. \A c, p : Perceived(PresentRecord(c, p, seen, k, LogHead, t).in, seen, t)
  BY <1>1 DEF PresentRecord, Name, Handle, Perceived
<1>3. ASSUME NEW found, NEW roots, NEW into,
             entry \in PresentIn(found, roots, into, seen, k, LogHead, t)
      PROVE  Perceived(entry[2].in, seen, t)
  <2> DEFINE Record(c) == PresentRecord(c, CHOOSE p \in roots \union found : <<p, c>> \in into,
                                        seen, k, LogHead, t)
  <2>1. PresentIn(found, roots, into, seen, k, LogHead, t) = {<<Handle(k, c), Record(c)>> : c \in found}
    BY DEF PresentIn
  <2>2. \A c : Perceived(Record(c).in, seen, t)
    BY <1>2
  <2> HIDE DEF Record
  <2> QED
    BY <1>3, <2>1, <2>2
<1> QED
  BY <1>3 DEF Present, PresentFrom

\* A person's record names what it may, or has a handle, or a literal.
LEMMA PersonIsOpaque ==
  ASSUME ServiceOK, NEW seen, NEW t, NEW attrs, NEW x
  PROVE  LET record == PersonRecord(x, seen, service.key, attrs, LogHead, t)
         IN /\ \A r \in record[1].in : Perceived(r, seen, t)
            /\ \A f \in record[2] : Perceived(f[2], seen, t) \/ IsPlace(f[2][2], LogHead, t)
<1>1. \A first, place : \A r \in Where(first, place, seen, service.key, LogHead, t).in :
        Perceived(r, seen, t)
  <2> SUFFICES ASSUME NEW first, NEW place,
                      NEW r \in Where(first, place, seen, service.key, LogHead, t).in
               PROVE  Perceived(r, seen, t)
    OBVIOUS
  <2>1. PICK p \in first : r \in Ref(p, seen, service.key, FALSE, LogHead, t)
    BY DEF Where
  <2> QED
    BY <2>1, RefIsOpaque
<1>2. ASSUME NEW v, NEW r \in FactOf(v, seen, service.key, LogHead, t)
      PROVE  Perceived(r, seen, t) \/ IsPlace(r[2], LogHead, t)
  <2>1. CASE v \in Ids
    <3>1. r \in Ref(Rep(LogHead)[v], seen, service.key, TRUE, LogHead, t)
      BY <2>1 DEF FactOf
    <3> QED
      BY <3>1, RefIsOpaque
  <2>2. CASE v \notin Ids
    BY <1>2, <2>2 DEF FactOf, Perceived
  <2> QED
    BY <2>1, <2>2
<1>3. ASSUME NEW f \in PersonFacts(x, seen, service.key, attrs, LogHead, t)
      PROVE  Perceived(f[2], seen, t) \/ IsPlace(f[2][2], LogHead, t)
  <2>1. PICK a, g : f \in {<<a, r>> : r \in FactOf(log[g.winner].v, seen, service.key, LogHead, t)}
    BY DEF PersonFacts
  <2>2. f[2] \in FactOf(log[g.winner].v, seen, service.key, LogHead, t)
    BY <2>1
  <2> QED
    BY <1>2, <2>2
<1>4. PersonRecord(x, seen, service.key, attrs, LogHead, t)
        = <<Where(Parent(x, LogHead, t), PlaceOf(x, LogHead, t), seen, service.key, LogHead, t),
            PersonFacts(x, seen, service.key, attrs, LogHead, t)>>
  BY DEF PersonRecord
<1> QED
  BY <1>1, <1>3, <1>4

\* No layer that comes from canon names a thing the player has not perceived: it is
\* known, a person, or a place in a person's facts, or it crosses by handle.
THEOREM UnseenStaysUnnamed == Spec => []UnperceivedStaysOpaque
<1>1. ASSUME ServiceOK PROVE UnperceivedStaysOpaque
  <2> DEFINE seen == Keys(Known(LogHead, now))
             side == Side(LogHead, now, service)
  <2>1. /\ side.of.known = Known(LogHead, now)
        /\ side.of.present = UNION {Present(k, seen, LogHead, now) : k \in service.key}
        /\ side.of.people = UNION {People(seen, service.key, attrs, LogHead, now) : attrs \in service.people}
    BY DEF Side, SideFrom, LayersFrom
  <2>2. seen = Keys(side.of.known)
    BY <2>1
  <2> HIDE DEF seen, side
  <2>3. ASSUME NEW entry \in side.of.present PROVE Perceived(entry[2].in, seen, now)
    <3>1. PICK k \in service.key : entry \in Present(k, seen, LogHead, now)
      BY <2>1
    <3> QED
      BY <1>1, <3>1, PresentIsOpaque
  <2>4. ASSUME NEW entry \in side.of.people
        PROVE  /\ \A r \in entry[2][1].in : Perceived(r, seen, now)
               /\ \A f \in entry[2][2] : Perceived(f[2], seen, now) \/ IsPlace(f[2][2], LogHead, now)
    <3>1. PICK attrs \in service.people : entry \in People(seen, service.key, attrs, LogHead, now)
      BY <2>1
    <3> DEFINE Record(x) == PersonRecord(x, seen, service.key, attrs, LogHead, now)
    <3>2. People(seen, service.key, attrs, LogHead, now)
            \subseteq {<<x, Record(x)>> : x \in CanonSubjects(LogHead, now)}
      BY DEF People
    <3>3. \A x : /\ \A r \in Record(x)[1].in : Perceived(r, seen, now)
                 /\ \A f \in Record(x)[2] : Perceived(f[2], seen, now) \/ IsPlace(f[2][2], LogHead, now)
      BY <1>1, PersonIsOpaque
    <3> HIDE DEF Record
    <3>4. PICK x \in CanonSubjects(LogHead, now) : entry = <<x, Record(x)>>
      BY <3>1, <3>2
    <3> QED
      BY <3>3, <3>4
  <2> QED
    BY <2>2, <2>3, <2>4 DEF UnperceivedStaysOpaque, Perceived, side
<1>2. Inv => ServiceOK
  BY DEF Inv, ServedInv
<1> QED
  BY <1>1, <1>2, Invariance, PTL
=============================================================================
