------------------------------- MODULE ViewFeed -------------------------------
(***************************************************************************)
(* The offline mirror (mirror.py) and the device's copy of it (view.mjs,   *)
(* store.mjs, lock.mjs).                                                   *)
(*                                                                         *)
(* The service answers an export of the player's view, and a feed: the     *)
(* changes since a cursor.  It keeps nothing of its clients: it recomputes *)
(* the side the cursor names at the cursor's log position and time, and    *)
(* answers the difference only if that side is, digest for digest, the one *)
(* the cursor was given with.  Merges and durability verdicts are the      *)
(* head's whatever position is read, the host restores backups and changes *)
(* its key: all of these must end in a reset, nothing else should.         *)
(*                                                                         *)
(* On the device several tabs share one stored document; each call runs    *)
(* under a lock where the browser has one.  The transport may fail, the    *)
(* browser may drop the store.                                             *)
(*                                                                         *)
(* An option is a set of at most one element.  HMAC and SHA-256 are ideal: *)
(* a handle is the pair of its key and id, a digest the side itself.       *)
(***************************************************************************)
EXTENDS LogReads

CONSTANTS
  OldLog,    \* the rows the world opens with
  Offers,    \* the rows the host may write
  Services,  \* how the host may run the service: its key and its people mode
  FirstService, \* how it runs it at first
  Tabs,      \* pages on the device
  MaxTime, MaxChain, MaxEvents, MaxCalls \* bounds

ASSUME ViewConstants ==
  /\ OldLog \in Seq({OldLog[i] : i \in DOMAIN OldLog})
  /\ \A i \in DOMAIN OldLog : Idempotent(OldLog[i].rep)
  /\ \A row \in Offers : row.attr = "same_as" => row.e \in Ids /\ row.v \in Ids
  /\ \A s \in Services : /\ \A k, l \in s.key : k = l /\ k # "id"
                         /\ \A a, b \in s.people : a = b
  /\ FirstService \in Services
  /\ MaxTime \in Nat /\ MaxChain \in Nat \ {0} /\ MaxEvents \in Nat /\ MaxCalls \in Nat

Layers == {"known", "present", "people"}

VARIABLES
  service,   \* the service running: [key, people]
  now,       \* the scene's time
  published, \* the view.json the site ships
  locks,     \* whether the browser has navigator.locks
  stored,    \* the document in the backend, an option
  tabs,      \* each page's view and the call it runs
  line,      \* the lock's queue, its holder first
  events,    \* history: what happened to the world so far
  upset,     \* history: the last event that may change a side already served
  calls      \* history: calls made on the device

world == <<log, hard, service, now, published, events, upset>>
device == <<stored, tabs, line, calls>>
vars == <<world, device, locks>>

-----------------------------------------------------------------------------
(* Reads of canon at log position h and time t.                            *)

\* _Reader.literal(): canon's value when it is known and a literal, an option.
LiteralOf(f) == IF KnownValue(f) /\ log[f.winner].v \notin Ids THEN {log[f.winner].v} ELSE {}
Literal(x, attr, h, t) == LiteralOf(Fold(x, attr, "canon", h, t))

OwnsFrame(x, h) == \E i \in 1..h : Visible(i, h) /\ log[i].frame = "own" /\ log[i].e = x

IsPerson(x, h, t) ==
  \/ \E m \in Closure(x, h) \union {x} : m \in PersonIds \/ OwnsFrame(m, h)
  \/ Literal(x, "kind", h, t) = {"person"}
IsPlace(x, h, t) ==
  Closure(x, h) \intersect PlaceIds # {} \/ Literal(x, "kind", h, t) = {"place"}

\* One step of contents(): the fold lands c in p, by the identities of now.
Holds(p, c, h, t) == Target(Fold(c, "in", "canon", h, t)) = {Now(p)}

\* _Reader._parent(), an option.
ParentOf(f, h) ==
  IF KnownValue(f) /\ log[f.winner].v \in Ids THEN {Rep(h)[log[f.winner].v]} ELSE {}
Parent(x, h, t) == ParentOf(Fold(x, "in", "canon", h, t), h)

-----------------------------------------------------------------------------
(* The three layers.                                                       *)

\* known(): what the player's own frame answers, key by key.
ViewRows(h, t) == VisibleRows("view", h, t)
KnownRecord(folds) ==
  [facts |-> {<<af[1], log[af[2].winner].v>> : af \in {k \in folds : KnownValue(k[2])}},
   conflicted |-> {af[1] : af \in {k \in folds : k[2].conflicted}}]
KnownOf(rows, h, t) ==
  {<<x, KnownRecord({<<log[i].attr, Fold(x, log[i].attr, "view", h, t)>> :
                       i \in {j \in rows : Rep(h)[log[j].e] = x}})>> :
     x \in {Rep(h)[log[i].e] : i \in rows}}
Known(h, t) == KnownOf(ViewRows(h, t), h, t)

\* How a thing crosses: by its id, or by its handle.
Name(x) == <<"id", x>>
Handle(key, x) == <<key, x>>

\* present(): what lies in the places the player knows, to any depth, through
\* nothing the player knows and through no person; `into` is what holds what.
Reached(unseen, roots, into) ==
  LET Closed(S) == \A c \in unseen : (\E p \in roots \union S : <<p, c>> \in into) => c \in S
  IN {c \in unseen : \A S \in SUBSET unseen : Closed(S) => c \in S}

\* declared_aspects(): the kinds the look is declared resolvable for.
Drawable(h) == {log[i].v : i \in {j \in 1..h : Visible(j, h) /\ log[j].attr = "resolvable_for"}}

\* A wrong form: the parent's id, whoever knows it.
PresentRecordNamed(c, p, seen, key, h, t) ==
  [in |-> Name(p), kind |-> Literal(c, "kind", h, t), look |-> {}]

PresentRecord(c, p, seen, key, h, t) ==
  [in |-> IF p \in seen THEN Name(p) ELSE Handle(key, p),
   kind |-> Literal(c, "kind", h, t),
   look |-> {v \in Literal(c, "look", h, t) :
               Literal(c, "kind", h, t) \intersect Drawable(h) # {}}]

NotPersons(S, h, t) == {x \in S : ~IsPerson(x, h, t)}
PresentIn(found, roots, into, seen, key, h, t) ==
  {<<Handle(key, c),
     PresentRecord(c, CHOOSE p \in roots \union found : <<p, c>> \in into, seen, key, h, t)>> :
     c \in found}
PresentFrom(roots, unseen, into, seen, key, h, t) ==
  PresentIn(Reached(unseen, roots, into), roots, into, seen, key, h, t)
Held(S, h, t) ==
  {<<px[1], Rep(h)[px[2]]>> : px \in {q \in S \X {Rep(LogHead)[y] : y \in Ids} :
                                       Holds(q[1], q[2], h, t)}}
Present(key, seen, h, t) ==
  PresentFrom(NotPersons(seen, h, t), NotPersons({Rep(h)[x] : x \in Ids} \ seen, h, t),
              Held({Rep(h)[x] : x \in Ids}, h, t), seen, key, h, t)

\* _ref(), an option.
Ref(x, seen, key, places, h, t) ==
  IF x \in seen \/ IsPerson(x, h, t) \/ (places /\ IsPlace(x, h, t)) THEN {Name(x)}
  ELSE {Handle(k, x) : k \in key}

\* _place_of(): the nearest place above a person, unless the chain turns back.
Nearest(up, at, person) ==
  IF at = {} \/ \E n \in 1..Min(at) : up[n] = {person} THEN {} ELSE up[Min(at)]
Climb(up, person, h, t) ==
  Nearest(up, {n \in 1..MaxChain : \E x \in up[n] : IsPlace(x, h, t)}, person)
Chain(parent, person) ==
  LET up[n \in 0..MaxChain] ==
        IF n = 0 THEN {person} ELSE UNION {parent[x] : x \in up[n - 1]}
  IN up
PlaceOf(person, h, t) ==
  Climb(Chain([x \in Ids |-> Parent(x, h, t)], person), person, h, t)

Where(first, place, seen, key, h, t) ==
  [place |-> place,
   in |-> IF first = place THEN {} ELSE UNION {Ref(p, seen, key, FALSE, h, t) : p \in first}]
FactOf(v, seen, key, h, t) ==
  IF v \in Ids THEN Ref(Rep(h)[v], seen, key, TRUE, h, t) ELSE {<<"lit", v>>}
PersonFacts(x, seen, key, attrs, h, t) ==
  UNION {UNION {{<<a, r>> : r \in FactOf(log[f.winner].v, seen, key, h, t)} :
                f \in {g \in {Fold(x, a, "canon", h, t)} : KnownValue(g)}} : a \in attrs}
PersonRecord(x, seen, key, attrs, h, t) ==
  <<Where(Parent(x, h, t), PlaceOf(x, h, t), seen, key, h, t),
    PersonFacts(x, seen, key, attrs, h, t)>>
Blank == <<[place |-> {}, in |-> {}], {}>>

\* people(): every person canon speaks of, and where they are.
CanonSubjects(h, t) ==
  {Rep(h)[log[i].e] : i \in {j \in VisibleRows("canon", h, t) :
                               log[j].e \in Ids /\ log[j].attr \notin {"same_as", "retracts"}}}
People(seen, key, attrs, h, t) ==
  {r \in {<<x, PersonRecord(x, seen, key, attrs, h, t)>> :
             x \in {y \in CanonSubjects(h, t) : IsPerson(y, h, t)}} : r[2] # Blank}

\* _build(): each layer is a set of entries <<key, value>>, empty when it is off.
Keys(layer) == {entry[1] : entry \in layer}
Each(f) == [known |-> f["known"], present |-> f["present"], people |-> f["people"]]
LayersFrom(known, seen, h, t, s) ==
  [known |-> known,
   present |-> UNION {Present(k, seen, h, t) : k \in s.key},
   people |-> UNION {People(seen, s.key, attrs, h, t) : attrs \in s.people}]
SideFrom(known, h, t, s) ==
  [on |-> {"known"} \union {"present" : k \in s.key} \union {"people" : a \in s.people},
   of |-> LayersFrom(known, Keys(known), h, t, s)]
Side(h, t, s) == SideFrom(Known(h, t), h, t, s)

-----------------------------------------------------------------------------
(* The feed.                                                               *)

\* A document: a side, and the cursor it came with; `born` is history.
Doc(side, cursor, born) == [side |-> side, cursor |-> cursor, born |-> born]
EmptyDocument ==
  Doc([on |-> {"known"}, of |-> Each([l \in Layers |-> {}])], {}, 0)

Cursor(side, h, t) == [key |-> service.key, people |-> service.people, h |-> h, t |-> t, d |-> side]

\* A wrong form: what the cursor says is taken at its word, digest or not.
TrustedAlways(c) == c.key = service.key /\ c.people = service.people /\ c.h <= LogHead

\* A wrong form: the old side is recomputed as of now.
TrustedAsOfNow(c) ==
  /\ c.key = service.key /\ c.people = service.people /\ c.h <= LogHead
  /\ Side(c.h, now, service) = c.d

\* The cursor is this service's, of the past, and what it names is still what was
\* served.
Trusted(c) ==
  /\ c.key = service.key /\ c.people = service.people /\ c.h <= LogHead
  /\ c.key # {} \/ c.t <= now
  /\ Side(c.h, c.t, service) = c.d

Reset(new) ==
  [clear |-> TRUE, reveal |-> {}, del |-> Each([l \in Layers |-> {}]), put |-> new.of]

\* _diff(): a handle whose thing the player came to know is revealed, not deleted.
Diff(old, new) ==
  LET revealed == {g \in Keys(old.of.present) : Rep(LogHead)[g[2]] \in Keys(new.of.known)}
      Gone(l) == Keys(old.of[l]) \ Keys(new.of[l])
  IN [clear |-> FALSE,
      reveal |-> {<<g, Rep(LogHead)[g[2]]>> : g \in revealed},
      del |-> Each([l \in Layers |-> Gone(l) \ (IF l = "present" THEN revealed ELSE {})]),
      put |-> Each([l \in Layers |-> new.of[l] \ old.of[l]])]

\* feed(since): the difference to the side recomputed for a trusted cursor.
Respond(new, olds) ==
  [ops |-> IF olds = {} THEN Reset(new) ELSE Diff(CHOOSE old \in olds : TRUE, new),
   on |-> new.on, cursor |-> Cursor(new, LogHead, now), born |-> events]
Feed(since) ==
  Respond(Side(LogHead, now, service),
          {Side(c.h, c.t, service) : c \in {k \in since : Trusted(k)}})

\* apply(): what it throws on, and what it makes of the document.
Applies(doc, answer) ==
  /\ answer.ops.clear \/ doc.side.on = answer.on
  /\ answer.ops.reveal = {} \/ "present" \in answer.on
  /\ \A l \in Layers \ answer.on :
       answer.ops.del[l] = {} /\ answer.ops.put[l] = {}

AfterOps(layer, gone, put) == {e \in layer : e[1] \notin gone \union Keys(put)} \union put
Apply(doc, answer) ==
  LET ops == answer.ops
      revealed == {r[1] : r \in ops.reveal}
      Before(l) == IF ops.clear THEN {} ELSE doc.side.of[l]
      Dropped(l) == ops.del[l] \union (IF l = "present" THEN revealed ELSE {})
  IN Doc([on |-> answer.on,
          of |-> Each([l \in Layers |-> AfterOps(Before(l), Dropped(l), ops.put[l])])],
         {answer.cursor}, answer.born)

\* export()
Export == Apply(EmptyDocument, Feed({}))

-----------------------------------------------------------------------------
(* The world and its host.                                                 *)

Happens == events < MaxEvents /\ events' = events + 1 /\ UNCHANGED <<device, locks>>

Write(row) ==
  /\ Happens
  /\ row.about <= LogHead
  /\ \A i \in 1..LogHead : WithRep(row, log[i].rep) # log[i]
  /\ \E rep \in Elections(row) : log' = Append(log, WithRep(row, rep))
  /\ upset' = IF row.attr = "same_as" THEN events' ELSE upset
  /\ UNCHANGED <<hard, service, now, published>>

\* The classifier's verdict of a row already written.
Judge(i) ==
  /\ Happens /\ i \notin hard /\ ~Ruled(i)
  /\ hard' = hard \union {i} /\ upset' = events'
  /\ UNCHANGED <<log, service, now, published>>

\* The host puts back the world file it kept.
Restore ==
  /\ Happens /\ <<log, hard>> # <<OldLog, {}>>
  /\ log' = OldLog /\ hard' = {} /\ upset' = events'
  /\ UNCHANGED <<service, now, published>>

\* The host sets the scene's time, forth or back.
SetNow(t) ==
  /\ Happens /\ t # now /\ now' = t
  /\ upset' = IF t < now THEN events' ELSE upset
  /\ UNCHANGED <<log, hard, service, published>>

\* The host runs the service again, with another key or people mode.
Rerun(s) ==
  /\ Happens /\ s # service /\ service' = s /\ upset' = events'
  /\ UNCHANGED <<log, hard, now, published>>

\* mirror.main(): the site ships a new view.json.
Publish ==
  /\ Happens /\ published' = Export
  /\ UNCHANGED <<log, hard, service, now, upset>>

-----------------------------------------------------------------------------
(* The device.                                                             *)

\* A page before openView() resolves has no document.
Page(pc, op, doc, base, answer) ==
  [pc |-> pc, op |-> op, doc |-> doc, base |-> base, answer |-> answer]
Idle(doc) == Page("idle", "none", doc, {}, {})

\* withLock(): a call takes its turn; without navigator.locks only the calls of
\* its own page are ahead of it.
Call(p, op) ==
  /\ tabs[p].pc = "idle" /\ calls < MaxCalls /\ calls' = calls + 1
  /\ (op = "open") = (tabs[p].doc = {})
  /\ tabs' = [tabs EXCEPT ![p] = Page("waiting", op, tabs[p].doc, {}, {})]
  /\ line' = IF locks THEN Append(line, p) ELSE line
  /\ UNCHANGED <<world, locks, stored>>

\* A wrong form: no call waits for another page's.
TurnAny(p) == TRUE

Turn(p) == locks => line # <<>> /\ line[1] = p

\* The call is over, well or not: the next in line has its turn.
Over(p, doc) ==
  /\ tabs' = [tabs EXCEPT ![p] = Idle(doc)]
  /\ line' = IF locks THEN Tail(line) ELSE line

\* A wrong form: a call that fails keeps the lock.
FailHolding(p) ==
  /\ tabs[p].pc \in {"asking", "putting"}
  /\ tabs' = [tabs EXCEPT ![p] = Idle(tabs[p].doc)]
  /\ UNCHANGED <<world, locks, stored, line, calls>>

\* openView(): what is stored, else the seed, which is put at once.
OpenView(p) ==
  /\ tabs[p].pc = "waiting" /\ tabs[p].op = "open" /\ Turn(p)
  /\ IF stored # {} THEN Over(p, stored)
     ELSE /\ tabs' = [tabs EXCEPT ![p] = Page("putting", "open", tabs[p].doc, {published}, {})]
          /\ UNCHANGED line
  /\ UNCHANGED <<world, locks, stored, calls>>

\* sync(): the document to carry on from is the stored one.
Ask(p) ==
  /\ tabs[p].pc = "waiting" /\ tabs[p].op = "sync" /\ Turn(p)
  /\ tabs' = [tabs EXCEPT ![p] = Page("asking", "sync", tabs[p].doc,
                                      IF stored # {} THEN stored ELSE tabs[p].doc, {})]
  /\ UNCHANGED <<world, locks, stored, line, calls>>

\* The service answers the cursor it was sent.
Answer(p) ==
  /\ tabs[p].pc = "asking"
  /\ \E base \in tabs[p].base :
       tabs' = [tabs EXCEPT ![p] = Page("putting", "sync", tabs[p].doc, tabs[p].base,
                                          {Feed(base.cursor)})]
  /\ UNCHANGED <<world, locks, stored, line, calls>>

\* replace(): the page downloaded a new view.json.
Replace(p) ==
  /\ tabs[p].pc = "waiting" /\ tabs[p].op = "replace" /\ Turn(p)
  /\ tabs' = [tabs EXCEPT ![p] = Page("putting", "replace", tabs[p].doc, {published}, {})]
  /\ UNCHANGED <<world, locks, stored, line, calls>>

\* What the call puts: the base itself, or the answer applied to it.
Outcome(base, answers) == IF answers = {} THEN base ELSE Apply(base, CHOOSE a \in answers : TRUE)

Put(p) ==
  /\ tabs[p].pc = "putting"
  /\ \E base \in tabs[p].base :
       LET next == Outcome(base, tabs[p].answer)
       IN stored' = {next} /\ Over(p, {next})
  /\ UNCHANGED <<world, locks, calls>>

\* The call fails, or the put does: nothing changed.
Fail(p) ==
  /\ tabs[p].pc \in {"asking", "putting"}
  /\ Over(p, tabs[p].doc)
  /\ UNCHANGED <<world, locks, stored, calls>>

\* The browser drops what the origin stored.
Evict ==
  /\ stored # {} /\ events < MaxEvents /\ events' = events + 1
  /\ stored' = {}
  /\ UNCHANGED <<log, hard, service, now, published, upset, locks, tabs, line, calls>>

-----------------------------------------------------------------------------
Init ==
  /\ log = OldLog /\ hard = {}
  /\ service = FirstService /\ now = 0 /\ published = EmptyDocument
  /\ locks \in BOOLEAN /\ stored = {}
  /\ tabs = [p \in Tabs |-> Idle({})] /\ line = <<>>
  /\ events = 0 /\ upset = 0 /\ calls = 0

WorldStep ==
  \/ \E row \in Offers : Write(row)
  \/ \E i \in 1..LogHead : Judge(i)
  \/ Restore \/ Publish
  \/ \E t \in 0..MaxTime : SetNow(t)
  \/ \E s \in Services : Rerun(s)
Runs(p) == OpenView(p) \/ Ask(p) \/ Answer(p) \/ Replace(p) \/ Put(p)
DeviceStep ==
  \/ \E p \in Tabs : Runs(p) \/ Fail(p) \/ \E op \in {"open", "sync", "replace"} : Call(p, op)
  \/ Evict
Next == WorldStep \/ DeviceStep

\* A call that has begun goes on: the page's own event loop, and the transport
\* answers or fails.
Spec == Init /\ [][Next]_vars /\ \A p \in Tabs : WF_vars(Fail(p) \/ Runs(p))

-----------------------------------------------------------------------------
(* What the mirror promises.                                               *)

\* An answer fits the document it was asked for and makes of it, op by op, the
\* export of the moment it was given: whatever was merged, judged, restored or
\* reconfigured since the document's cursor (mirror.feed, _diff, apply).
AnswersApply ==
  \A p \in Tabs : \A base \in tabs[p].base : \A a \in tabs[p].answer :
    Applies(base, a) /\ Apply(base, a).side = a.cursor.d

\* A reset has a reason: the rows a world gains never make the service lose track
\* of a document it gave (asserted_as_of in every read of _Reader).
ResetsAreEarned ==
  \A p \in Tabs : \A base \in tabs[p].base : \A a \in tabs[p].answer :
    a.ops.clear => base.cursor = {} \/ base.born < upset

\* Where the browser has locks, no sync and no seed puts back a document older
\* than the one another page stored meanwhile (store.mjs, withLock).
NoStaleOverwrite ==
  \A p \in Tabs : \A base \in tabs[p].base : \A doc \in stored :
    (locks /\ tabs[p].pc = "putting" /\ tabs[p].op # "replace")
      => Outcome(base, tabs[p].answer).born >= doc.born

\* What the player has not perceived crosses under its handle only: no id of a
\* thing that is neither known, nor a person, nor a place a person's record may
\* name, appears in the layers that come from canon (_record, _ref).
UnperceivedStaysOpaque ==
  \A side \in {Side(LogHead, now, service)} :
    LET Opaque(r) == r[1] = "id" => r[2] \in Keys(side.of.known) \/ IsPerson(r[2], LogHead, now)
    IN /\ \A entry \in side.of.present : Opaque(entry[2].in)
       /\ \A entry \in side.of.people :
            /\ \A r \in entry[2][1].in : Opaque(r)
            /\ \A f \in entry[2][2] : Opaque(f[2]) \/ IsPlace(f[2][2], LogHead, now)

\* A call that is made ends, whatever became of the calls ahead of it (withLock).
CallsEnd == \A p \in Tabs : tabs[p].pc # "idle" ~> tabs[p].pc = "idle"
=============================================================================
