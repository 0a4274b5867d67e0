--------------------------------- MODULE Build ---------------------------------
(***************************************************************************)
(* A world from its first row to a committed book: genesis and the physics *)
(* a world file carries (World.__init__), the build session of the         *)
(* porcelain, and the book builder: the registry and the plan, the pool    *)
(* that extracts chunks, the commit.                                       *)
(*                                                                         *)
(* Every row is its own transaction, so the process can die between any    *)
(* two; the host keeps what was extracted and commits it again.            *)
(*                                                                         *)
(* A position is the number of a sentence in the whole book.  An id, a     *)
(* build handle and a source are triples: a namespace, a name (its slug)   *)
(* and a number, 1 where the program writes none.  Chunks are stamped by   *)
(* their index and identities by their gate, as the defaults have it.  The *)
(* gate's own refusals are module Gate's; which verdict a row gets is      *)
(* module Classifier's.                                                    *)
(***************************************************************************)
EXTENDS Integers, Sequences, FiniteSets, SequencesExt

CONSTANTS
  Chapter,      \* the chapter of each sentence
  Text,         \* the names each sentence holds
  Breaks,       \* where a run of paragraphs under max_words begins
  Manifests,    \* what an author may submit
  Answers,      \* what the model may answer, by the first sentence of the chunk
  Fits,         \* <<surface, name>>: the surface is a token run of the name
  Descriptions, \* names that only describe
  Fixtures,     \* attributes the world takes for the host's `fixture` declaration
  Decided,      \* attributes whose facts a guardrail decides
  Policies,     \* what a world may be opened under
  Default,      \* the policy of a world that was told none
  MaxCrashes, MaxSessions \* bounds

Sentences == DOMAIN Chapter
Namespace == [person |-> "person", animal |-> "person", place |-> "place", object |-> "obj"]
Beings == {"person", "animal"}
NoId == <<"", "", 0>>
NoPolicy == "none"

ASSUME BuildConstants ==
  /\ Chapter \in Seq(Nat) /\ Text \in [Sentences -> SUBSET {f[1] : f \in Fits}]
  /\ Breaks \subseteq Sentences /\ 1 \in Breaks
  /\ \A s \in Sentences \ {1} : Chapter[s] # Chapter[s - 1] => s \in Breaks
  /\ Default \in Policies /\ NoPolicy \notin Policies /\ "fixture" \in Fixtures
  /\ MaxCrashes \in Nat /\ MaxSessions \in Nat

\* What every manifest that is taken has: types of the closed set, a name for each
\* entry, quotes that occur once, personas of its entries.
ASSUME ManifestsAreFormed ==
  \A m \in Manifests :
    /\ m.entries \in Seq(Range(m.entries)) /\ m.personas \in Seq(Range(m.personas))
    /\ \A e \in Range(m.entries) : e.type \in DOMAIN Namespace /\ e.anchor \in Sentences
    /\ \A p \in Range(m.personas) : p.of \in DOMAIN m.entries /\ {p.intro, p.reveal} \subseteq Sentences
    /\ IsFiniteSet(m.namesakes)

\* What every answer that parses has: finitely many lines and declarations, handles by
\* their number, a source that is a handle, a person's or a document's ("doc" stands
\* for any other), a cause among the ids, at most one time of the line's own.
ASSUME AnswersAreFormed ==
  /\ DOMAIN Answers = Sentences
  /\ \A out \in UNION {Answers[s] : s \in Sentences} :
       /\ IsFiniteSet(out.lines) /\ IsFiniteSet(out.decls)
       /\ \A d \in out.decls : d.handle[3] \in Nat /\ d.handle = <<"new", "", d.handle[3]>>
       /\ \A l \in out.lines :
            /\ l.source = NoId \/ l.source[1] \in {"new", "person", "doc"}
            /\ l.cause \in l.ids \union {NoId} /\ l.t \in BOOLEAN
            /\ \A v, w \in l.vf : v \in Int /\ v = w

VARIABLES
  manifest, \* what the author submitted
  registry, \* its identities, entries before personas
  plan,     \* the chunks
  asked,    \* how often each chunk that has not ended was asked again
  results,  \* what each chunk that has ended gave
  log,      \* the rows of the world
  judged,   \* those with a verdict
  due,      \* those the call that runs has written and is still to judge
  proc,     \* "down", "genesis" or "up"
  policy,   \* what the open world runs under
  inline,   \* whether an item is judged when it has landed
  session,  \* the build session: open, the head it began at, the toggle before it
  todo,     \* the rows still to be written by the call that runs
  batch,    \* the chunks the host commits
  done,     \* a commit has returned
  spent,    \* crashes and sessions so far
  loose     \* rows that no pass is to judge any more

book == <<manifest, registry, plan, asked, results>>
world == <<log, judged, due, proc, policy, inline, session, todo, batch, done, spent, loose>>
vars == <<book, world>>

-----------------------------------------------------------------------------
(* The registry and the plan.                                              *)

\* The allocator: the first number of the name that is free.
Mint(taken, space, name) ==
  <<space, name, CHOOSE n \in 1..(Cardinality(taken) + 1) :
      /\ <<space, name, n>> \notin taken
      /\ \A m \in 1..(n - 1) : <<space, name, m>> \in taken>>

Gate(anchor, names) == Min({anchor} \union {s \in Sentences : Text[s] \intersect names # {}})

\* Manifest.problems(): a persona must come in, then be revealed, and not before its
\* entry; its name is its own; a being is no fixture.
Problematic(m) ==
  \/ \E p \in Range(m.personas) :
       \/ p.reveal <= p.intro
       \/ p.reveal < Gate(m.entries[p.of].anchor, Range(m.entries[p.of].names))
       \/ \E e \in Range(m.entries) : p.name \in Range(e.names)
  \/ \E e \in Range(m.entries) : e.fixture /\ e.type \in Beings
  \/ \E pair \in m.namesakes : ~(pair \subseteq DOMAIN m.entries)

TakenIn(idents) == {i.id : i \in Range(idents)}
AddEntry(idents, e) ==
  Append(idents, [id |-> Mint(TakenIn(idents), Namespace[e.type], e.names[1]), type |-> e.type,
                  names |-> e.names, gate |-> Gate(e.anchor, Range(e.names)),
                  fixture |-> e.fixture, entry |-> NoId, reveal |-> 0])
AddPersona(idents, p) ==
  Append(idents, [id |-> Mint(TakenIn(idents), Namespace[idents[p.of].type], p.name),
                  type |-> idents[p.of].type, names |-> <<p.name>>,
                  gate |-> Gate(p.intro, {p.name}), fixture |-> FALSE,
                  entry |-> idents[p.of].id, reveal |-> p.reveal])
\* Entries first, then personas, as the author has them.
Registering(m) ==
  LET taken[n \in 0..(Len(m.entries) + Len(m.personas))] ==
        IF n = 0 THEN <<>>
        ELSE IF n \in DOMAIN m.entries THEN AddEntry(taken[n - 1], m.entries[n])
        ELSE AddPersona(taken[n - 1], m.personas[n - Len(m.entries)])
  IN taken
FromManifest(m) == Registering(m)[Len(m.entries) + Len(m.personas)]

Idents == Range(registry)
Minted == {i.id : i \in Idents}
Ident(x) == CHOOSE i \in Idents : i.id = x
Personas == {i \in Idents : i.entry # NoId}

\* The members of a set by rank, and numbers by size.
Ranked(S, rank) ==
  [n \in 1..Cardinality(S) |->
     CHOOSE x \in S : Cardinality({y \in S : rank[y] <= rank[x]}) = n]
InOrder(S) == Ranked(S, [x \in S |-> x])

\* A wrong form: a reveal falls in the midst of its chunk.
PlanFromUncut(idents) ==
  LET starts == InOrder(Breaks)
  IN [k \in DOMAIN starts |->
        [first |-> starts[k],
         last |-> IF k = Len(starts) THEN Len(Chapter) ELSE starts[k + 1] - 1]]

\* plan(): a reveal opens a chunk.
PlanFrom(idents) ==
  LET starts == InOrder(Breaks \union ({i.reveal : i \in Range(idents)} \ {0}))
  IN [k \in DOMAIN starts |->
        [first |-> starts[k],
         last |-> IF k = Len(starts) THEN Len(Chapter) ELSE starts[k + 1] - 1]]

-----------------------------------------------------------------------------
(* Extraction: what a chunk's answer is read as.                           *)

IsHandle(x) == x[1] = "new"
Handles(l) == {x \in l.ids \union {l.source} : IsHandle(x)}
Size(c) == c.last - c.first + 1
Absolute(c, l) == c.first + l.cites - 1
Candidates(c) == {i \in Idents : i.gate <= c.last}
LocalGate(c, x) == Max({1, Ident(x).gate - c.first + 1})

\* source_problem(): an identity is gated like any other, a person must be one, and
\* anything else is a document.
SourceStands(x, at) == IF x \in Minted THEN Ident(x).gate <= at ELSE x[1] # "person"

\* grammar_problem() and the citation: a model's line writes no `fixture`.
Parses(c, l) == l.attribute # "fixture" /\ l.cites \in 1..Size(c)

\* A wrong form: the gate is compared as the chapter numbers it.
LineStandsUnshifted(c, l) ==
  /\ Parses(c, l)
  /\ \A x \in {y \in l.ids : ~IsHandle(y)} :
       x \in {i.id : i \in Candidates(c)} /\ l.cites >= Ident(x).gate
  /\ IsHandle(l.source) \/ SourceStands(l.source, Absolute(c, l))

LineStands(c, l) ==
  /\ Parses(c, l)
  /\ \A x \in {y \in l.ids : ~IsHandle(y)} :
       x \in {i.id : i \in Candidates(c)} /\ l.cites >= LocalGate(c, x)
  /\ IsHandle(l.source) \/ SourceStands(l.source, Absolute(c, l))
PickStands(c, d) ==
  /\ d.among \subseteq {i.id : i \in Candidates(c)}
  /\ Cardinality(d.among) >= 2 /\ d.choice \in d.among

\* A handle that is used must be declared once; what is refused takes its lines with
\* it, and a declaration no kept line uses is dropped.
Failed == [error |-> TRUE, items |-> {}, decls |-> {}]
Twice(decls) == \E d, e \in decls : d # e /\ d.handle = e.handle
Used(items) == UNION {Handles(l) : l \in items}
Keep(items, decls) ==
  [error |-> FALSE, items |-> items, decls |-> {d \in decls : d.handle \in Used(items)}]
ReadOutput(c, out) ==
  LET wrong == {d \in out.decls : d.pick /\ ~PickStands(c, d)}
      lost == {d.handle : d \in wrong}
  IN IF \/ Twice(out.decls)
        \/ ~(Used({l \in out.lines : Parses(c, l)}) \subseteq {d.handle : d \in out.decls})
     THEN Failed
     ELSE Keep({l \in out.lines : LineStands(c, l) /\ Handles(l) \intersect lost = {}},
               out.decls \ wrong)

\* _extract_chunk(): an answer that refuses its chunk is asked for once more, a call
\* that raises is not.
End(k, r) ==
  /\ results' = [j \in {k} \union DOMAIN results |-> IF j = k THEN r ELSE results[j]]
  /\ asked' = [asked EXCEPT ![k] = 0]
  /\ UNCHANGED <<manifest, registry, plan>>
Pending(k) == k \in DOMAIN plan \ DOMAIN results
Answer(k, out) ==
  /\ Pending(k)
  /\ \E r \in {ReadOutput(plan[k], out)} :
       \/ /\ r.error /\ asked[k] = 0
          /\ asked' = [asked EXCEPT ![k] = 1]
          /\ UNCHANGED <<manifest, registry, plan, results>>
       \/ ~(r.error /\ asked[k] = 0) /\ End(k, r)
  /\ UNCHANGED world
CallFails(k) == Pending(k) /\ End(k, Failed) /\ UNCHANGED world

-----------------------------------------------------------------------------
(* Commit: what it accepts.                                                *)

\* _check_item(): `fixture` by any name of the world's is the host's to declare.
ItemAccepted(c, l) ==
  /\ l.attribute \notin Fixtures
  /\ l.cites \in 1..Size(c)
  /\ \A x \in {y \in l.ids : ~IsHandle(y)} : x \in Minted /\ Ident(x).gate <= Absolute(c, l)
  /\ IsHandle(l.source) \/ SourceStands(l.source, Absolute(c, l))
DeclAccepted(c, d) ==
  d.pick => /\ Cardinality(d.among) >= 2 /\ d.choice \in d.among
            /\ \A x \in d.among : x \in Minted /\ Ident(x).gate <= c.last
ResultAccepted(c, r) ==
  /\ ~r.error /\ ~Twice(r.decls)
  /\ \A l \in r.items : ItemAccepted(c, l)
  /\ \A d \in r.decls : DeclAccepted(c, d)
  /\ Used(r.items) = {d.handle : d \in r.decls}

\* _gate_chunk(): the committed chunk that holds the gate, or the first after it.
GateChunks(S, at) == {k \in S : plan[k].last >= at}
Accepted(S) ==
  /\ S # {}
  /\ \A k \in S : ResultAccepted(plan[k], results[k])
  /\ \A i \in Idents : GateChunks(S, i.gate) # {}

GateChunk(S, at) == Min(GateChunks(S, at))

-----------------------------------------------------------------------------
(* Commit: what it writes, in order.                                       *)

Thing(what, n, type, name) == <<what, n, type, name>>
Nothing == Thing("", 0, "", "")
Put(kind, ids, at, thing, pos) ==
  [kind |-> kind, ids |-> ids, at |-> at, thing |-> thing, pos |-> pos]
IdentityRows(x, at, thing) ==
  <<Put("shape", {x}, at, thing, 0), Put("name", {x}, at, thing, 0)>>

OfEntry(k, S) ==
  IdentityRows(registry[k].id, GateChunk(S, registry[k].gate), Thing("manifest", k, "", ""))
    \o (IF registry[k].fixture
        THEN <<Put("fixture", {registry[k].id}, GateChunk(S, registry[k].gate), Nothing, 0)>>
        ELSE <<>>)
ManifestRows(S) == FlattenSeq([k \in DOMAIN registry |-> OfEntry(k, S)])

\* An unknown type is taken for a person.
CoerceType(type) == IF type \in DOMAIN Namespace THEN type ELSE "person"

\* A wrong form: what was told of one name is told of it whatever its type.
SlotOfAnyType(k, d) ==
  IF d.pick THEN Thing("pick", <<k, d.handle[3]>>, "", d.name)
  ELSE Thing("proper", 0, "", d.name)

\* What a declaration stands for: a proper name is one thing of its type throughout,
\* a description one within its chapter, a pick one of its own.
SlotOf(k, d) ==
  IF d.pick THEN Thing("pick", <<k, d.handle[3]>>, "", d.name)
  ELSE IF d.name \in Descriptions
    THEN Thing("described", Chapter[plan[k].first], CoerceType(d.type), d.name)
  ELSE Thing("proper", 0, CoerceType(d.type), d.name)

\* resolve(): who of those gated by then, and of that type, has a name the surface is
\* a run of.
Resolve(surface, at, type) ==
  {i.id : i \in {j \in Idents : /\ j.gate <= at /\ j.type = type
                                /\ \E n \in Range(j.names) : <<surface, n>> \in Fits}}

\* _mention_shape(): nothing, when the candidates are beings and other things.
Shaped(among) ==
  LET types == {Ident(x).type : x \in among} IN Cardinality(types) = 1 \/ types \subseteq Beings

Given(a, slot) == {g \in a.given : g.slot = slot}
NewId(a, d, slot) ==
  IF Given(a, slot) # {} THEN (CHOOSE g \in Given(a, slot) : TRUE).id
  ELSE Mint(a.taken, IF d.pick THEN "mention" ELSE Namespace[CoerceType(d.type)], d.name)

\* A description told again in a later chapter may be the latest such one.
Earlier(a, slot) ==
  LET before == {g \in a.given : /\ g.slot[1] = "described" /\ slot[1] = "described"
                                 /\ <<g.slot[3], g.slot[4]>> = <<slot[3], slot[4]>>
                                 /\ g.slot[2] < slot[2]}
  IN {g.id : g \in {b \in before : \A o \in before : o.slot[2] <= b.slot[2]}}
MayBe(a, k, d, slot) ==
  IF d.pick THEN {d.choice}
  ELSE (IF Given(a, slot) = {} THEN Earlier(a, slot) ELSE {})
         \union Resolve(d.name, plan[k].last, CoerceType(d.type))
\* What is told of for the first time is given its shape and its name, a pick its shape.
FirstRows(a, k, d, slot, x) ==
  IF Given(a, slot) # {} \/ (d.pick /\ ~Shaped(d.among)) THEN <<>>
  ELSE IF d.pick THEN <<Put("shape", {x}, k, slot, 0)>>
  ELSE IdentityRows(x, k, slot)
Record(a, k, d, slot, x) ==
  [taken |-> a.taken \union {x},
   given |-> a.given \union {[slot |-> slot, id |-> x]},
   handles |-> a.handles \union {[chunk |-> k, handle |-> d.handle, id |-> x]},
   proposed |-> a.proposed \union {<<x, y>> : y \in MayBe(a, k, d, slot) \ {x}},
   rows |-> a.rows \o FirstRows(a, k, d, slot, x)]
AllocateIn(a, k, d, slot) == Record(a, k, d, slot, NewId(a, d, slot))
Allocate(a, decl) == AllocateIn(a, decl.chunk, decl.of, SlotOf(decl.chunk, decl.of))
DeclaredIn(k) ==
  LET decls == Ranked(results[k].decls, [d \in results[k].decls |-> d.handle[3]])
  IN [n \in DOMAIN decls |-> [chunk |-> k, of |-> decls[n]]]
Declared(S) == FlattenSeq([n \in 1..Cardinality(S) |-> DeclaredIn(InOrder(S)[n])])

\* What the allocator has given after each declaration.
Unallocated == [taken |-> Minted, given |-> {}, handles |-> {}, proposed |-> {}, rows |-> <<>>]
Allocating(decls, none) ==
  LET after[n \in 0..Len(decls)] == IF n = 0 THEN none ELSE Allocate(after[n - 1], decls[n])
  IN after
Allocation(S) == Allocating(Declared(S), Unallocated)[Len(Declared(S))]

Replaced(x, k, handles) ==
  IF IsHandle(x) THEN (CHOOSE h \in handles : h.chunk = k /\ h.handle = x).id ELSE x
\* Who dates a line's fact: the line itself, for all time or by a time of its own, or
\* the chunk it was read from.
Dated(l) == IF l.t THEN "always" ELSE IF l.vf # {} THEN "line" ELSE "chunk"
TimeOf(l, k) ==
  CASE Dated(l) = "always" -> 0
    [] Dated(l) = "line" -> CHOOSE v \in l.vf : TRUE
    [] Dated(l) = "chunk" -> k
ItemOf(l, k) == Thing(Dated(l), k, "", l.attribute)
\* A fact's ids are all that its item names.
FactRow(l, k, handles) ==
  Put("fact", {Replaced(x, k, handles) : x \in (l.ids \union {l.source}) \ {NoId}},
      TimeOf(l, k), ItemOf(l, k), Absolute(plan[k], l))
SideRows(kind, x, l, k, handles) ==
  IF x = NoId THEN <<>>
  ELSE <<Put(kind, {Replaced(x, k, handles)}, 0, ItemOf(l, k), Absolute(plan[k], l))>>
ItemRows(l, k, handles) ==
  <<FactRow(l, k, handles)>> \o SideRows("source", l.source, l, k, handles)
    \o SideRows("caused_by", l.cause, l, k, handles)
ChunkRows(k, handles) ==
  FlattenSeq([m \in 1..Cardinality(results[k].items) |->
    ItemRows(SetToSeq(results[k].items)[m], k, handles)])
FactRows(S, handles) ==
  FlattenSeq([n \in 1..Cardinality(S) |-> ChunkRows(InOrder(S)[n], handles)])
ProposalRows(proposed) ==
  FlattenSeq([n \in 1..Cardinality(proposed) |->
    LET ids == Range(SetToSeq(proposed)[n])
    IN <<Put("maybe_same_as", ids, 0, Nothing, 0), Put("evidence", ids, 0, Nothing, 0)>>])

\* The only link of a persona to its entry, dated by its reveal, if that chunk is here.
RevealRows(S) ==
  FlattenSeq([n \in DOMAIN registry |->
    LET i == registry[n]
        at == {k \in S : i.reveal \in plan[k].first..plan[k].last}
    IN IF i \notin Personas \/ at = {} THEN <<>>
       ELSE <<Put("aka", {i.id, i.entry}, Min(at), Nothing, i.reveal),
              Put("aka_evidence", {i.id, i.entry}, 0, Nothing, i.reveal)>>])
NamesakeRows ==
  FlattenSeq([n \in 1..Cardinality(manifest.namesakes) |->
    <<Put("distinct_from", {registry[k].id : k \in SetToSeq(manifest.namesakes)[n]}, 0, Nothing, 0)>>])
Told(S, a) ==
  ManifestRows(S) \o a.rows \o FactRows(S, a.handles) \o ProposalRows(a.proposed)
    \o RevealRows(S) \o NamesakeRows

\* A wrong form: a registry whose own allocator moves on mints other ids next time.
WritesMovedOn(S) ==
  Told(S, Allocating(Declared(S),
            [Unallocated EXCEPT !.taken = @ \union UNION {row.ids : row \in Range(log)}])
          [Len(Declared(S))])

Writes(S) == Told(S, Allocation(S))

-----------------------------------------------------------------------------
(* A world opens, runs a call at a time, and may die at any row.           *)

Idle == proc = "up" /\ todo = <<>> /\ due = {}
NoSession == [open |-> FALSE, since |-> 0, prev |-> TRUE]

Physics == {i \in DOMAIN log : log[i].kind = "physics"}
Stored == IF Physics = {} THEN NoPolicy ELSE log[Min(Physics)].thing[4]
PhysicsRow(p) == Put("physics", {}, 0, Thing("physics", 0, "", p), 0)
Charter == <<Put("charter", {}, 0, Thing("charter", 1, "", ""), 0),
             Put("charter", {}, 0, Thing("charter", 2, "", ""), 0)>>

\* A wrong form: what the world records is checked and then not used.
EffectiveAsked(p) == IF p # NoPolicy THEN p ELSE Default

\* What the world records, else what the host names.
Effective(p) == IF Stored # NoPolicy THEN Stored ELSE IF p # NoPolicy THEN p ELSE Default

\* World(): a world at head 0 is given its charter and its physics; one without
\* physics is given what its host names; another policy than its own is refused.
Open(p) ==
  /\ proc = "down" /\ DOMAIN results = DOMAIN plan
  /\ Stored = NoPolicy \/ p \in {NoPolicy, Stored}
  /\ policy' = Effective(p)
  /\ todo' = IF log = <<>> THEN Charter \o <<PhysicsRow(Effective(p))>>
             ELSE IF Stored = NoPolicy /\ p # NoPolicy THEN <<PhysicsRow(p)>> ELSE <<>>
  /\ inline' = (log # <<>>)
  /\ proc' = IF todo' = <<>> THEN "up" ELSE "genesis"
  /\ session' = NoSession
  /\ UNCHANGED book /\ UNCHANGED <<log, judged, due, batch, done, spent, loose>>

\* The charter is written whole before any of it is judged, then the physics row.
Found ==
  /\ proc = "genesis" /\ todo # <<>> /\ due = {}
  /\ log' = Append(log, Head(todo))
  /\ todo' = Tail(todo)
  /\ inline' = ~(\E r \in Range(Tail(todo)) : r.kind = "charter")
  /\ due' = IF inline THEN {Len(log')} ELSE IF inline' THEN DOMAIN log' ELSE {}
  /\ UNCHANGED book /\ UNCHANGED <<judged, proc, policy, session, batch, done, spent, loose>>

Unsettled == IF session.open THEN (session.since + 1)..Len(log) ELSE {}
Down ==
  /\ proc' = "down" /\ todo' = <<>> /\ due' = {} /\ session' = NoSession /\ inline' = TRUE
  /\ UNCHANGED book /\ UNCHANGED <<log, judged, policy, batch, done>>
Crash ==
  /\ proc # "down" /\ spent.crashes < MaxCrashes
  /\ spent' = [spent EXCEPT !.crashes = @ + 1]
  /\ loose' = loose \union Unsettled \union due
                   \union (IF proc = "genesis" THEN DOMAIN log \ judged ELSE {})
  /\ Down
Close == Idle /\ loose' = loose \union Unsettled /\ Down /\ UNCHANGED spent

BeginBuild ==
  /\ Idle /\ ~session.open /\ spent.sessions < MaxSessions
  /\ session' = [open |-> TRUE, since |-> Len(log), prev |-> inline]
  /\ inline' = FALSE
  /\ spent' = [spent EXCEPT !.sessions = @ + 1]
  /\ UNCHANGED book /\ UNCHANGED <<log, judged, due, proc, policy, todo, batch, done, loose>>

\* A wrong form: the range of the session's rows ends before its last.
SealedShort(scope) ==
  (IF scope = "all" THEN DOMAIN log ELSE (session.since + 1)..(Len(log) - 1)) \ judged

\* seal_build(): one pass, over the session's rows or the whole log.
Sealed(scope) == (IF scope = "all" THEN DOMAIN log ELSE (session.since + 1)..Len(log)) \ judged
EndSession ==
  /\ Idle /\ session.open
  /\ inline' = session.prev /\ session' = NoSession
  /\ UNCHANGED book /\ UNCHANGED <<log, due, proc, policy, todo, batch, done, spent>>
SealBuild(scope) == EndSession /\ judged' = judged \union Sealed(scope) /\ UNCHANGED loose
SealRaises(scope) ==
  /\ Sealed(scope) # {}
  /\ \E n \in {Min(Sealed(scope)), Max(Sealed(scope))} : \* a bound: at its first row or its last
       judged' = judged \union {i \in Sealed(scope) : i < n}
  /\ loose' = loose \union (Unsettled \ judged')
  /\ EndSession
AbortBuild == EndSession /\ loose' = loose \union Unsettled /\ UNCHANGED judged

\* The chunks the host commits stay the same when it has to commit again.
Commit(S) ==
  /\ Idle /\ ~done /\ batch \in {{}, S}
  /\ Accepted(S)
  /\ todo' = Writes(S)
  /\ batch' = S
  /\ UNCHANGED book
  /\ UNCHANGED <<log, judged, due, proc, policy, inline, session, done, spent, loose>>

\* correlate() and reject() write nothing when the pair already stands so.
Stands(row) == \E r \in Range(log) : r.kind = row.kind /\ r.ids = row.ids
Noop(row) == row.kind \in {"aka", "distinct_from"} /\ Stands(row)
Written == IF Noop(Head(todo)) THEN log ELSE Append(log, Head(todo))
Left == IF Noop(Head(todo)) /\ Head(todo).kind = "aka" THEN Tail(Tail(todo)) ELSE Tail(todo)

\* What is judged: inline, the main row of an item, when its side rows have landed; in a
\* session, whatever a guardrail decides, when the call of the gate ends.  correlate()
\* and reject() judge nothing.
SideKinds == {"source", "caused_by"}
MainKinds == {"shape", "name", "fixture", "fact", "maybe_same_as", "evidence"}
Guarded(row) ==
  row.kind \in MainKinds \union SideKinds /\ (row.kind = "fact" => row.thing[4] \in Decided)
Awaits(row) == IF inline THEN row.kind \in MainKinds ELSE Guarded(row)
OneCall(row, next) ==
  \/ {row.kind, next.kind} \subseteq {"fact"} \union SideKinds /\ row.thing[2] = next.thing[2]
  \/ {row.kind, next.kind} \subseteq {"shape", "name"} /\ row.ids = next.ids
Continues(next) == IF inline THEN next.kind \in SideKinds ELSE OneCall(log[Max(due)], next)

WriteRow ==
  /\ proc = "up" /\ todo # <<>> /\ (due # {} => Continues(Head(todo)))
  /\ log' = Written
  /\ todo' = Left
  /\ due' = due \union (IF Awaits(Head(todo)) THEN {Len(Written)} ELSE {})
  /\ loose' = loose \union (IF inline /\ ~Awaits(Head(todo))
                           THEN DOMAIN Written \ DOMAIN log ELSE {})
  /\ done' = (Left = <<>> /\ due' = {})
  /\ UNCHANGED book /\ UNCHANGED <<judged, proc, policy, inline, session, batch, spent>>

\* A verdict is a commit of its own, after the item, the call or the charter it is due to.
Judge ==
  /\ due # {} /\ (todo # <<>> => ~Continues(Head(todo)))
  /\ judged' = judged \union {Min(due)}
  /\ due' = due \ {Min(due)}
  /\ LET over == todo = <<>> /\ due' = {}
     IN proc' = (IF over THEN "up" ELSE proc) /\ done' = (done \/ (over /\ proc = "up"))
  /\ UNCHANGED book /\ UNCHANGED <<log, policy, inline, session, todo, batch, spent, loose>>

Init ==
  /\ \E m \in {n \in Manifests : ~Problematic(n)} :
       /\ manifest = m /\ registry = FromManifest(m)
       /\ plan = PlanFrom(FromManifest(m))
  /\ asked = [k \in DOMAIN plan |-> 0] /\ results = <<>>
  /\ log = <<>> /\ judged = {} /\ due = {} /\ proc = "down" /\ policy = Default /\ inline = TRUE
  /\ session = NoSession /\ todo = <<>> /\ batch = {} /\ done = FALSE
  /\ spent = [crashes |-> 0, sessions |-> 0] /\ loose = {}

Next ==
  \/ \E k \in DOMAIN plan : CallFails(k) \/ \E out \in Answers[plan[k].first] : Answer(k, out)
  \/ (\E p \in Policies \union {NoPolicy} : Open(p)) \/ Found \/ Crash \/ Close
  \/ BeginBuild \/ AbortBuild
  \/ \E scope \in {"session", "all"} : SealBuild(scope) \/ SealRaises(scope)
  \/ (\E S \in SUBSET DOMAIN plan : DOMAIN results = DOMAIN plan /\ Commit(S)) \/ WriteRow \/ Judge
Spec == Init /\ [][Next]_vars

-----------------------------------------------------------------------------
(* What a build promises.                                                  *)

\* Commit accepts exactly what extraction keeps (commit.py, "exactly extract's
\* language"), save what this world takes for a fixture, which extraction cannot know:
\* of every line the model can write the two checks say the same but for that, though
\* one numbers sentences in the chunk and the other in the chapter; of the results that
\* extraction passes those with such an item are refused and no other; and no fact of
\* the world is a fixture (_check_item, grammar_problem).
LanguagesAgree ==
  /\ log = <<>> => \A k \in DOMAIN plan :
       \A l \in UNION {UNION {out.lines : out \in Answers[s]} : s \in DOMAIN Answers} :
         ItemAccepted(plan[k], l) <=> LineStands(plan[k], l) /\ l.attribute \notin Fixtures
  /\ \A k \in DOMAIN results :
       results[k].error \/ (ResultAccepted(plan[k], results[k])
                             <=> \A l \in results[k].items : l.attribute \notin Fixtures)
  /\ \A row \in Range(log) : row.kind = "fact" => row.thing[4] \notin Fixtures

FactsAt == {n \in DOMAIN log : log[n].kind = "fact"}
DatedByBuild(row) == row.kind = "fact" /\ row.thing[1] = "chunk"

\* A fact names nothing the world does not know by then: what it is about has its shape
\* on an earlier row, and valid no later than the fact unless the line itself dates it
\* (`t`, `vf=`), wherever the build was cut short (commit, steps 0 to 3).
KnownWhenNamed ==
  \A n \in FactsAt :
    \A x \in {y \in log[n].ids : y[1] \notin {"mention", "doc"}} :
      \E m \in 1..(n - 1) :
        /\ log[m].kind = "shape" /\ log[m].ids = {x}
        /\ DatedByBuild(log[n]) => log[m].at <= log[n].at

\* A reader who stands before a reveal is not told of it: the link of a persona and its
\* entry is dated after every fact the build dates of the text before the reveal and no
\* later than any such fact after it (plan, commit step 6).
RevealsStayHidden ==
  \A link \in {row \in Range(log) : row.kind = "aka"} :
    \A fact \in {row \in Range(log) : DatedByBuild(row)} :
      fact.pos >= link.pos <=> fact.at >= link.at

\* The times a commit gives its rows tell the text in order: a thing is known before it
\* is spoken of, and a persona's secret kept until it is told.
TimesTellTheText == KnownWhenNamed /\ RevealsStayHidden

\* What the text means by two declarations: the same thing, or two.
SameThing(j, d, k, e) ==
  IF d.pick \/ e.pick THEN j = k /\ d = e
  ELSE /\ d.name = e.name /\ CoerceType(d.type) = CoerceType(e.type)
       /\ d.name \in Descriptions => Chapter[plan[j].first] = Chapter[plan[k].first]
OneIdEach(handles) ==
  \A g, h \in handles :
    /\ g.id \notin Minted
    /\ \E d \in results[g.chunk].decls, e \in results[h.chunk].decls :
         /\ d.handle = g.handle /\ e.handle = h.handle
         /\ g.id = h.id <=> SameThing(g.chunk, d, h.chunk, e)
IdentityRowsWritten == {row \in Range(log) : row.kind \in {"shape", "name"}}

\* No two things of a build share an id and none has two: a name is one thing of its
\* type throughout, a description within its chapter, a pick on its own, and none is an
\* entry of the manifest, however often the commit was begun (allocator).
OneIdPerThing ==
  /\ todo # <<>> /\ proc = "up" => OneIdEach(Allocation(batch).handles)
  /\ \A r, q \in IdentityRowsWritten : r.ids = q.ids <=> r.thing = q.thing

BuildRows == {row \in Range(log) : row.kind \notin {"charter", "physics"}}

\* A commit that was cut short and begun again leaves what one uninterrupted commit
\* leaves, save that a link may lack its evidence when the process died between the two
\* (commit, correlate).
RetriedIsWhole ==
  done => /\ BuildRows \subseteq Range(Writes(batch))
          /\ \A row \in Range(Writes(batch)) \ BuildRows :
               row.kind = "aka_evidence" /\ spent.crashes > 0

\* A world runs under the physics it records, there is one such row, and a world that
\* has none died in its genesis (World.__init__).
PhysicsHold ==
  /\ Cardinality(Physics) <= 1
  /\ proc = "up" => IF Physics = {} THEN policy = Default /\ spent.crashes > 0 ELSE policy = Stored

\* A row goes without a verdict only while its item or its session goes on, because that
\* was cut short or ended without its pass, or because it is a side row or a link written
\* outside any session: where nothing died and no session was opened every main row of an
\* item that ended has one.  No ended session leaves later items unjudged (the gate,
\* World.__init__, begin_build, seal_build, abort_build, World.close).
UnjudgedAreLoose ==
  proc = "up" =>
    /\ DOMAIN log \ judged \subseteq loose \union Unsettled \union due
    /\ inline = ~session.open
    /\ spent.crashes + spent.sessions = 0 =>
         \A i \in DOMAIN log \ (judged \union due) :
           log[i].kind \notin MainKinds \union {"charter", "physics"}
=============================================================================
