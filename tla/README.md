# A verification project for pattern-buffer

pattern-buffer keeps a world as one append-only log of assertions in one SQLite
file and computes everything else from it. This directory holds TLA+ models of
the parts of it whose correctness depends on an order of steps or on a sequence
of legal calls, TLC configurations that check them, and TLAPS proofs about nine
of them. Paths below are relative to the repository root unless they name a
`.tla` or `.cfg` file. `PROJECT.json` maps every definition to the lines it
models.

To check one model: `tlc -config PatternBuffer.cfg MCPatternBuffer.tla`. To
check the proofs: `tlapm PatternBufferProofs.tla`.

## 1. The system

| Component | State it keeps | Operations | Talks to |
|---|---|---|---|
| **PatternBuffer** (`buffer.py`) | the SQLite file and the connection's open transaction; in memory the tracked head `_head`, `_log_version`, the unit flags, `_poisoned`, the last seen `data_version` | `append`, `atomic_unit`, the commit/rollback facade, `head`, `visible`, `close` | everything; sidecar tables commit through its facade |
| **IngestPipeline** (`ingest.py`), **semantics** (`semantics.py`) | the scene cursor, the alias map, the attributes the host's default was asked for; declarations are rows | `ingest`, `ingest_structured`, `commit_set`: authority, refusals, aliases, inverses, first-use declarations, roles, cycles, moved coordinates | the log, identity, classifier |
| **Classifier** (`classify.py`) | the `durability` table and a memo of it | verdicts one by one, in batches, by rules, injected; promotion of habits; rebuild | the model; the sidecar commit |
| **IdentityRegistry** (`identity.py`) | closures cached by `log_version` over `same_as`, `distinct_from`, `aka`, designations | merge, settle apart, proposals, reconcile, `canonical` | the log |
| **Fold** (`indexes/fold.py`, `indexes/_core.py`, `tmaint.py`) | nothing: a read over rows, verdicts and the identity closure | `fold_key`, conflicts, corroboration, `open_conflicts`, `retract` | the log, classifier, identity |
| **Walks** (`indexes/walks.py`, `routes.py`, `neighborhood.py`, `knowledge.py`, `events.py`) | nothing: reads over folds and looked-up rows | `locate`, `contents`, `composition`, `features`, `path`, `route`, `neighborhood`, `who_knows`, event records | fold, identity |
| **Resolver** (`thunks.py`, `World.resolve`) | nothing of its own: thunks, invented rows and `resolved_by` markers in the log | `resolve`, plant-and-force, invention, the perceived resolve with its mirror | the model; the log; the gate |
| **World, build sessions, book builder** (`__init__.py`, `porcelain.py`, `build/`) | the policy, the inline toggle, the open session; the registry and plan of a book | genesis, begin/seal/abort, plan, extract, commit | the gate, the classifier, the model |
| **WorldService** (`service.py`) | `_world`, the job and read queues, each job's state under a lock, the published and the held snapshot | host: `attach`, `pump`, `detach`; reader thread; clients: `resolve`, `record`, reads | the World (owner thread only), snapshots (reader) |
| **Mirror** (`mirror.py`, `view.mjs`, `store.mjs`, `lock.mjs`) | nothing at the service; at the device one stored document with its signed cursor, shared by tabs | `export`, `feed` since a cursor, apply; `openView`, `sync`, `replace` | fold, identity |
| **Record queue** (`queue.mjs`, `lock.mjs`, `transport.mjs`, `idb.mjs`) | the stored FIFO an origin's tabs share | `openQueue`, `add`, `flush`, drops | the service, over HTTP |
| **Projector** (`project.py`, `frame_diff`) | nothing: a scope's rows under a lens, cut to a budget | `materialize`, `situation`, `what_happened`, `establishing_set`, `frame_diff` | fold, walks |
| **Refer and bind** (`refer.py`, `bind.py`, `names.py`) | nothing of their own: learned words are rows | `refer`, `bind` | the model; identity, walks; `refer` writes `learned_alias` rows outside the gate |
| **Porcelain**, **MCP**, **dump** ... | see `PROJECT.json`, which lists all 27 components | | |

The rest of the tree (evaluations, recorded results, example worlds, prose) is
measurement and data.

**How they interact.** One host thread owns a World; SQLite refuses another.
Within that thread nothing is concurrent, and what goes wrong goes wrong by
failure, by order, or because *another connection* writes the file. Around it
the service adds a reader thread and client threads that meet the owner through
two queues, a lock per job and a lock over two snapshot fields. Beyond that a
browser adds tabs that share one stored queue and one stored view, and a network
that loses, delays and repeats. Everything the model callable says enters
through the resolver, the gate, the classifier or the book builder.

**What is hard in it, and what makes each part correct**

- *The log.* SQLite rolls back the file and never the Python attributes; a
  commit outside a unit may fail and leave its row pending; a ROLLBACK may fail;
  a thread may be interrupted between a COMMIT and the note that it landed;
  another connection may commit between the check and the statement it protects.
  Correct: sets are all-or-none, a set's answer is true for ever, a row number
  names one row, no derived cache serves a row that was rolled back.
- *The gate.* An item is several rows, each a commit; declarations arrive one
  axis at a time and by three ways; a call's items depend on each other; memory
  must come back from the log after a crash. Correct: declarations never
  contradict each other and precede their data, containment has no cycle, a
  person's kind is a role, a movement told in prose takes the scene's time.
- *The classifier.* Verdicts come late, in part, wrong or twice, and are rolled
  back. Correct: a guess never makes permanent or erases, and a verdict is the
  one its row's own position calls for.
- *Identity.* Merges, separations, correlations and proposals are rows in any
  order, each verb writes several, and a retraction may take back the row that
  another rests on. Correct: what was decided apart stays apart through every
  chain of merges, a thing is served under the name its host gave it, and what
  is torn is listed.
- *The fold and the walks.* Rows, sources, retractions, verdicts and merges
  arrive in any order, and the walks look rows up by routes the fold does not
  take. Correct: assumptions and disagreeing sources change nothing silently,
  the past reads the same for ever, what lies in a thing is what is located in
  it, a clear route is a way, a neighborhood is what lies near.
- *Projections, words and turns.* A budget cuts, an event matters for what it
  caused, two frames are compared; a word is learned in two commits and must be
  an answer and no name; a turn is bound at its own time in a log that knows what
  comes later. Correct: nothing that stands is cut, the world at rest is the one
  before the plot, a lesson answers the question it came from, an id is minted
  once and met again.
- *The resolver.* Invention is several rows and a model call; each may fail.
  Correct: a thunk answers one thing for ever and a failure leaves no
  half-planted placeholder.
- *Genesis, sessions, books.* Every row is a commit of its own, and a book's
  commit may be cut short anywhere and run again. Correct: one id per thing and
  one thing per id, the rerun leaves what one run leaves, the recorded physics
  are the ones that run, commit refuses nothing that extraction lets pass but what
  this world takes for a fixture, rows without a verdict are only those of a call
  or a session that was cut short, side rows and links.
- *The service.* A client times out just as the pump takes its job; the host
  swaps Worlds while calls are on their way; a snapshot is retired while it is
  read. Correct: a caller told "deferred" never writes, no read uses a closed
  snapshot, none leaks, everybody is answered, the host gets its thread back.
- *The mirror.* The service keeps nothing of its clients and recomputes their
  past from a log whose merges and verdicts are the head's. Correct: an answer
  applied to the document it was asked for is the export; a reset has a reason;
  a tab never puts back an older document; what was not perceived stays opaque.
- *The queue.* Two tabs read and put one FIFO with awaits in between, requests
  outlive the flush that sent them, tabs close anywhere. Correct: no call is
  lost, none overtakes one queued before it, an add never waits for the network.

`PROJECT.json` lists the hazards line by line. Met while reading and not in
that list: the classifier's memo of a verdict is keyed on this connection's own
changes, so a verdict another connection stores is not seen (`classify.py:369`);
without `navigator.locks` two tabs have no common lock (`lock.mjs`), which the
code says and the queue's run excludes; a request that arrives after a later
flush sent the same call again re-applies an old write (`queue.mjs:180`); an
as-of read after a merge uses today's closure, as documented; a second set that
fails in its setup phase may find `unit_committed` of the set before it
(`buffer.py:871`); after another connection commits, a derived view that is
already warm is served without the second-writer check, though `SecondWriter`
(`buffer.py:98`) says that later operations raise; a world whose process died
before its charter's first rows is reopened with the default policy when the
host names none (`__init__.py:187`); an id whose words are all titles is not met
by them once it is suffixed (`king_2` reads as `2`, `names.py:50`); and `adjudicate_deferred` is called
idempotent (`identity.py:1244`, `docs/LEXICON.md:93`), yet a merge widens the
names of a thing: of "Ann Brook", "Brook Cole" and "Ann Brook Cole", with the
first two proposed and the last two proposed, one call merges the last two and
the next call the first.

## 2. The modules

```
WorldLog            what the file promises: an append-only set, sets in one step
  ^ implemented by
PatternBuffer       connection, transaction, head, caches, unit of work, crashes
                                                         PatternBufferProofs
Gate                what one call of items makes of the log and of memory
                                                         GateProofs
Classifier          verdicts beside the rows             ModelProofs
Identity            which ids name one thing
Fold                what a key serves                    FoldProofs
Resolver            thunks over a log with a unit of work ModelProofs
LogReads            rows, closures and folds as the modules below see them
  Walks             the reads that walk
    Projector       a scope's rows under a lens
    Refer           expressions, and the words learned for them
      Bind          a turn's mentions (with Projector)
  ViewFeed          export, feed and the device's copy   ViewFeedProofs
Build               genesis, sessions, the book builder  BuildProofs
WorldService        owner, reader and client threads     CallProofs
RecordQueue         tabs, locks, requests                CallProofs
```

Each has an `MC` module that gives TLC a small instance, and a `.cfg`.
`Numbers` holds the lemmas about numbers that several proofs cite: a nonempty
set of them has a least, a bounded one a greatest, an induction over them by
the least counterexample, and what a sequence of which only that much is known
becomes when another, or one element, is put behind it.

The models meet at their interfaces: `Gate`, `Resolver` and `Classifier` use a
unit of work that holds or reverts, which is what `PatternBuffer` shows of
`atomic_unit`; `WorldService` takes a job's effect to be one commit to the
World's log, which is what `WorldLog` promises of a set; `RecordQueue` takes the
service's answers from `WorldService`'s outcomes, including "refused" for a job
that never ran; `Fold`, `Walks` and `ViewFeed` read a log whose rows have unique
numbers in order, take the closure as something that is elected and verdicts as
something that arrives, which is what `Identity` and `Classifier` provide;
`Build` appends what `Gate` lets in.

A definition headed "A wrong form:" is a plausible bug in the definition it
precedes. It is not part of `Next`; `PROJECT.json` names, for each property, the
wrong form that breaks it.

### PatternBuffer

| In the model | In `buffer.py` |
|---|---|
| `file`, `staged`, `tx`, `moved` | committed rows; rows of this connection's transaction; `conn.in_transaction` and whether it holds a lock; `PRAGMA data_version` against `_data_version` |
| `head`, `logVersion`, `unitOpen`, `unitCommitted`, `precall`, `poisoned` | the attributes of those names |
| `cache` | any view keyed on `log_version` and head (identity's closures, indexes) |
| `call`, `pc`, `next` | the Python stack: which call runs and where it stands |
| `BeginAppend` .. `CommitRow`, `CommitRowFails` | `append`, `_insert`, `_commit_or_defer` |
| `UnitBegin` .. `UnitPoisons` | `atomic_unit` and `run_unit`/`commit_set` over it |
| `GatedCommit`, `GatedRollback` | the facade sidecars commit through |
| `OutsideCommit`, `Crash`, `Close`, `Open` | the world around it |

A statement that can be overtaken by another connection is two steps, so the
window between the `data_version` check and the INSERT exists in the model. The
failures of COMMIT and ROLLBACK are named: `busy` (the row stays pending),
`lost` (SQLite itself rolls back), `rollback` (ROLLBACK raises), `interrupted`
(the COMMIT landed, Python did not note it). Row contents are left out except the
row a retraction names. Left out: read filters, dump replay with its explicit
numbers, sealing.

### Gate

The state is the log (`rows`), the closure (`canon`), the gate's memory
(`aliases`, `asked`), the scene cursor and the call that runs. A call is a
sequence of items; `Take` is one item through `_ingest_item`, from canonical
spelling to its side rows, and `Outcome` gives its one fate: a receipt, an
exception, or rows. `Written` is every row in order: the declaration of first
use, the main row or the rows a declaration stands for, the side rows. `Fail(k)`
and `Crash(k)` cut an item after its k-th row; a plain call keeps them, an atomic
one restores what was at its start, memory included (`Restore`). `MovedPass` is
`_apply_moved_coordinate_pass`, which changes the items before any is taken.
`Reopen` rebuilds memory from the log as `IngestPipeline.__init__` does. Left
out: extraction's prompt and parsing, number formats, classification (module
Classifier), what the side rows say, two of them (`derived_by` of an inferred kind
row and, in an observing world, `learned_at_wallclock`), and a call's own retraction of a merge,
which is Identity's. The registry elects either id of a merge. The declarations
of first use are written in the order the code writes them, arity and family
before the fold policy, and a failure may stop them anywhere.

### Classifier

`Guardrails` and `Rules` are the code's, in the order it asks them; `JudgeOne`
and `JudgeBatch` are what is stored for an answer, which may be anything the
model can say or nothing at all (`Silent`). `Store` judges rows one commit after
another, and the process may die between two: every action offers a first part
of its rows (`Prefixes`). `memo` is dropped when its key moves. `Promote` is
`promote_accruals`, `Rebuild` empties the sidecar and judges from nothing.
Confidence has the four levels the code's two floors tell apart. `told` exempts
from `VerdictsHold` what `set()` injected and the habits promoted before they
were ever judged.

### Identity

State is the log alone. An operator that stands for a read takes the log it
reads, so a read as of an earlier row is the same operator on a prefix.
`Closure`, `Group` and `Resolve` are `closure`, `correlation_set` and
`resolve`; `Honoured` is `_honoured_designations`; `Mergeable` is
`_auto_verdict = "merge"`; `MergeRows`, `RepointRows`, `Confirm`, `Reject`,
`Correlate`, `Reconcile`, `Adjudicate` and `Item` give the rows a verb, or the
gate for a raw identity item, appends to the log it finds. An action appends
them: all, or a first part of them when the process dies in the call (each row
is a commit of its own). `from` and `said` are history: where the last call
began, and which ids an author called distinct before the gate replaced them by
their representatives.

An id is a number in the order of the id strings, a name is a model of its text:
its words, and whether it is a name or a description. Left out: valid time
(every decision here ignores it), evidence rows, declared contradictions of
other attributes, names equal to a kind, `retype` and typing slips. Kinds are
literals other than "person": a person's second kind is stored as a role, which
is another attribute. Rows that would close a containment circle are refused by
the gate and not offered here.

### Fold

State is what reads depend on: `log`, `verdict` (the classifier's sidecar, which
may arrive at any time after its row), `canon` (the closure). `FoldKey(x, s)` is
`fold_key` of `x` as of log position `s`, under the five declarations (by class,
containment, last write, set valued, accrue); `Listed` is membership in
`open_conflicts`, which counts rows by another route; `Corroboration` is the
count a read reports. `told` records, before every row, what each position
answered. `FoldKey` was also compared with the program itself: 12,000 reachable
states of the model were replayed through the real `World` and 75,148 as-of
reads of it compared with the model's, without a difference. Left out: valid-time
bounds and intervals, EVENT verdicts, several frames, the confidence score's
arithmetic, exact decimals.

### LogReads, Walks

`LogReads` is what a read without sources needs: visibility at a log position
and a time, the closure after each row (`rep`), a fold by class. `Walks` adds
the lookups and the walks over it: `Locate` and `Composition` climb, `Contents`
and `Features` look rows up by value and ask the fold, `RouteIn` looks for a
way of clear portals first and else answers the way there is, flagged, as
`route` does; `Neighborhood` is the breadth-first walk with its fanout, its
protected edges and its budget; `WhoKnows`, `Record`, `Participation` and
`Causes` read frames and events. The actions write rows and verdicts; each
property is about every time and frame at the last log positions. Left out: reads with
no bound on time, set-valued keys, `aggregate`'s arithmetic (whose values it
rolls up is `Members`), former passages, event payloads, `incoming_refs`.
Salience is a constant ranking.

### Projector, Refer, Bind

Three modules over `Walks`. `Projector` keeps nothing: `Materialize` is the lens
of that name over `Scope`; `Situation` is the floor of what stands and the
latest live events beside it; `ToBudget` is the spine and then the most salient
rows; `Established` asks for what each key said of its own accord, in the
containment of the world at rest; `FrameDiff` is the porcelain verb. Left out:
the sheet, quantities, habits, pinned rows, the correlated union of frames, the
defaults of a kind.

`Refer` is the cascade as a sequence of stages, the first with an answer being
the answer. `Ask` is the one call that writes: the model maps a miss onto a
thing of the scene, the word's row and its receipt are two commits, and the
process may die between them. `taught` is the last lesson, for the properties. A
model that errs writes nothing and is left out. A text is a model value;
`ref_norm` and the stripping of a determiner are functions of it.

`Bind` decides each raw id of a turn: `ById` if the log ever had it, else
`ByWords`. `Play` is the host that binds a turn and writes what was admitted;
the binding itself writes nothing. `minted` records what turns were given. Words
are sequences of tokens; cutting a string into them and the plurals told apart
are constants. The ids that suffix an id are a finite list, and `Turns` are the
turns it suffices for.

### ViewFeed

`Side(h, t, s)` is what the service tells at a log position and time with its
key and people mode: the known layer, the present layer walked down from it, the
people layer. `Feed` recomputes the side a cursor names and answers the
difference only if it is the side the cursor was given with; `Apply` is
`view.mjs`. The host writes rows, verdicts land, a backup is restored, the key
or the people mode changes, time passes, `view.json` is published again. On the
device `Call`, `Turn`, `OpenView`, `Ask`, `Answer`, `Replace` and `Put` are the
awaits of one call under `withLock`, `Fail` its rejections, `Evict` the browser
dropping the store. HMAC and SHA-256 are ideal; one world, frame and scope, one
voice; the literal `kind` stands for the literals a record shows; the service's
copy of the log is taken in one step, which is `WorldService`'s snapshot.

### Resolver

The log is a sequence of rows of five kinds; `begun` is the length of the log at
an open unit's BEGIN. A plain resolve of a standing thunk opens no unit, as in
the code (`thunks.py:359`), and a perceived one wraps everything. `Fail` may
take place at any step: the model raises, an item is malformed, an append is
refused, the process dies. One world policy (`invent_under_canon`); an item's
kind, name, edge and look rows are one row; retraction, valid time and
durability verdicts are left to `Fold`. A mirror is told apart by the row it
mirrors; the code compares by value, and the invented values here are distinct.

### Build

From the first row of a world: `Open` and `Found` are `World.__init__` with its
charter; `BeginBuild`, `SealBuild`, `SealRaises`, `AbortBuild`, `Close` the
sessions; `FromManifest` (each listed id once, then the spellings that meet it,
`Registering`) and `PlanFrom` the registry and the chunks; `Answer`
and `CallFails` the pool, where each chunk ends in any order after at most one
retry; `ReadOutput` what extraction keeps; `Commit` what commit accepts and
`Writes` all the rows it writes in order, one commit each (`Declared` the
declarations, `FirstRows` the identity rows in the order in which `Record` first
meets them, `Allocation` the ids handed out for the unregistered); `Crash` anywhere. A
host that commits again brings the same results and chunks. Stamps are the
chunk's index and gates for identities, as the defaults have it; a line may date
its own fact, for all time (`t`) or by a number (`vf=`), and then that stands
(`Dated`, `TimeOf`, `thing[1]` of the row). `Fixtures` are the names under which
the world knows the host's `fixture` declaration: commit refuses them
(`ItemAccepted`), extraction knows the one only (`Parses`).

A row and its verdict are two commits. `WriteRow` appends one row and notes in
`due` what its call is to judge: outside a session the main row of an item, once
the item's side rows have landed; in one, what a guardrail decides, when the call
of the gate ends (`_classify_guarded_since`; `Decided` are the attributes whose
facts a guardrail decides). `Judge` gives one verdict. `Found` appends a row of
the genesis; the charter is judged row by row when all of it is written, the
physics after. A fact's `source` and `caused_by` rows are judged in a session
only, and the rows of `correlate` and `reject` by no call but a seal. `loose` is
what nothing is to judge any more: it is kept for the property alone.

Left out: parsing of sentences, lines and names (a name is its slug; two names
with one slug are one), the category passes, species, roles and aliases,
timeless identity rows, the end of a line's validity (`vt=`), a host's own clock
and its own `ingest_kwargs` (with `cursor_authoritative` the chunk dates every
fact that is not timeless, with `classify` a call's verdicts come together), the
receipts of the gate (`canonicalized_from`, `reclassified_from`, and in an
observing world `learned_at_wallclock`), which like a `source` row are judged by
nobody outside a session, a proposal's list of candidates beside its evidence,
the refusals of the gate (module Gate), what
verdicts say. The world is opened
after extraction: extraction reads and writes no row.

### WorldService

`world`, `reader`, `jobs`, `reads`, `published`, `held` are the fields of those
names; `open` is the set of snapshots whose connection is open; `state` is each
job's state under its lock; `thread[t]` is the reader started by attachment `t`;
`client` is where each caller stands. A job's body is its outcome: rows
committed, or none, or refused though committed (an error after the COMMIT is
answered like one before). Every access of a plain field that another thread
writes is a step of its own: `Ask` reads `_world`, `Enqueue` queues the call.
Left out: `set_now`, `set_view_frame`, the rate cap, the wire's encoding, the
HTTP runner's own thread.

### RecordQueue

`store` is the stored array; `adding[p]` and `flushing[p]` are the two async
functions of one tab, one step per await, with the array each has read; locks
are who is inside a section. A request has a life of its own (`request`): the
service may serve it after the flush gave up on it and after the tab closed.
`Serve*` are the service's possible answers. Storage either puts a value or
fails. `SharedLocks = FALSE` is a browser without `navigator.locks`.

## 3. The runs

| Run | Properties | Result |
|---|---|---|
| `buffer` | `AllOrNone` sets are whole or absent; `AnswersAreTrue` a set's answer stays so; `SeqNamesOneRow`; `ViewsAreCurrent` the tracked head and every cache are the rows' as a read sees them; `ImplementsLog` it implements `WorldLog` | holds, 2,899,729 states |
| `gate` | `MovesAreTheCursors` a movement told in prose takes the scene's time; `DeclarationsHold` declarations agree, precede their data, and the alias map holds only what was earned; `NoCycle`; `PersonsStayPersons` | holds, 105,578 |
| `classifier` | `GuessesAreHarmless` no guess, failure or left-out row makes a location permanent or a row an event; `VerdictsHold` a verdict read is the one of its row's own position, through rollbacks and rebuilds | holds, 1,543,811 |
| `identity` | `ApartHolds` vetoes and retracted merges outlast later merges, what an author tore is listed; `OneIsOne` groups agree and serve under the host's name; `ReconcileSettles` | holds, 91,614 |
| `fold` | `ConflictsListed` listed iff served as a conflict; `SourcesWeighRight` the later move serves, one document is one voice, a changed answer is earned; `PastIsFixed` | holds, 201,422 |
| `walks` | `WalksAgree` up and down containment and composition, and a neighborhood is what lies near; `RoutesAreRight`; `ProjectionsHold` who knows, what occurred, what a lens shows and cuts; `WordsHold` lessons answer and are no names, a turn binds to what is there, ids are minted once | holds, 1,833 |
| `viewfeed` | `AnswersApply` an answer makes its document the export; `ResetsAreEarned`; `NoStaleOverwrite`; `UnperceivedStaysOpaque`; `CallsEnd` | holds, 119,383 |
| `resolver` | `OneAnswerPerThunk`; `ForcesAreWhole` failures are clean, memos and mirrors whole and single | holds, 360,343 |
| `build` | `LanguagesAgree` commit accepts what extraction keeps, but for fixtures by another name; `TimesTellTheText`; `OneIdPerThing`; `RetriedIsWhole`; `PhysicsHold`; `UnjudgedAreLoose` what may lack a verdict | holds, 542,065 |
| `service` | `AnswerMatchesRun` a cancelled or drained job never writes; `SnapshotsAreSound` read while open, closed once, of the hosted World, no older than the last pump; `NobodyWaits` every call is answered and the host gets its thread back | holds, 573,004 |
| `record_queue` | `NoCallLost`; `WritesInOrder`; `NoPageWaits` an add never waits for the network, every flush ends | holds, 205,772 |
| `call_crosses` | `NoCallCrossesWorlds`, a sentence of the docs | violated, section 6 |

Every property of a passing run is also broken by a wrong form of the code it
watches, under the same configuration.

**Bounds, and why they are enough**

- `buffer`: two sets and one plain append, three row numbers, one foreign
  commit, two borrowed rollbacks. Two sets let one set's flags outlive it into
  the next; the append can stay pending under a set; three numbers let a number
  be minted, rolled back and minted again; one foreign commit suffices to
  overtake, because nothing recovers from it. The theorems have no bounds.
  The run gives a commit outside a unit the `busy` failure only: with `lost`,
  `ViewsAreCurrent` fails (section 6).
- `gate`: any two of thirteen calls, over an empty log and one with a forged
  receipt from before the gate refused it, one failure or crash at any row, one
  edit of the host between (an alias, an advance, a retraction, a reopening).
  Each hazard needs a call to prepare and a call to bite; longer calls stand for
  more. `NoCycle` is about logs that only grow forward: after a merge, a
  retraction or a row back in time a cycle can be, and the gate does not claim
  otherwise.
- `classifier`: three rows of seven kinds, one edit. A fixture, a location and
  its retraction, or a habit's three times, are three rows.
- `identity`: three ids, the fewest on which a veto, a correlation or a settled
  pair is met only through a chain; any three calls, one of them cut short. The
  three starting logs give the engine what it decides on (a shared name beside a
  relating row, a shared alias of two words on one kind, a description), and the
  third begins with a merge that was undone, so its histories are a merge, a
  retraction and three calls more.
- `fold`: up to four events, two of them edits (late source, retraction,
  spending, verdict, merge), over rows chosen per declaration so that time,
  source, evidence and value vary against each other; two subjects that may
  merge, two documents that may turn out to be one.
- `walks`: three worlds, read for all times and pairs. Past six rows, *Crossing*
  and *Falling* take every two of their offers and one verdict: fourteen rows
  that shut and bar the gate, move and merge things and places, retract and
  tell, and eight that say what the fall caused; two of them make every pair of
  causes. Depth 2, fanout 3 and budget 2 all cut in *Crossing*. *Naming* takes
  three steps past four rows (a row, a question that is learned, a turn bound):
  a lesson or a mint, what changes the scene, and the question again.
- `viewfeed`: two events of the world, three calls of two pages, a cursor chain
  of the length the code keeps. A stale write needs two syncs; a wrong diff
  needs one event after a document was given and one after its cursor.
- `resolver`: three calls on a minting and a literal key, two items, two host
  rows, nine rows of log: a first force, a failed or repeated one, and a read
  after it.
- `build`: three manifests, three chunks in two chapters with the names that
  collide across types, chapters and personas; lines that date themselves, with a
  source, a cause, an attribute no guardrail decides, `fixture` by its own and by
  another name; one crash and one session, which a rerun and a late seal need once. A second crash of a commit meets the same
  log as a first one later.
- `service`: a job of one client and two reads that another client makes one
  after the other, so a late first read can hold what the second needs; two
  attachments. The first World commits twice, the second never: its log then
  stands where the first's began, so equal log positions of different Worlds
  occur. `JoinMayTimeOut` is FALSE: if the reader outlives detach's 10 s join,
  detach closes what it reads, which the code only logs, and
  `SnapshotsAreSound` fails. `call_crosses` makes three calls at once, with
  symmetric reads and its one property.
- `record_queue`: two tabs, three calls of which one is refused, three requests,
  one closed tab. Three requests send one call twice beside another.

Deadlock is checked in `buffer`. The other models end when their bounded calls
are used up, and their configurations say so.

## 4. Fairness

`service` assumes weak fairness of the steps of a host *inside* a call of
the service, of each reader thread and of each client thread that has begun its
call. It does not assume that the host ever pumps, or detaches: the bounded
`wait()` and, at detach, the drain must be what answers. Python schedules every
runnable thread; waits have timeouts; a job's body ends.

`record_queue` assumes that storage answers (weak fairness of a put in progress)
and strong fairness of taking a lock, which in browsers is first come, first
served, so that a waiting task gets it though others hold it in between. It
assumes nothing of the service's answer. `FlushEnds` alone also assumes that the
transport's timer runs (`httpTransport`'s `timeoutMs`, 15 s), and says so in its
premise; `AddNeverWaitsOnNetwork` does not.

`viewfeed` assumes weak fairness, per page, of "its call goes on or its transport
fails": a request is answered or rejected, and the lock's queue (`line`) is in
the model, so that getting the lock is a consequence.

The other specifications are safety only.

## 5. What is proved

Thirty theorems, for every value of the constants; TLC checks the same
formulas on the small instances above (all but `TypeCorrect` and
`OvertakenIsSilent`, which no run repeats).

| Theorem | Statement | Beyond the named assumptions on the constants |
|---|---|---|
| `PatternBufferProofs.TypeCorrect` | `Spec => []TypeOK` | |
| `.SetsAreWhole` | `Spec => []AllOrNone` | |
| `.AnswersStayTrue` | `Spec => []AnswersAreTrue` | |
| `.OneRowPerSeq` | `Spec => []SeqNamesOneRow` | |
| `.OvertakenIsSilent` | `Spec => OvertakenHandleIsSilent` | |
| `PatternBufferProofs.BufferIsALog` | `Spec => ImplementsLog` | |
| `PatternBufferProofs.ViewsStayCurrent` | `Spec => []ViewsAreCurrent` | SQLite never itself rolls back a commit outside a unit |
| `CallProofs.JobsAnswerTruly` | `Spec => []AnswerMatchesRun` | |
| `.SnapshotsStaySound` | `Spec => []SnapshotsAreSound` | detach's join does not time out |
| `CallProofs.QueueLosesNothing` | `QueueSpec => []NoCallLost` | tabs share their locks |
| `.QueueKeepsOrder` | `QueueSpec => []WritesInOrder` | tabs share their locks |
| `ViewFeedProofs.SyncedIsExport` | `Spec => []AnswersApply` | |
| `.LocksOrderWrites` | `Spec => []NoStaleOverwrite` | (the property itself is about browsers with locks) |
| `.ResetsHaveReason` | `Spec => []ResetsAreEarned` | |
| `.UnseenStaysUnnamed` | `Spec => []UnperceivedStaysOpaque` | |
| `GateProofs.DeclarationsStay` | `Spec => []DeclarationsHold` | |
| `.PersonsStay` | `Spec => []PersonsStayPersons` | |
| `ModelProofs.GuessesStayHarmless` | `ClassifierSpec => []GuessesAreHarmless` | |
| `.VerdictsStay` | `ClassifierSpec => []VerdictsHold` | |
| `ModelProofs.AnswersAreOne` | `Spec => []OneAnswerPerThunk` | |
| `.WholeForces` | `Spec => []ForcesAreWhole` | |
| `FoldProofs.DisputesAreListed` | `Spec => []ConflictsListed` | |
| `.PastStays` | `Spec => []PastIsFixed` | |
| `.SourcesAreWeighed` | `Spec => []SourcesWeighRight` | |
| `BuildProofs.TwoChecksOneLanguage` | `Spec => []LanguagesAgree` | |
| `.OnePhysicsRules` | `Spec => []PhysicsHold` | |
| `.SessionsSettle` | `Spec => []UnjudgedAreLoose` | |
| `.OneThingOneId` | `Spec => []OneIdPerThing` | |
| `.RetryCompletes` | `Spec => []RetriedIsWhole` | |
| `.TimesTell` | `Spec => []TimesTellTheText` | |

**The buffer.** `AllOrNone` is not inductive: it says nothing of pending rows,
and a step that commits them could break it. The invariant `IInv` adds what keeps
it:

- `CallInv` ties the program counter to the flags: a unit is open exactly while
  a set is running, and a running call has not been answered;
- `TxInv`: rows are pending only in a transaction that holds the lock, and a
  unit's body always runs in a transaction;
- `SetInv`: a set that is not running (`RestingSet`) has nothing pending and its
  answer is true; the running set (`RunningSet`) has all its rows pending,
  exactly as many as it wrote, and none in the file, until its COMMIT moves them
  in one step, after which nothing is pending and the unit says it committed;
- `TopInv`: the file and the pending rows each have a highest number, so that
  `HighSeq`, a `CHOOSE`, means something;
- `SeqNamesOneRow` itself, inductive given `TxInv` and `TopInv`.

The refinement needs more (`JInv`): pending rows are numbered above committed
ones (`OrderInv`), because the tracked head bounds what this handle sees until
it is overtaken (`HeadInv`) and whoever overtakes it takes the very number it is
about to insert; and whose rows are pending (`OwnInv`), so that the COMMIT of a
unit is one step of one set. Every step of the buffer is then a step of the log
or a stutter (`LogStep`). The views (`ViewInv`) are current because every step
that takes rows out of sight forgets the head and moves the version, or ends
where no view is served, and every insert moves the version with the head.

**The service.** `JobInv` says where each job stands: its state changes hands
under its lock, so that it is cancelled, claimed or drained and only one of the
three, and a job that has not been run has no result and no rows. `ThreadInv`
says that at most one reader runs and only while its World is attached or detach
waits for it; `SnapInv` that a snapshot is open exactly while it is published or
held and that the reader reads what it holds; `FreshInv` that a read, its request
and its answer never meet a snapshot of their World older than the one its
caller saw.

**The queue.** One picture keeps both properties: the stored array is the rest
of the calls added, in order, behind those that had their final answer
(`TailInv`); a tab between its read and its put holds what is stored still
(`LockInv`); the call a flush is about is the head (`HeadInv`); and nothing was
ever sent but the head of its time (`SentInv`), which covers requests that
arrive late.

**The mirror.** A document is always the side of some position of the service
(`Given`), a cursor the service still trusts names that side, and a difference
of two sides applied to the first is the second (`DiffFits`), whatever layers
they have; in turns of the lock, what is put was asked for after what is stored
was put (`LockInv`). That a reset has a reason needs the past to be fixed: the
side of a position and a time is the same after every row and merge
(`SideStays`, layer by layer, over closures and folds that are taken at a
position), so that a cursor names what it named unless a backup, the key or the
people mode changed; `TrackInv` carries from the service to the page which
documents are younger than the last such change (`upset`). That the unperceived
stays opaque is a property of what a side computes, at every position and time:
each reference it takes out of canon goes through `Where` or is a person's fact.

**The gate.** Five things make a log sound (`Sound`): each attribute's
declarations agree; every receipt in the gate's own mark is one the gate could
write; data of an attribute the host declares lies behind its declaration;
the registry knows every merge; and no kind is said of one whom earlier merges
made a person. None is inductive by itself, since an item is up to a dozen rows and may
fail after each, so soundness is carried row by row: `LandedRows` names the rows
an item writes, and `CoherentLanded`, `ReceiptsLanded`, `DataLanded`,
`CanonLanded` and `PersonsLanded` say that any first part of them keeps it.
That a plan may stop anywhere is the hard case of declarations: it works because
the fold policy, which an arity or a family can contradict, is written behind
both, and because `structural`, written before `durability`, agrees with silence
on it. The alias map is sound because the gate marks as its own only a reading
its map already made. That a person stays one joins two views of merges: the
registry's classes, which the gate asks, and the chains of merge rows, which the
property follows (`Kin`); the first are never narrower than the second
(`KinTogether`), through elections of either id. `GateInv` adds what an atomic call goes back to, which is
as sound as what stands, and that memory counts an attribute as asked only if
the log declares it, unless the process has died, or the declaration's own first
row failed in a plain call (`broken`, which `DeclarationsHold` exempts).

**The classifier.** Neither property is inductive: a verdict may be stored long
after its row, and a unit may put an old sidecar back. `ClassifierInv` says what a verdict
may be at the row's own position (`LawInv`): a guardrail's row has the
guardrail's verdict or its habit, any other row a verdict the model may give,
and a permanent location is the model's own word. It survives later rows because
a pin of an attribute precedes the attribute's data (`PinsFirst`), so that what
guards a row does not change after it; it survives a rollback because it holds of
what the unit goes back to (`UnitInv`), whose log is a first part of the present
one; and the memo, whenever it is read, is the sidecar (`MemoIsSidecar`).

**The resolver.** `MarkInv`: a thunk has at most one marker, which names exactly
what one call generated for it, and nothing was generated for it after.
`CallInv` says where the running call stands, so that it marks only an unmarked
thunk with what it has made. `PlantInv`: a placeholder of the resolver's own has
its marker in the rows a failure would keep, unless the running call is about to
write it. `AnswerInv`: what was answered rests on a marker that no rollback can
take. The last two are about `Kept`, the log up to BEGIN of an open unit: a
placeholder planted in the unit goes with it, one planted before never lacks its
marker.

**The fold.** The invariant of the state is small: rows refer to earlier rows,
verdicts are of rows, a closure elects one of its members. The work is in what
`FoldKey` computes, which is a read and has no state. `ConflictsListed` compares
two routes to the same dispute: the fold's and the count of rows behind
`open_conflicts`. `PastIsFixed` is a property of growth: under `Grows` (rows are
appended, nothing under them moves) every part of a fold as of a position of the
past is unchanged (`RowsStay` up to `FoldStays`), and appending is growth.
`SourcesWeighRight` compares a fold before and after one more row and its source
(`Heeds`): the classes of sources then heard are those heard before and the
newcomer's (`ServedGains`, `NewcomerIs`), what the older ones weigh is unchanged
(`WeighedHeld`), so a changed winner is the newcomer's or outranks the old one.
Which class serves when each has arrived is a recursive function over log
positions (`Serving`); its lemmas go by the least position at which one would
fail (`Numbers`).

**The book builder.** The theorem that says most is `RetryCompletes`: wherever
the process dies in a commit, the commit that is run again leaves what one
undisturbed commit leaves. Its invariant is about four things.

- `BookIs` and `ResultsAre`: the registry is well formed, the ids it lists are
  what the manifest's declarations came to and each has one thing
  (`LinksAreOne`); a chunk that ended holds what extraction kept of an answer,
  checked against that registry. From extraction on the book no longer changes,
  and the chunks only end once, so `Writes`, which is a function of the two, is
  the same list in every commit (`WritesStay`).
- `WorldIs`: where the genesis stands (`GenesisIs`), that the physics recorded
  are the ones that run, and that a row without a verdict is due to the call that
  runs, of the open session or loose.
- `LooseIs`: while nothing died and no session was opened, only side rows and
  links are loose. A call runs while it has rows to write or rows to judge, and
  ends in whichever is its last step.
- `CommitIs`: what a running commit has left is the end of `Writes`; everything
  before it has landed, by this run or an earlier one, and the log holds nothing
  of a commit but writes of that list. A step either appends the head of what is
  left or finds it landed (`CommitGoesOn`), so that at the end every write of
  the list has landed, and only they.

`OneIdPerThing` follows the id handed out for an unregistered thing through the
fold over the chunks in order (`Allocating`): an id is handed out to one thing,
is none of the registry's, and is found again by every later use, which is a
lemma about positions in the fold and not about the state. `LanguagesAgree`
compares two checks written twice in the code, extraction's and commit's, and
says where they may differ: at what this world, and it alone, takes for a
fixture. That no fact of the world is one (`FixturesRefused`) follows from
`Commit`'s guard and the list of its writes. `TimesTellTheText` needs one invariant more
(`KnownIs`): whatever a fact of the log names has its shape on a row before it,
dated no later where the build dates the fact (`ShapeFor`). A line that dates its
own fact is believed by the code, and the property is not stated of its date.

Assumptions on constants are named in the modules and checked by TLC in the runs
of the modules that extend them (`BufferConstants`, `ServiceConstants`,
`QueueConstants`, `ViewConstants`, `Namespaces`, `ResolverConstants`,
`ClassifierConstants`, `FoldConstants`, `BuildConstants` with `ManifestsAreFormed`
and `AnswersAreFormed`: the world knows `fixture` by its own name, a parsed line
has a cause among its ids and at most one time of its own; and the gate's
`GateConstants`: what the code itself speaks of is core, and the host's default
declares none of it, nor `alias`, which the gate writes beside a row and asks
nobody about; `CallsAreFormed`: items are sequences, hints are of the three axes
the schema has, a declaration is of an attribute and of no id that is merged;
`OldLogIsFormed`: the log found at the start may forge a receipt, but not in the
gate's mark, and holds no merge and no declaration. In the modules without theorems
`ProjectorConstants`, `ReferConstants`, `BindConstants` say what the runs give).

## 6. Where code and docs disagree

Each is a formula of a module that the code does not keep. `call_crosses` is a
run; the others are found by adding the formula named to the INVARIANTS of the
module's configuration, and TLC prints the trace within seconds.

- **A call crosses worlds** (`NoCallCrossesWorlds`, run `call_crosses`). detach's
  docstring (`service.py:334`) says that queued jobs and later calls answer
  `detached`; a call that saw one World attached is queued after the drain and
  runs in the next World attached (`service.py:460`).
- **The head's gap** (`ViewsAreCurrent` with `AutocommitFaults = {"busy",
  "lost"}`). `docs/LEXICON.md:109` has `log_version` move whenever pending writes
  may have been discarded; a per-row COMMIT on which SQLite itself rolls back
  discards the row and leaves `log_version` unmoved, with `head()` one above the
  log (`buffer.py:783`).
- **A time out of prose** (`NoInventedTime`, `Gate.cfg` with `MaxFaults = 0`).
  `specs/MOVED-EVENT-V1.md:305` lets no model-invented number enter; the moved
  pass matches ids as authored (`ingest.py:779`), so an arrival under a merged
  id keeps the model's time.
- **Dropped unwritten** (`DeliveredAtLeastOnce`, `RecordQueue.cfg` under `QueueSpec`).
  `queue.mjs:7` says delivery is at least once; a record that was deferred or
  detached, and never ran, is answered like a refusal (`service.py:980`), and
  the device's queue drops it.
- **Forced twice** (`ForcedOnce`). `thunks.py:5` forces a thunk once; a plain
  resolve commits item by item and marks last (`thunks.py:359`), and a failure in
  between leaves rows that the next resolve invents again beside.
- **The incumbent** (`IncumbentHolds`). `fold.py:635` and `specs/SPIKE-V1.md:129`
  keep what stands against an equal; classes are ordered by the arrival of their
  *latest* row, so a source that restates what the key serves hands the key to
  the source that disagreed: black (direct), red (a document), black (direct)
  serves red.
- **Separated from itself** (`SeparationHolds`). `docs/LEXICON.md:85` keeps apart
  what `distinct_from` says; said of two ids that a wrong merge holds together,
  it is stored as an edge from their representative to itself
  (`ingest.py:1472`), and once the merge is retracted nothing keeps them apart.

## 7. What is only model-checked

- `Gate`'s `MovesAreTheCursors` and `NoCycle`. The first relates rows of one call
  that an item's fate separates, through what `MovedPass` did to all of them
  before any was taken; and it is about calls that give an event one agent and one
  destination, as the run's do: of several the code keeps the last
  (`ingest.py:761-766`), so it is no theorem for every choice of calls. The second
  is about paths of any length, which the gate follows for as many steps as there
  are ids: that such a walk misses no cycle is a fact about finite sets that needs
  an induction over them.
- `Identity`'s `ApartHolds`, `OneIsOne`, `ReconcileSettles`: a closure is
  recomputed after each row, from all of the log, and reconciling is a search
  for a fixpoint over it.
- The reads of `Walks`, `Projector`, `Refer` and `Bind`: `WalksAgree`,
  `RoutesAreRight`, `ProjectionsHold`, `WordsHold`. The walks in
  particular compute over graphs by iterating to a bound, and what such an
  iteration reaches for every input is an induction over data, which the prover
  does not have in general. Where a recursive function over log positions was
  needed (`Serving` in `FoldProofs`), the least position at which a lemma would
  fail served instead, which is first-order.
- Liveness: `NobodyWaits`, `NoPageWaits`, `CallsEnd`. Fairness is defined by ENABLED, which is
  out of the prover's reach.

## 8. Not modelled yet, and the plan

1. **RateCap** and the HTTP runner's pump thread (`service.py`), over
   `WorldService`: bursts at a window's edge, a pump that raises.
2. **Dump** as a second refinement of `WorldLog`: a replay that keeps row numbers
   and sidecars.
3. **Salience**'s cache key (`salience.py`), and what of the projector is left
   out: quantities, habits, pins, the correlated union.
4. **Identity**, the rest of it: `retype` and `typing_conflicts`, durable
   contradictions, lookup by name, reads as of a valid time.
5. **Fold** over several frames (`state_union`) and valid-time intervals.
6. Theorems: `Gate` (`MovesAreTheCursors`, with an assumption that calls give an event
   one agent and one destination), `Identity` (`ApartHolds`).

Left out for good: prompts, wording, text parsing and grammar (`build/text.py`,
`build/grammar.py`), the rendering of rows (`project.py`), the porcelain's
shapes, the MCP envelope, encodings (`codec.py`), test doubles and evaluation
harnesses: they keep no state, or their content is text.
