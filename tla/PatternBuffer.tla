---------------------------- MODULE PatternBuffer ----------------------------
(***************************************************************************)
(* PatternBuffer (buffer.py): one SQLite file, one connection, an          *)
(* append-only log of numbered rows, and the unit of work that makes a     *)
(* multi-row set all-or-none.                                              *)
(*                                                                         *)
(* Three kinds of state, and what each survives:                           *)
(*   the file        survives everything;                                  *)
(*   the connection  (its open transaction) dies with the process;         *)
(*   the Python side (_head, _log_version, the derived caches, the unit    *)
(*                   flags) is never rolled back by SQLite.                *)
(*                                                                         *)
(* The host is one thread (SQLite's own check), so calls do not interleave *)
(* with each other; what interleaves is another connection to the same     *)
(* file, a crash, and the failures of the SQLite statements themselves.    *)
(* Between the second-writer check (`PRAGMA data_version`) and the         *)
(* statement it protects there is a window, and the steps below keep it.   *)
(***************************************************************************)
EXTENDS Integers, FiniteSets

CONSTANTS
  Calls,             \* the host's write calls, each made at most once
  Sets,              \* the calls that are atomic sets; the others append
  Outsider,          \* stands for every other connection to the file
  NoCall,            \* no call is running
  MaxSeq,            \* bound: row numbers this model mints
  MaxOutside,        \* bound: commits by other connections
  MaxVersion,        \* bound: borrowed rollbacks, by the version they move
  AutocommitFaults,  \* how a commit outside a unit may fail
  UnitFaults         \* how the terminal COMMIT or ROLLBACK may fail

\* "busy": another connection's read lock refuses the commit and the rows
\* stay pending.  "lost": an I/O or disk-full error at commit, on which
\* SQLite itself rolls the transaction back.  "rollback": the ROLLBACK
\* raises.  "interrupted": the COMMIT lands but the caller's thread is
\* interrupted before the buffer records it.
ASSUME BufferConstants ==
  /\ Sets \subseteq Calls
  /\ NoCall \notin Calls
  /\ Outsider \notin Calls
  /\ MaxSeq \in Nat /\ MaxOutside \in Nat /\ MaxVersion \in Nat
  /\ AutocommitFaults \subseteq {"busy", "lost"}
  /\ UnitFaults \subseteq {"busy", "lost", "rollback", "interrupted"}

NoSeq == -1          \* Python's None for a row number

Row == [seq    : Nat,                      \* the assertion's seq (id a:<seq>)
        by     : Calls \union {Outsider},  \* history: the call that wrote it
        part   : Nat,                      \* history: its place in that call
        target : Nat]                      \* the retracted seq, 0 for none

Answers == {"none", "ok", "abort", "raised", "raw", "lost"}

VARIABLES
  file,           \* committed rows
  outside,        \* history: commits by other connections
  staged,         \* rows in this connection's open transaction
  tx,             \* "none", "deferred" (BEGIN, no lock yet) or "holding"
  moved,          \* PRAGMA data_version differs from _data_version
  handle,         \* "open" or "closed"
  head,           \* _head
  logVersion,     \* _log_version
  unitOpen,       \* _unit_open
  unitCommitted,  \* _unit_committed
  precall,        \* _unit_precall_head
  poisoned,       \* _poisoned
  cache,          \* one derived in-memory view: its version and its rows
  call,           \* the running call
  pc,             \* where it stands
  next,           \* the row about to be inserted: [seq, target]
  wrote,          \* history: rows each call has inserted
  answer          \* history: what each call was told

connVars == <<staged, tx, moved, handle>>
unitVars == <<unitOpen, unitCommitted, precall>>
viewVars == <<head, logVersion, cache>>
callVars == <<call, pc, next, wrote, answer>>
vars == <<file, outside, connVars, unitVars, viewVars, poisoned, callVars>>

\* What a SELECT on this connection returns.
View == file \union staged

HighSeq(rows) ==
  CHOOSE n \in {0} \union {r.seq : r \in rows} : \A r \in rows : r.seq <= n

NoRow == [seq |-> 0, target |-> 0]
NoCache == [at |-> -1, rows |-> {}]
Idle == handle = "open" /\ call = NoCall

Init ==
  /\ file = {} /\ outside = 0
  /\ staged = {} /\ tx = "none" /\ moved = FALSE /\ handle = "open"
  /\ head = NoSeq /\ logVersion = 0 /\ cache = NoCache
  /\ unitOpen = FALSE /\ unitCommitted = FALSE /\ precall = NoSeq
  /\ poisoned = FALSE
  /\ call = NoCall /\ pc = "idle" /\ next = NoRow
  /\ wrote = [c \in Calls |-> 0]
  /\ answer = [c \in Calls |-> "none"]

-----------------------------------------------------------------------------
(* Helpers of the handlers.                                                *)

\* _live_conn() does not raise.
Live == ~poisoned /\ ~moved

\* Reading anything inside a deferred transaction takes the file's shared
\* lock, which keeps other connections from committing until it ends.
LockOnRead == tx' = IF tx = "deferred" THEN "holding" ELSE tx

\* head(): the tracked value, or one read of MAX(seq).
HeadNow == IF head = NoSeq THEN HighSeq(View) ELSE head

\* A wrong form: the version is kept.
ForgetNotVersion == head' = NoSeq /\ UNCHANGED logVersion

\* _forget_view()
ForgetView == head' = NoSeq /\ logVersion' = logVersion + 1

\* A wrong form: every error is wrapped.
AbortAlways == "abort"

\* The answer of a set that failed: _run_atomic wraps the error in
\* AtomicAbort unless the buffer is poisoned or says its last unit committed.
AbortAnswer == IF poisoned \/ unitCommitted THEN "raw" ELSE "abort"

\* The call ends with this answer.
Told(what) ==
  /\ answer' = [answer EXCEPT ![call] = what]
  /\ call' = NoCall /\ pc' = "idle" /\ next' = NoRow

\* An exception leaves the running statement: a plain append answers it, a
\* unit's body unwinds to the unit's own handler.
Raise ==
  /\ UNCHANGED wrote
  /\ IF unitOpen THEN /\ pc' = "failing" /\ next' = NoRow
                      /\ UNCHANGED <<call, answer>>
                 ELSE Told("raised")

\* The unit's outer finally, and the envelope's answer.
LeaveUnit(what) ==
  /\ unitOpen' = FALSE /\ precall' = NoSeq
  /\ Told(what) /\ UNCHANGED wrote

\* The connection's transaction reaches the file.
CommitTx == file' = file \union staged /\ staged' = {} /\ tx' = "none"

\* SQLite drops the connection's transaction.
DropTx == staged' = {} /\ tx' = "none" /\ UNCHANGED file

-----------------------------------------------------------------------------
(* append: seq = head() + 1, INSERT, commit unless a unit is open.         *)

BeginAppend(c) ==
  /\ Idle /\ c \in Calls \ Sets /\ answer[c] = "none"
  /\ call' = c /\ pc' = "appending"
  /\ UNCHANGED <<file, outside, connVars, unitVars, viewVars, poisoned,
                 next, wrote, answer>>

\* A unit's body starts one more append.
BodyAppend ==
  /\ pc = "body"
  /\ pc' = "appending"
  /\ UNCHANGED <<file, outside, connVars, unitVars, viewVars, poisoned,
                 call, next, wrote, answer>>

\* truth.retract: the target is a visible row, and inside a unit one that
\* was committed before the unit began.
Retractable(t) ==
  /\ \E r \in View : r.seq = t
  /\ precall # NoSeq => t <= precall

Sequence(target) ==
  /\ pc = "appending"
  /\ Live
  /\ target # 0 => Retractable(target)
  /\ HeadNow < MaxSeq
  /\ LockOnRead
  /\ head' = HeadNow
  /\ next' = [seq |-> HeadNow + 1, target |-> target]
  /\ pc' = "sequenced"
  /\ UNCHANGED <<file, outside, staged, moved, handle, unitVars, logVersion,
                 cache, poisoned, call, wrote, answer>>

\* The second-writer check just before the statement.
CheckInsert ==
  /\ pc = "sequenced" /\ Live
  /\ pc' = "checked"
  /\ UNCHANGED <<file, outside, connVars, unitVars, viewVars, poisoned,
                 call, next, wrote, answer>>

\* Anything raised before the statement: a refused role, an ineligible
\* target, a poisoned or overtaken connection.
RaiseBeforeInsert ==
  /\ pc \in {"appending", "sequenced"}
  /\ pc = "sequenced" => ~Live
  /\ Raise
  /\ UNCHANGED <<file, outside, connVars, unitVars, viewVars, poisoned>>

\* A wrong form: row numbers are not a key.
NeverClashes == FALSE

\* The primary key refuses the number.
Clashes == \E r \in View : r.seq = next.seq

\* The INSERT.  Outside a unit Python opens the transaction itself; the
\* primary key refuses a number another connection took in the window.
Insert ==
  /\ pc = "checked"
  /\ tx' = "holding"
  /\ IF Clashes
     THEN /\ Raise
          /\ UNCHANGED <<staged, head, logVersion>>
     ELSE /\ staged' = staged \union
               {[seq |-> next.seq, by |-> call, part |-> wrote[call] + 1,
                 target |-> next.target]}
          /\ head' = IF head # NoSeq /\ next.seq > head THEN next.seq ELSE head
          /\ logVersion' = logVersion + 1
          /\ wrote' = [wrote EXCEPT ![call] = @ + 1]
          /\ pc' = IF unitOpen THEN "body" ELSE "inserted"
          /\ next' = NoRow
          /\ UNCHANGED <<call, answer>>
  /\ UNCHANGED <<file, outside, moved, handle, unitVars, cache, poisoned>>

\* _commit_or_defer outside a unit.
CommitRow ==
  /\ pc = "inserted" /\ Live
  /\ CommitTx
  /\ Told("ok")
  /\ UNCHANGED <<outside, moved, handle, unitVars, viewVars, poisoned, wrote>>

CommitRowFails ==
  /\ pc = "inserted"
  /\ \/ ~Live /\ UNCHANGED <<file, staged, tx>>
     \/ Live /\ "busy" \in AutocommitFaults /\ UNCHANGED <<file, staged, tx>>
     \/ Live /\ "lost" \in AutocommitFaults /\ DropTx
  /\ Raise
  /\ UNCHANGED <<outside, moved, handle, unitVars, viewVars, poisoned>>

\* The INSERT itself fails (another connection holds the write lock): the
\* transaction Python opened for it stays open, without a lock.
InsertFails ==
  /\ pc = "checked"
  /\ tx' = IF tx = "none" THEN "deferred" ELSE tx
  /\ Raise
  /\ UNCHANGED <<file, outside, staged, moved, handle, unitVars, viewVars,
                 poisoned>>

-----------------------------------------------------------------------------
(* atomic_unit inside _run_atomic.                                         *)

\* Entry up to the BEGIN.  An overtaken or poisoned buffer raises from the
\* check before the unit's own flag is reset.
BeginSet(c) ==
  /\ Idle /\ c \in Sets /\ answer[c] = "none"
  /\ IF Live
     THEN /\ call' = c /\ pc' = "setup"
          /\ unitOpen' = TRUE /\ unitCommitted' = FALSE
          /\ head' = HeadNow /\ precall' = HeadNow
          /\ UNCHANGED answer
     ELSE /\ answer' = [answer EXCEPT ![c] = AbortAnswer]
          /\ UNCHANGED <<call, pc, unitVars, head>>
  /\ UNCHANGED <<file, outside, connVars, logVersion, cache, poisoned,
                 next, wrote>>

UnitBegin ==
  /\ pc = "setup" /\ Live /\ tx = "none"
  /\ tx' = "deferred" /\ pc' = "body"
  /\ UNCHANGED <<file, outside, staged, moved, handle, unitVars, viewVars,
                 poisoned, call, next, wrote, answer>>

\* The BEGIN is refused: overtaken, or a failed commit left a transaction
\* open.  Nothing was begun, so nothing is rolled back.
UnitBeginFails ==
  /\ pc = "setup" /\ (~Live \/ tx # "none")
  /\ LeaveUnit(AbortAnswer)
  /\ UNCHANGED <<file, outside, connVars, viewVars, unitCommitted, poisoned>>

\* The body raises: a gate skip, a refused op, a guardrail's error.
BodyRaises ==
  /\ pc = "body"
  /\ pc' = "failing"
  /\ UNCHANGED <<file, outside, connVars, unitVars, viewVars, poisoned,
                 call, next, wrote, answer>>

UnitCommit ==
  /\ pc = "body" /\ Live
  /\ CommitTx
  /\ \/ unitCommitted' = TRUE /\ pc' = "committed"
     \/ /\ "interrupted" \in UnitFaults
        /\ pc' = "failing" /\ UNCHANGED unitCommitted
  /\ UNCHANGED <<outside, moved, handle, unitOpen, precall, viewVars,
                 poisoned, call, next, wrote, answer>>

UnitCommitFails ==
  /\ pc = "body"
  /\ \/ ~Live /\ UNCHANGED <<file, staged, tx>>
     \/ Live /\ "busy" \in UnitFaults /\ UNCHANGED <<file, staged, tx>>
     \/ Live /\ "lost" \in UnitFaults /\ DropTx
  /\ pc' = "failing"
  /\ UNCHANGED <<outside, moved, handle, unitVars, viewVars, poisoned,
                 call, next, wrote, answer>>

\* A fault after the COMMIT is raised as it is; nothing is undone.
UnitReturn ==
  /\ pc = "committed"
  /\ \/ LeaveUnit("ok")
     \/ LeaveUnit(AbortAnswer)
  /\ UNCHANGED <<file, outside, connVars, viewVars, unitCommitted, poisoned>>

\* A wrong form: the ROLLBACK is never issued.
UnitRollbackForgotten ==
  /\ pc = "failing" /\ Live /\ tx # "none"
  /\ ForgetView
  /\ LeaveUnit(AbortAnswer)
  /\ UNCHANGED <<file, outside, connVars, unitCommitted, cache, poisoned>>

UnitRollback ==
  /\ pc = "failing" /\ Live /\ tx # "none"
  /\ DropTx /\ ForgetView
  /\ LeaveUnit(AbortAnswer)
  /\ UNCHANGED <<outside, moved, handle, unitCommitted, cache, poisoned>>

\* The ROLLBACK cannot be confirmed (overtaken, no transaction left, or it
\* raises): the connection is closed and every later operation refuses.
UnitPoisons ==
  /\ pc = "failing"
  /\ ~Live \/ tx = "none" \/ "rollback" \in UnitFaults
  /\ poisoned' = TRUE
  /\ DropTx
  /\ head' = NoSeq /\ logVersion' = logVersion + 2
  /\ LeaveUnit("raw")
  /\ UNCHANGED <<outside, moved, handle, unitCommitted, cache>>

-----------------------------------------------------------------------------
(* The facade's commit and rollback, borrowed by the sidecars.             *)

\* Where sidecar code runs: between calls and inside a unit's body.
Borrowed == Idle \/ pc = "body"

\* A wrong form: a borrowed commit lands inside a unit.
GatedCommitInUnit ==
  /\ Borrowed /\ Live
  /\ CommitTx
  /\ UNCHANGED <<outside, moved, handle, unitVars, viewVars, poisoned, callVars>>

GatedCommit ==
  /\ Borrowed /\ ~unitOpen /\ Live
  /\ \/ CommitTx
     \/ "lost" \in AutocommitFaults /\ tx # "none" /\ DropTx
  /\ UNCHANGED <<outside, moved, handle, unitVars, viewVars, poisoned, callVars>>

GatedRollback ==
  /\ Borrowed /\ ~unitOpen
  /\ logVersion < MaxVersion
  /\ IF Live THEN DropTx ELSE UNCHANGED <<file, staged, tx>>
  /\ ForgetView
  /\ UNCHANGED <<outside, moved, handle, unitVars, cache, poisoned, callVars>>

\* A read through a derived cache (identity components, semantics): rebuilt
\* from the visible rows when the version moved, else served as it is.
CacheServes == cache.at = logVersion

ReadThroughCache ==
  /\ Borrowed /\ ~CacheServes /\ Live
  /\ LockOnRead
  /\ cache' = [at |-> logVersion, rows |-> View]
  /\ UNCHANGED <<file, outside, staged, moved, handle, head, logVersion,
                 unitVars, poisoned, callVars>>

-----------------------------------------------------------------------------
(* The handle's life, and everyone else.                                   *)

FreshHandle ==
  /\ staged' = {} /\ tx' = "none" /\ moved' = FALSE
  /\ head' = NoSeq /\ logVersion' = 0 /\ cache' = NoCache
  /\ unitOpen' = FALSE /\ unitCommitted' = FALSE /\ precall' = NoSeq
  /\ poisoned' = FALSE
  /\ UNCHANGED <<file, outside, wrote>>

\* close() between calls, or the process dies anywhere.
Close ==
  /\ Idle
  /\ handle' = "closed" /\ FreshHandle
  /\ UNCHANGED <<call, pc, next, answer>>

Crash ==
  /\ handle = "open" /\ call # NoCall
  /\ handle' = "closed" /\ FreshHandle
  /\ Told("lost")

Open ==
  /\ handle = "closed"
  /\ handle' = "open" /\ FreshHandle
  /\ UNCHANGED <<call, pc, next, answer>>

\* Another connection commits: a row, or something that is not a row.
OutsideCommit ==
  /\ tx # "holding" /\ outside < MaxOutside
  /\ outside' = outside + 1
  /\ moved' = (handle = "open")
  /\ \/ UNCHANGED file
     \/ /\ HighSeq(file) < MaxSeq
        /\ file' = file \union
             {[seq |-> HighSeq(file) + 1, by |-> Outsider, part |-> 0,
               target |-> 0]}
  /\ UNCHANGED <<staged, tx, handle, unitVars, viewVars, poisoned, callVars>>

Next ==
  \/ \E c \in Calls : BeginAppend(c) \/ BeginSet(c)
  \/ BodyAppend
  \/ \E t \in {0} \union {r.seq : r \in View} : Sequence(t)
  \/ CheckInsert \/ RaiseBeforeInsert \/ Insert \/ InsertFails
  \/ CommitRow \/ CommitRowFails
  \/ UnitBegin \/ UnitBeginFails \/ BodyRaises
  \/ UnitCommit \/ UnitCommitFails \/ UnitReturn
  \/ UnitRollback \/ UnitPoisons
  \/ GatedCommit \/ GatedRollback \/ ReadThroughCache
  \/ Close \/ Crash \/ Open \/ OutsideCommit

Spec == Init /\ [][Next]_vars

-----------------------------------------------------------------------------
(* What the host relies on.                                                *)

TypeOK ==
  /\ file \subseteq Row /\ outside \in 0..MaxOutside
  /\ staged \subseteq Row
  /\ tx \in {"none", "deferred", "holding"}
  /\ moved \in BOOLEAN /\ handle \in {"open", "closed"}
  /\ head \in Nat \union {NoSeq} /\ logVersion \in Nat
  /\ unitOpen \in BOOLEAN /\ unitCommitted \in BOOLEAN
  /\ precall \in Nat \union {NoSeq}
  /\ poisoned \in BOOLEAN
  /\ cache.at \in Int /\ cache.rows \subseteq Row
  /\ call \in Calls \union {NoCall}
  /\ pc \in {"idle", "appending", "sequenced", "checked", "inserted", "setup",
             "body", "committed", "failing"}
  /\ next \in [seq : Nat, target : Nat]
  /\ wrote \in [Calls -> Nat]
  /\ answer \in [Calls -> Answers]

RowsOf(rows, c) == {r \in rows : r.by = c}
WholeIn(rows, c) == {r.part : r \in RowsOf(rows, c)} = 1..wrote[c]

\* A set is in the file whole or not at all, at every instant: between its
\* rows, after any failed COMMIT, after a crash, after a poisoned rollback.
\* (atomic_unit's single commit; no borrowed commit lands inside a unit.)
AllOrNone ==
  \A c \in Sets : RowsOf(file, c) = {} \/ WholeIn(file, c)

\* What a set was told is true from then on: "ok" means durable and whole,
\* AtomicAbort means none of its rows exists, committed or pending.
\* (_run_atomic wraps an error in AtomicAbort only when the rollback is
\* certain.)
AnswersAreTrue ==
  \A c \in Sets : /\ answer[c] = "ok" => WholeIn(file, c)
                  /\ answer[c] = "abort" => RowsOf(View, c) = {}

\* Row numbers name one row each on everything a read can see, whatever
\* another connection appended and whatever was rolled back and minted again.
SeqNamesOneRow ==
  \A r, q \in View : r.seq = q.seq => r = q

\* Wherever code can run, the tracked head is the last visible row's number:
\* through rollbacks, failed commits left pending and aborted sets.
HeadIsLastRow ==
  Borrowed /\ ~moved /\ head # NoSeq => head = HighSeq(View)

\* A derived cache that would be served holds exactly the visible rows: no
\* rolled-back row survives in it, though a rollback followed by new appends
\* can bring the head back to where the cache was built.
CacheIsCurrent ==
  Borrowed /\ ~moved /\ CacheServes => cache.rows = View

\* What the handle keeps of the log is the log as a read sees it: the head, and every
\* derived cache it would serve (head, log_version).
ViewsAreCurrent == HeadIsLastRow /\ CacheIsCurrent

\* Once another connection has committed behind this handle, the handle adds
\* no row to the file again: nothing is written on a head it cannot see.
OvertakenHandleIsSilent ==
  [][moved /\ moved' => \A r \in file' \ file : r.by = Outsider]_vars

\* The same steps, read as the host reads them: PatternBuffer implements the
\* append-only log of WorldLog.  The log only grows, and at its end: no commit
\* of this handle or of another lands a row below one readers already saw; a
\* set's rows appear in one step, before its answer or never.
Log == INSTANCE WorldLog WITH log <- file
ImplementsLog == Log!Spec

=============================================================================
