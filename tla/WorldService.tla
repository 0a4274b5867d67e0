---------------------------- MODULE WorldService -----------------------------
(***************************************************************************)
(* WorldService (service.py): one World, owned by one thread, served to    *)
(* many clients.                                                           *)
(*                                                                         *)
(*   the host's thread   attaches, pumps (runs queued jobs, publishes a    *)
(*                       snapshot), detaches; it alone touches the World;  *)
(*   a reader thread     one per attachment; answers reads from the latest *)
(*                       snapshot it took;                                 *)
(*   client threads      make one call each: a job (resolve, record) or a  *)
(*                       read; a job not started in time is cancelled.     *)
(*                                                                         *)
(* Shared: _world and _reader (plain fields), the two queues, each job's   *)
(* state under its lock, the published and held snapshots under _pub_lock. *)
(***************************************************************************)
EXTENDS Integers, Sequences, FiniteSets

CONSTANTS
  Jobs,            \* client calls that need the World (resolve, record)
  Reads,           \* client calls answered from a snapshot
  Earlier,         \* the call whose answer this one's client waits for first
  Stop,            \* the None that ends the reader's loop; no job
  MaxAttach,       \* bound: attach calls, each to another World
  MaxLog,          \* bound: commits to each World's log
  SnapshotMayFail, \* whether taking a snapshot may raise
  JoinMayTimeOut   \* whether the reader may outlive detach's 10 s join

Calls == Jobs \union Reads

ASSUME ServiceConstants ==
  /\ Jobs \intersect Reads = {} /\ Stop \notin Calls
  /\ Earlier \in [Calls -> Calls \union {Stop}]  \* Stop: its client's first
  /\ MaxAttach \in Nat \ {0} /\ MaxLog \in [0..MaxAttach -> Nat]
  /\ SnapshotMayFail \in BOOLEAN /\ JoinMayTimeOut \in BOOLEAN

\* A World is known by the attachment that binds it; 0 is none.
Worlds == 0..MaxAttach
\* A snapshot is of a World at a version of its log.
Snapshot == [world : Worlds, at : Nat]
NoSnapshot == [world |-> 0, at |-> 0]

VARIABLES
  world,      \* _world
  attached,   \* history: how many times attach bound a World
  log,        \* each World's committed version (head and verdict_version)
  owner,      \* where the host's thread stands
  job,        \* the job it is running
  key,        \* _key: the version of the last snapshot, -1 for None
  reader,     \* _reader: the attachment whose thread it is, 0 for None
  jobs,       \* _jobs
  reads,      \* _reads
  published,  \* _published
  held,       \* _reader_has
  open,       \* the snapshots whose connection is not closed
  thread,     \* each attachment's reader thread: [pc, req, snap]
  state,      \* each job's state, under its lock
  result,     \* the result put in each job or read
  client,     \* where each client stands
  answer,     \* history: what each call answered
  asked,      \* history: the World each call was made to, at its last pump
  ranIn       \* history: the World each job wrote in

ownerVars == <<world, attached, log, owner, job, key, reader>>
snapVars == <<published, held, open>>
callVars == <<state, result, client, answer, asked, ranIn>>
vars == <<ownerVars, jobs, reads, snapVars, thread, callVars>>

\* What a call can be told; a read that was answered names its snapshot.
Tell(what) == [tell |-> what, snap |-> NoSnapshot]
Pending == Tell("pending")
Detached == Tell("detached")
Answer == [tell : {"pending", "detached", "recorded", "refused", "deferred",
                   "timeout", "read"}, snap : Snapshot]

Init ==
  /\ world = 0 /\ attached = 0 /\ log = [w \in Worlds |-> 0]
  /\ owner = "host" /\ job = Stop /\ key = -1 /\ reader = 0
  /\ jobs = <<>> /\ reads = <<>>
  /\ published = NoSnapshot /\ held = NoSnapshot /\ open = {}
  /\ thread = [w \in Worlds |-> [pc |-> "off", req |-> Stop, snap |-> NoSnapshot]]
  /\ state = [c \in Jobs |-> "new"]
  /\ result = [c \in Calls |-> Pending]
  /\ client = [c \in Calls |-> "idle"]
  /\ answer = [c \in Calls |-> Pending]
  /\ asked = [c \in Calls |-> NoSnapshot]
  /\ ranIn = [c \in Jobs |-> 0]

-----------------------------------------------------------------------------
(* The host's thread.                                                      *)

\* A wrong form: the replaced snapshot is closed though the reader has it.
RefreshClosesHeld ==
  IF key = log[world] THEN UNCHANGED <<key, published, open>>
  ELSE /\ key' = log[world]
       /\ published' = [world |-> world, at |-> log[world]]
       /\ open' = (open \ {published}) \union {published'}

\* _refresh(): a new snapshot when the log moved since the last one.  The old
\* one is closed here unless the reader took it.
Refresh ==
  IF key = log[world] THEN UNCHANGED <<key, published, open>>
  ELSE /\ key' = log[world]
       /\ published' = [world |-> world, at |-> log[world]]
       /\ open' = (open \ ({published} \ {held})) \union {published'}

\* World.snapshot() raises out of the attach or the pump.
RefreshRaises ==
  SnapshotMayFail /\ key # log[world] /\ UNCHANGED <<key, published, open>>

\* attach() binds the World ...
Attach ==
  /\ owner = "host" /\ world = 0 /\ attached < MaxAttach
  /\ attached' = attached + 1 /\ world' = attached'
  /\ key' = -1 /\ owner' = "attaching"
  /\ UNCHANGED <<log, job, reader, jobs, reads, snapVars, thread, callVars>>

\* ... takes the first snapshot and starts the reader; or raises, half bound.
StartReader ==
  /\ owner = "attaching" /\ owner' = "host"
  /\ \/ /\ Refresh
        /\ reader' = world
        /\ thread' = [thread EXCEPT ![world].pc = "waiting"]
     \/ RefreshRaises /\ UNCHANGED <<reader, thread>>
  /\ UNCHANGED <<world, attached, log, job, jobs, reads, held, callVars>>

\* The host writes its own World between pumps.
HostCommits ==
  /\ owner = "host" /\ world # 0 /\ log[world] < MaxLog[world]
  /\ log' = [log EXCEPT ![world] = @ + 1]
  /\ UNCHANGED <<world, attached, owner, job, key, reader, jobs, reads,
                 snapVars, thread, callVars>>

Pump ==
  /\ owner = "host" /\ owner' = "pumping"
  /\ UNCHANGED <<world, attached, log, job, key, reader, jobs, reads,
                 snapVars, thread, callVars>>

\* A wrong form: the job's state is not looked at.
ClaimAnyJob ==
  /\ owner = "pumping" /\ jobs # <<>>
  /\ jobs' = Tail(jobs)
  /\ job' = Head(jobs) /\ owner' = "running"
  /\ state' = [state EXCEPT ![Head(jobs)] = "running"]
  /\ UNCHANGED <<world, attached, log, key, reader, reads, snapVars, thread,
                 result, client, answer, asked, ranIn>>

\* The pump takes the next job and claims it, unless its caller gave up.
ClaimJob ==
  /\ owner = "pumping" /\ jobs # <<>>
  /\ jobs' = Tail(jobs)
  /\ IF state[Head(jobs)] = "queued"
     THEN /\ job' = Head(jobs) /\ owner' = "running"
          /\ state' = [state EXCEPT ![Head(jobs)] = "running"]
     ELSE UNCHANGED <<job, owner, state>>
  /\ UNCHANGED <<world, attached, log, key, reader, reads, snapVars, thread,
                 result, client, answer, asked, ranIn>>

\* A wrong form: an error leaves the done event unset.
RunJobUnfinished ==
  /\ owner = "running" /\ owner' = "pumping" /\ job' = Stop
  /\ state' = [state EXCEPT ![job] = "done"]
  /\ UNCHANGED <<log, ranIn, result, world, attached, key, reader, jobs, reads,
                 snapVars, thread, client, answer, asked>>

\* What a job whose rows are durable answers: an error after the commit of its
\* set is caught, and answers refused like one before it.
RecordOutcomes == {"recorded", "refused"}

\* The job's outcome: rows committed, or refused with none.
RunJob ==
  /\ owner = "running" /\ owner' = "pumping" /\ job' = Stop
  /\ state' = [state EXCEPT ![job] = "done"]
  /\ \/ /\ world = 0
        /\ result' = [result EXCEPT ![job] = Detached]
        /\ UNCHANGED <<log, ranIn>>
     \/ /\ world # 0 /\ log[world] < MaxLog[world]
        /\ log' = [log EXCEPT ![world] = @ + 1]
        /\ ranIn' = [ranIn EXCEPT ![job] = world]
        /\ \E what \in RecordOutcomes :
             result' = [result EXCEPT ![job] = Tell(what)]
     \/ /\ world # 0
        /\ result' = [result EXCEPT ![job] = Tell("refused")]
        /\ UNCHANGED <<log, ranIn>>
  /\ UNCHANGED <<world, attached, key, reader, jobs, reads, snapVars, thread,
                 client, answer, asked>>

\* No job left: publish what the log became and return to the host.
PumpEnds ==
  /\ owner = "pumping" /\ jobs = <<>> /\ owner' = "host"
  /\ IF world = 0 THEN UNCHANGED <<key, published, open>>
     ELSE Refresh \/ RefreshRaises
  /\ UNCHANGED <<world, attached, log, job, reader, jobs, reads, held, thread,
                 callVars>>

Detach ==
  /\ owner = "host" /\ world # 0
  /\ world' = 0 /\ owner' = "draining"
  /\ UNCHANGED <<attached, log, job, key, reader, jobs, reads, snapVars,
                 thread, callVars>>

\* _drain_jobs()
DrainJob ==
  /\ owner = "draining" /\ jobs # <<>>
  /\ jobs' = Tail(jobs)
  /\ IF state[Head(jobs)] = "queued"
     THEN /\ state' = [state EXCEPT ![Head(jobs)] = "done"]
          /\ result' = [result EXCEPT ![Head(jobs)] = Detached]
     ELSE UNCHANGED <<state, result>>
  /\ UNCHANGED <<ownerVars, reads, snapVars, thread, client, answer, asked,
                 ranIn>>

\* Tell the reader to stop, if there is one.
StopReader ==
  /\ owner = "draining" /\ jobs = <<>>
  /\ reader' = 0
  /\ IF reader = 0 THEN owner' = "retiring" /\ UNCHANGED reads
     ELSE owner' = "joining" /\ reads' = Append(reads, Stop)
  /\ UNCHANGED <<world, attached, log, job, key, jobs, snapVars, thread,
                 callVars>>

\* reader.join(timeout=10)
JoinReader ==
  /\ owner = "joining" /\ owner' = "retiring"
  /\ thread[attached].pc = "off" \/ JoinMayTimeOut
  /\ UNCHANGED <<world, attached, log, job, key, reader, jobs, reads, snapVars,
                 thread, callVars>>

\* Close what is left.
Retire ==
  /\ owner = "retiring" /\ owner' = "host"
  /\ open' = open \ {published, held}
  /\ published' = NoSnapshot /\ held' = NoSnapshot
  /\ key' = -1
  /\ UNCHANGED <<world, attached, log, job, reader, jobs, reads, thread,
                 callVars>>

-----------------------------------------------------------------------------
(* The reader threads.                                                     *)

Reader(t, pc, req, snap) ==
  thread' = [thread EXCEPT ![t] = [pc |-> pc, req |-> req, snap |-> snap]]

TakeRead(t) ==
  /\ thread[t].pc = "waiting" /\ reads # <<>>
  /\ reads' = Tail(reads)
  /\ Reader(t, IF Head(reads) = Stop THEN "clearing" ELSE "taken", Head(reads),
            NoSnapshot)
  /\ UNCHANGED <<ownerVars, jobs, snapVars, callVars>>

\* _take_snapshot(): move to the published snapshot and close the one held.
TakeSnapshot(t) ==
  /\ thread[t].pc = "taken"
  /\ held' = published
  /\ open' = open \ ({held} \ {published})
  /\ Reader(t, "reading", thread[t].req, published)
  /\ UNCHANGED <<ownerVars, jobs, reads, published, callVars>>

AnswerRead(t) ==
  /\ thread[t].pc = "reading"
  /\ result' = [result EXCEPT ![thread[t].req] =
                  IF thread[t].snap = NoSnapshot THEN Detached
                  ELSE [tell |-> "read", snap |-> thread[t].snap]]
  /\ Reader(t, "waiting", Stop, NoSnapshot)
  /\ UNCHANGED <<ownerVars, jobs, reads, snapVars, state, client, answer,
                 asked, ranIn>>

\* Told to stop: answer anything queued behind, then exit.
ClearRead(t) ==
  /\ thread[t].pc = "clearing"
  /\ IF reads = <<>>
     THEN Reader(t, "off", Stop, NoSnapshot) /\ UNCHANGED <<reads, result>>
     ELSE /\ reads' = Tail(reads)
          /\ IF Head(reads) = Stop THEN UNCHANGED result
             ELSE result' = [result EXCEPT ![Head(reads)] = Detached]
          /\ UNCHANGED thread
  /\ UNCHANGED <<ownerVars, jobs, snapVars, state, client, answer, asked,
                 ranIn>>

-----------------------------------------------------------------------------
(* The clients.                                                            *)

Answers(c, what) ==
  client' = [client EXCEPT ![c] = "answered"] /\ answer' = [answer EXCEPT ![c] = what]

\* _submit and _read first look at the service's fields ...
Ask(c) ==
  /\ client[c] = "idle"
  /\ Earlier[c] # Stop => client[Earlier[c]] = "answered"
  /\ IF world = 0 \/ (c \in Reads /\ reader = 0)
     THEN Answers(c, Detached) /\ UNCHANGED asked
     ELSE /\ client' = [client EXCEPT ![c] = "checked"]
          /\ asked' = [asked EXCEPT ![c] =
                        [world |-> world, at |-> IF c \in Reads THEN published.at ELSE 0]]
          /\ UNCHANGED answer
  /\ UNCHANGED <<ownerVars, jobs, reads, snapVars, thread, state, result, ranIn>>

\* ... and then queue the call, under no lock the host takes.
Enqueue(c) ==
  /\ client[c] = "checked"
  /\ client' = [client EXCEPT ![c] = "waiting"]
  /\ IF c \in Jobs
     THEN /\ jobs' = Append(jobs, c) /\ UNCHANGED reads
          /\ state' = [state EXCEPT ![c] = "queued"]
     ELSE reads' = Append(reads, c) /\ UNCHANGED <<jobs, state>>
  /\ UNCHANGED <<ownerVars, snapVars, thread, result, answer, asked, ranIn>>

\* Its event is set in time, or later.
GetResult(c) ==
  /\ client[c] \in {"waiting", "late"} /\ result[c] # Pending
  /\ Answers(c, result[c])
  /\ UNCHANGED <<ownerVars, jobs, reads, snapVars, thread, state, result,
                 asked, ranIn>>

\* The wait is over.  A queued job is cancelled under its lock, a running one
\* is waited for; a read just raises TimeoutError.
TimeOut(c) ==
  /\ client[c] = "waiting" /\ result[c] = Pending
  /\ \/ /\ c \in Reads /\ Answers(c, Tell("timeout")) /\ UNCHANGED state
     \/ /\ c \in Jobs /\ state[c] = "queued"
        /\ state' = [state EXCEPT ![c] = "cancelled"]
        /\ Answers(c, Tell("deferred"))
     \/ /\ c \in Jobs /\ state[c] # "queued"
        /\ client' = [client EXCEPT ![c] = "late"]
        /\ UNCHANGED <<state, answer>>
  /\ UNCHANGED <<ownerVars, jobs, reads, snapVars, thread, result, asked, ranIn>>

-----------------------------------------------------------------------------
HostStep == Attach \/ HostCommits \/ Pump \/ Detach
OwnerStep ==
  \/ StartReader \/ ClaimJob \/ RunJob \/ PumpEnds
  \/ DrainJob \/ StopReader \/ JoinReader \/ Retire
ReaderStep(t) == TakeRead(t) \/ TakeSnapshot(t) \/ AnswerRead(t) \/ ClearRead(t)
ClientStep(c) == Enqueue(c) \/ GetResult(c) \/ TimeOut(c)

Next ==
  \/ HostStep \/ OwnerStep
  \/ \E t \in 1..MaxAttach : ReaderStep(t)
  \/ \E c \in Calls : Ask(c) \/ ClientStep(c)

Spec == Init /\ [][Next]_vars

\* The host need never call the service again and no client need call it; but
\* a call the host is inside of runs on, a thread that can run does, and every
\* wait ends.
Fairness ==
  /\ WF_vars(OwnerStep)
  /\ \A t \in 1..MaxAttach : WF_vars(ReaderStep(t))
  /\ \A c \in Calls : WF_vars(ClientStep(c))

FairSpec == Spec /\ Fairness
-----------------------------------------------------------------------------
(* What hosts and clients rely on.                                         *)

TypeOK ==
  /\ world \in Worlds /\ attached \in Worlds /\ log \in [Worlds -> Nat]
  /\ owner \in {"host", "attaching", "pumping", "running", "draining",
                "joining", "retiring"}
  /\ job \in Jobs \union {Stop} /\ key \in Nat \union {-1} /\ reader \in Worlds
  /\ jobs \in Seq(Jobs) /\ reads \in Seq(Reads \union {Stop})
  /\ published \in Snapshot /\ held \in Snapshot /\ open \subseteq Snapshot
  /\ thread \in [Worlds -> [pc : {"off", "waiting", "taken", "reading",
                                  "clearing"},
                            req : Reads \union {Stop}, snap : Snapshot]]
  /\ state \in [Jobs -> {"new", "queued", "running", "done", "cancelled"}]
  /\ result \in [Calls -> Answer] /\ answer \in [Calls -> Answer]
  /\ client \in [Calls -> {"idle", "checked", "waiting", "late", "answered"}]
  /\ asked \in [Calls -> Snapshot]
  /\ ranIn \in [Jobs -> Worlds]

\* A job that gave up waiting, or was told the world is gone, never writes, then
\* or later, and one told it recorded did: the cancel, the claim and the drain
\* meet on the job's lock.
AnswerMatchesRun ==
  \A c \in Jobs :
    /\ answer[c].tell \in {"deferred", "detached"} => ranIn[c] = 0
    /\ answer[c].tell = "recorded" => ranIn[c] # 0

\* A reader never reads a snapshot whose connection has been closed, by the
\* host's refresh or detach or by its own next take.
ReadsOpenSnapshot ==
  \A t \in 1..MaxAttach :
    thread[t].pc = "reading" /\ thread[t].snap # NoSnapshot => thread[t].snap \in open

\* No snapshot leaks: an open copy is one the service can still close, so two
\* at most exist and none outlives its detach.
NoSnapshotLeaks ==
  /\ open \subseteq {published, held}
  /\ owner = "host" /\ world = 0 => open = {}

\* Between calls of the service, what viewers are served is the World now
\* hosted, and the log as the last refresh saw it.
ServesHostedWorld ==
  owner = "host" /\ reader # 0 => published.world = world /\ published.at = key

\* A read answers a version at least as new as the last pump before it was
\* asked, though the reader holds older snapshots.
ReadsAreFresh ==
  \A c \in Reads :
    answer[c].tell = "read" /\ answer[c].snap.world = asked[c].world =>
      answer[c].snap.at >= asked[c].at

\* Viewers are served snapshots that are open, of the World hosted now and no older
\* than the last pump, and none is left open behind (attach, _refresh, _take, detach).
SnapshotsAreSound ==
  /\ TypeOK
  /\ ReadsOpenSnapshot /\ NoSnapshotLeaks
  /\ ServesHostedWorld /\ ReadsAreFresh

\* Every call is answered: the bounded wait, the drain at detach and the
\* reader's clearing of its queue leave nobody waiting.
EveryCallAnswers ==
  \A c \in Calls : client[c] = "checked" ~> client[c] = "answered"

\* The host gets its thread back from attach, pump and detach.
HostReturns == owner # "host" ~> owner = "host"

\* Neither a client nor the host waits for good on the other.
NobodyWaits == EveryCallAnswers /\ HostReturns

-----------------------------------------------------------------------------
(* Stated by the docs and not kept by the code (see README, 6).         *)

\* "Queued jobs answer `detached`; later calls do too" (detach, service.py:334):
\* a call made of one World is not run in, or answered from, the next.
NoCallCrossesWorlds ==
  /\ \A c \in Jobs : ranIn[c] # 0 => ranIn[c] = asked[c].world
  /\ \A c \in Reads :
       answer[c].tell = "read" => answer[c].snap.world = asked[c].world

=============================================================================
