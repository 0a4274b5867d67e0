----------------------------- MODULE RecordQueue -----------------------------
(***************************************************************************)
(* RecordQueue (js/patternbuffer/queue.mjs, lock.mjs): record calls waiting *)
(* on a device until the service is reachable.                             *)
(*                                                                         *)
(*   a page adds calls to a FIFO the origin's tabs share, and flushes it:  *)
(*   the head is sent, and dropped when the service gives a final answer;  *)
(*   add and flush are async tasks of one page, and interleave; two locks  *)
(*   order them, `key` for flushes and a write lock for read-and-put;      *)
(*   the network delays, loses and outlives requests; a page may be closed *)
(*   at any await.                                                         *)
(***************************************************************************)
EXTENDS Integers, Sequences, SequencesExt

CONSTANTS
  Pages,       \* tabs of one origin
  QueueCalls,       \* record calls, each added once
  Bad,         \* the calls whose content the service refuses
  NoCall,      \* not a call (JavaScript's undefined)
  SharedLocks, \* navigator.locks exists: a lock spans the origin's tabs
  MaxSends,    \* bound: requests sent
  MaxCloses    \* bound: pages closed

ASSUME QueueConstants ==
  /\ Bad \subseteq QueueCalls /\ NoCall \notin QueueCalls
  /\ SharedLocks \in BOOLEAN
  /\ MaxSends \in Nat /\ MaxCloses \in Nat

VARIABLES
  store,      \* the persisted FIFO
  adding,     \* each page's add: [pc, call, calls], calls as it read them
  flushing,   \* each page's flush: [pc, call, req, calls]
  request,    \* the requests sent: [call, status]
  closes,     \* history: how many times a page was closed
  wrote,        \* history: the calls the service wrote, in order
  added,      \* history: the calls whose add was persisted, in order
  final       \* history: the calls a flush dropped on a final answer

deviceVars == <<store, adding, flushing>>
historyVars == <<closes, wrote, added, final>>
queueVars == <<deviceVars, request, historyVars>>

NotAdding == [pc |-> "idle", call |-> NoCall, calls |-> <<>>]
NotFlushing == [pc |-> "idle", call |-> NoCall, req |-> 0, calls |-> <<>>]

QueueInit ==
  /\ store = <<>>
  /\ adding = [p \in Pages |-> NotAdding]
  /\ flushing = [p \in Pages |-> NotFlushing]
  /\ request = <<>> /\ closes = 0
  /\ wrote = <<>> /\ added = <<>> /\ final = {}

-----------------------------------------------------------------------------
(* withLock(): the browser's lock, or a promise chain inside the page.  A  *)
(* lock is held by the task that is inside its section.                    *)

Reach(p) == IF SharedLocks THEN Pages ELSE {p}
KeyFree(p) == \A q \in Reach(p) : flushing[q].pc = "idle"
WriteFree(p) ==
  \A q \in Reach(p) : adding[q].pc # "put" /\ flushing[q].pc # "put"

-----------------------------------------------------------------------------
(* add()                                                                   *)

New(c) == c \notin Range(added) /\ \A q \in Pages : adding[q].call # c

\* add() was called with a well-formed call, and waits for the write lock.
Add(p, c) ==
  /\ adding[p].pc = "idle" /\ New(c)
  /\ adding' = [adding EXCEPT ![p] = [pc |-> "wait", call |-> c, calls |-> <<>>]]
  /\ UNCHANGED <<store, flushing, request, historyVars>>

\* A wrong form: the queue is read with no lock held.
AddReadUnlocked(p) ==
  /\ adding[p].pc = "wait"
  /\ adding' = [adding EXCEPT ![p].pc = "put", ![p].calls = store]
  /\ UNCHANGED <<store, flushing, request, historyVars>>

AddRead(p) ==
  /\ adding[p].pc = "wait" /\ WriteFree(p)
  /\ adding' = [adding EXCEPT ![p].pc = "put", ![p].calls = store]
  /\ UNCHANGED <<store, flushing, request, historyVars>>

\* The put resolves, or rejects (no space) and the add with it.
AddPut(p) ==
  /\ adding[p].pc = "put"
  /\ adding' = [adding EXCEPT ![p] = NotAdding]
  /\ \/ /\ store' = Append(adding[p].calls, adding[p].call)
        /\ added' = Append(added, adding[p].call)
     \/ UNCHANGED <<store, added>>
  /\ UNCHANGED <<flushing, request, closes, wrote, final>>

-----------------------------------------------------------------------------
(* flush()                                                                 *)

StartFlush(p) ==
  /\ flushing[p].pc = "idle" /\ KeyFree(p)
  /\ flushing' = [flushing EXCEPT ![p].pc = "read"]
  /\ UNCHANGED <<store, adding, request, historyVars>>

Send(p, c) ==
  /\ Len(request) < MaxSends
  /\ request' = Append(request, [call |-> c, status |-> "sent"])
  /\ flushing' = [flushing EXCEPT ![p] =
                    [pc |-> "sent", call |-> c, req |-> Len(request'), calls |-> <<>>]]

StopFlush(p) == flushing' = [flushing EXCEPT ![p] = NotFlushing]

\* The loop's read: nothing waits, or its head is sent.  (Out of requests, the
\* bounded model ends the flush.)
FlushRead(p) ==
  /\ flushing[p].pc = "read"
  /\ IF store = <<>> \/ Len(request) = MaxSends
     THEN StopFlush(p) /\ UNCHANGED request
     ELSE Send(p, Head(store))
  /\ UNCHANGED <<store, adding, historyVars>>

\* A wrong form: no time limit on the transport.
NeverTimesOut(p) == FALSE /\ p \in Pages /\ UNCHANGED queueVars

\* A wrong form: a call with no answer goes to the back of the queue.
FlushRequeues(p) ==
  /\ flushing[p].pc = "sent" /\ StopFlush(p)
  /\ store' = Append(SelectSeq(store, LAMBDA c : c # flushing[p].call), flushing[p].call)
  /\ UNCHANGED <<adding, request, historyVars>>

\* No answer in timeoutMs, or the network throws: the flush ends, keeping the
\* call; its request may still arrive.
FlushGivesUp(p) ==
  /\ flushing[p].pc = "sent" /\ StopFlush(p)
  /\ UNCHANGED <<store, adding, request, historyVars>>

\* recorded and refused (or a 400) are final; any other answer ends the flush.
FlushAnswered(p) ==
  /\ flushing[p].pc = "sent"
  /\ LET status == request[flushing[p].req].status IN
     \/ /\ status \in {"recorded", "refused"}
        /\ flushing' = [flushing EXCEPT ![p].pc = "drop"]
     \/ status = "error" /\ StopFlush(p)
  /\ UNCHANGED <<store, adding, request, historyVars>>

\* dropHead() under the write lock: read ...
DropRead(p) ==
  /\ flushing[p].pc = "drop" /\ WriteFree(p)
  /\ flushing' = [flushing EXCEPT ![p].pc = "put", ![p].calls = store]
  /\ UNCHANGED <<store, adding, request, historyVars>>

\* ... shift, and put back; a put that fails ends the flush.
DropPut(p) ==
  /\ flushing[p].pc = "put"
  /\ \/ /\ store' = IF flushing[p].calls = <<>> THEN <<>> ELSE Tail(flushing[p].calls)
        /\ final' = final \union {flushing[p].call}
        /\ flushing' = [flushing EXCEPT ![p] = [NotFlushing EXCEPT !.pc = "read"]]
     \/ StopFlush(p) /\ UNCHANGED <<store, final>>
  /\ UNCHANGED <<adding, request, closes, wrote, added>>

-----------------------------------------------------------------------------
(* The page, the network and the service.                                  *)

\* The page closes: its tasks are gone, its locks free, its requests not.
ClosePage(p) ==
  /\ closes < MaxCloses /\ closes' = closes + 1
  /\ adding' = [adding EXCEPT ![p] = NotAdding] /\ StopFlush(p)
  /\ UNCHANGED <<store, request, wrote, added, final>>

Respond(r, status) == request' = [request EXCEPT ![r].status = status]

\* _submit_record answers the bare `recorded` or `refused`: refused for what
\* the call says, for a World detached, for a pump that did not come in time
\* (neither ever ran), or for an error after the commit.
ServeRecorded(r) ==
  /\ request[r].call \notin Bad
  /\ wrote' = Append(wrote, request[r].call)
  /\ \E status \in {"recorded", "refused"} : Respond(r, status)

ServeRefused(r) == request[r].call \in Bad /\ Respond(r, "refused") /\ UNCHANGED wrote

ServeNotRun(r) == Respond(r, "refused") /\ UNCHANGED wrote

\* Never reaches the service, or it fails with a 5xx before the job.
Unserved(r) == Respond(r, "error") /\ UNCHANGED wrote

Serve(r) ==
  /\ request[r].status = "sent"
  /\ ServeRecorded(r) \/ ServeRefused(r) \/ ServeNotRun(r) \/ Unserved(r)
  /\ UNCHANGED <<deviceVars, closes, added, final>>

-----------------------------------------------------------------------------
AddStep(p) == AddRead(p) \/ AddPut(p)
FlushStep(p) == FlushRead(p) \/ FlushAnswered(p) \/ DropRead(p) \/ DropPut(p)

QueueNext ==
  \/ \E p \in Pages :
       \/ \E c \in QueueCalls : Add(p, c)
       \/ StartFlush(p) \/ AddStep(p) \/ FlushStep(p)
       \/ FlushGivesUp(p) \/ ClosePage(p)
  \/ \E r \in 1..Len(request) : Serve(r)

QueueSpec == QueueInit /\ [][QueueNext]_queueVars

\* Storage answers, and a task waiting for a lock is given it in its turn
\* (strong fairness: a lock is first come, first served, and others may hold it
\* in between).  Neither the service's answer nor the timer is assumed.
QueueFairness ==
  \A p \in Pages :
    /\ SF_queueVars(AddRead(p)) /\ WF_queueVars(AddPut(p))
    /\ WF_queueVars(FlushRead(p)) /\ WF_queueVars(FlushAnswered(p))
    /\ SF_queueVars(DropRead(p)) /\ WF_queueVars(DropPut(p))

FairQueueSpec == QueueSpec /\ QueueFairness

\* httpTransport's timer (timeoutMs, 15 s) runs out.
TimerRuns == \A p \in Pages : WF_queueVars(FlushGivesUp(p))

-----------------------------------------------------------------------------
(* What a page relies on.                                                  *)

QueueTypeOK ==
  /\ store \in Seq(QueueCalls) /\ IsInjective(store)
  /\ \A p \in Pages :
       /\ adding[p].pc \in {"idle", "wait", "put"}
       /\ adding[p].call \in QueueCalls \union {NoCall} /\ adding[p].calls \in Seq(QueueCalls)
       /\ flushing[p].pc \in {"idle", "read", "sent", "drop", "put"}
       /\ flushing[p].call \in QueueCalls \union {NoCall} /\ flushing[p].calls \in Seq(QueueCalls)
       /\ flushing[p].req \in 0..Len(request)
  /\ request \in Seq([call : QueueCalls,
                      status : {"sent", "recorded", "refused", "error"}])
  /\ wrote \in Seq(QueueCalls) /\ added \in Seq(QueueCalls) /\ final \subseteq QueueCalls

\* A persisted call stays in the queue until a final answer to it: an add, a
\* drop and another tab's flush never overwrite one another, and a page closed
\* halfway loses nothing.
NoCallLost ==
  /\ QueueTypeOK
  /\ \A c \in Range(added) : c \in Range(store) \/ c \in final

\* "Send the waiting calls in order": no call reaches the log before those
\* queued ahead of it have their final answers, though requests outlive flushes.
WritesInOrder ==
  \A i, j \in 1..Len(added) :
    i < j /\ added[j] \in Range(wrote) => added[i] \in final

\* "An add never waits for the network while a flush holds the queue's key":
\* it ends though the service never answers and the transport has no timer.
AddNeverWaitsOnNetwork ==
  \A p \in Pages : adding[p].pc # "idle" ~> adding[p].pc = "idle"

\* The transport's timer keeps a hung request from holding the queue's lock:
\* every flush ends.
FlushEnds ==
  TimerRuns => \A p \in Pages : flushing[p].pc # "idle" ~> flushing[p].pc = "idle"

\* No page waits for good on the network or on another page's lock.
NoPageWaits == AddNeverWaitsOnNetwork /\ FlushEnds

-----------------------------------------------------------------------------
(* Stated by the docs and not kept by the code (see README, section 6).    *)

\* "Delivery is at least once" (queue.mjs:7): a call dropped from the queue was
\* written, unless what it says is refused.
DeliveredAtLeastOnce == final \ Bad \subseteq Range(wrote)

=============================================================================
