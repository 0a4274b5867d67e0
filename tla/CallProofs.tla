----------------------------- MODULE CallProofs -----------------------------
(***************************************************************************)
(* What a recorded call may rely on, on the device (RecordQueue) and at    *)
(* the service (WorldService).                                             *)
(*                                                                         *)
(* The queue, for every set of pages and of calls and every bound, where   *)
(* the browser has locks that span an origin's tabs.  Neither of its       *)
(* properties is inductive.  What keeps both is one picture: the stored    *)
(* queue is the rest of the calls added, in order, behind those that had   *)
(* their final answer (TailInv); a page between its read and its put holds *)
(* what is stored still (LockInv); the call a flush is about is the head   *)
(* of the queue (HeadInv); and nothing was ever sent but the head of its   *)
(* time (SentInv).                                                         *)
(*                                                                         *)
(* The service, for every set of calls, every number of attachments and    *)
(* commits, and whoever waits for whom.  A job's state changes hands under *)
(* its lock, so each job is cancelled, claimed or drained, and only one of *)
(* the three (JobInv).  A snapshot is open exactly while it is published   *)
(* or held, and the reader reads what it holds (SnapInv), because at most  *)
(* one reader runs and detach closes nothing before it is gone             *)
(* (ThreadInv).  And within one attachment the published snapshot only     *)
(* moves forward, so a read is answered from one no older than it saw when *)
(* it asked (FreshInv).                                                    *)
(***************************************************************************)
EXTENDS RecordQueue, WorldService, SequenceTheorems, TLAPS

-----------------------------------------------------------------------------
(* The queue on the device.                                                *)

\* How many of the added calls have left the queue.
Gone == Len(added) - Len(store)

Types ==
  /\ store \in Seq(QueueCalls) /\ added \in Seq(QueueCalls) /\ wrote \in Seq(QueueCalls)
  /\ final \subseteq QueueCalls /\ closes \in Nat
  /\ adding \in [Pages -> [pc : {"idle", "wait", "put"},
                           call : QueueCalls \union {NoCall}, calls : Seq(QueueCalls)]]
  /\ flushing \in [Pages -> [pc : {"idle", "read", "sent", "drop", "put"},
                             call : QueueCalls \union {NoCall}, req : Nat, calls : Seq(QueueCalls)]]
  /\ request \in Seq([call : QueueCalls, status : {"sent", "recorded", "refused", "error"}])
  /\ \A p \in Pages : flushing[p].req <= Len(request)

TailInv ==
  /\ Len(store) <= Len(added)
  /\ \A i \in 1..Len(store) : store[i] = added[Gone + i]
  /\ final = {added[i] : i \in 1..Gone}
  /\ \A i, j \in 1..Len(added) : added[i] = added[j] => i = j

\* A call being added is in no other hands.
AddInv ==
  \A p \in Pages : adding[p].pc # "idle" =>
    /\ adding[p].call \in QueueCalls
    /\ \A i \in 1..Len(added) : added[i] # adding[p].call
    /\ \A q \in Pages \ {p} : adding[q].call # adding[p].call

LockInv ==
  /\ \A p, q \in Pages : flushing[p].pc # "idle" /\ flushing[q].pc # "idle" => p = q
  /\ \A p \in Pages : adding[p].pc = "put" =>
       /\ adding[p].calls = store
       /\ \A q \in Pages : flushing[q].pc # "put" /\ (adding[q].pc = "put" => q = p)
  /\ \A p \in Pages : flushing[p].pc = "put" => flushing[p].calls = store

HeadInv ==
  \A p \in Pages : flushing[p].pc \in {"sent", "drop", "put"} =>
    store # <<>> /\ flushing[p].call = store[1]

\* A call was the head of the queue when it was sent, or has left it since.
Due(c) == \E j \in 1..Len(added) : j <= Gone + 1 /\ added[j] = c

SentInv ==
  /\ \A r \in 1..Len(request) : Due(request[r].call)
  /\ \A k \in 1..Len(wrote) : Due(wrote[k])

IInv == Types /\ TailInv /\ AddInv /\ LockInv /\ HeadInv /\ SentInv

-----------------------------------------------------------------------------
(* Init, and one lemma per conjunct.                                       *)

\* The queue is empty and every page idle at first.
LEMMA InitIInv == QueueInit => IInv
BY QueueConstants, SMTT(30) DEF QueueInit, IInv, Types, TailInv, AddInv, LockInv, HeadInv, SentInv,
   Gone, NotAdding, NotFlushing

\* What each step leaves alone.
LEMMA Quiet ==
  ASSUME QueueNext
  PROVE  \/ UNCHANGED <<store, added, final>>
         \/ \E p \in Pages : AddPut(p) \/ DropPut(p)
BY DEF QueueNext, Add, StartFlush, AddStep, AddRead, FlushStep, FlushRead, FlushAnswered, DropRead,
   FlushGivesUp, ClosePage, Serve, deviceVars, historyVars

\* The types are kept.
LEMMA TypesStep == ASSUME IInv, [QueueNext]_queueVars PROVE Types'
<1> USE DEF Types
<1>1. CASE UNCHANGED queueVars
  BY <1>1 DEF IInv, queueVars, deviceVars, historyVars
<1>2. ASSUME NEW p \in Pages, NEW c \in QueueCalls, Add(p, c) PROVE Types'
  BY <1>2 DEF IInv, Add, historyVars
<1>3. ASSUME NEW p \in Pages, StartFlush(p) PROVE Types'
  BY <1>3 DEF IInv, StartFlush, historyVars
<1>4. ASSUME NEW p \in Pages, AddRead(p) PROVE Types'
  BY <1>4 DEF IInv, AddRead, historyVars
<1>5. ASSUME NEW p \in Pages, AddPut(p) PROVE Types'
  <2>1. adding[p].calls \in Seq(QueueCalls) /\ adding[p].call \in QueueCalls
    BY <1>5 DEF IInv, AddInv, AddPut
  <2>2. /\ Append(adding[p].calls, adding[p].call) \in Seq(QueueCalls)
        /\ Append(added, adding[p].call) \in Seq(QueueCalls)
    BY <2>1, AppendProperties DEF IInv
  <2>3. store' \in Seq(QueueCalls) /\ added' \in Seq(QueueCalls)
    BY <1>5, <2>2 DEF IInv, AddPut
  <2> QED
    BY <1>5, <2>3 DEF IInv, AddPut, NotAdding
<1>6. ASSUME NEW p \in Pages, FlushRead(p) PROVE Types'
  <2>1. CASE StopFlush(p) /\ UNCHANGED request
    BY <1>6, <2>1 DEF IInv, FlushRead, StopFlush, NotFlushing, historyVars
  <2>2. CASE store # <<>> /\ Send(p, Head(store))
    <3>1. Head(store) \in QueueCalls
      BY <2>2, HeadTailProperties DEF IInv
    <3> DEFINE message == [call |-> Head(store), status |-> "sent"]
    <3>2. /\ request' \in Seq([call : QueueCalls,
                              status : {"sent", "recorded", "refused", "error"}])
          /\ Len(request') = Len(request) + 1
      BY <2>2, <3>1, AppendProperties DEF IInv, Send
    <3> QED
      BY <1>6, <2>2, <3>1, <3>2 DEF IInv, FlushRead, Send, historyVars
  <2> QED
    BY <1>6, <2>1, <2>2 DEF FlushRead
<1>7. ASSUME NEW p \in Pages, FlushAnswered(p) PROVE Types'
  <2>1. CASE flushing' = [flushing EXCEPT ![p].pc = "drop"]
    BY <1>7, <2>1 DEF IInv, FlushAnswered, historyVars
  <2>2. CASE StopFlush(p)
    BY <1>7, <2>2 DEF IInv, FlushAnswered, StopFlush, NotFlushing, historyVars
  <2> QED
    BY <1>7, <2>1, <2>2 DEF FlushAnswered
<1>8. ASSUME NEW p \in Pages, DropRead(p) PROVE Types'
  BY <1>8 DEF IInv, DropRead, historyVars
<1>9. ASSUME NEW p \in Pages, DropPut(p) PROVE Types'
  <2>1. CASE StopFlush(p) /\ UNCHANGED <<store, final>>
    BY <1>9, <2>1 DEF IInv, DropPut, StopFlush, NotFlushing
  <2>2. CASE ~(StopFlush(p) /\ UNCHANGED <<store, final>>)
    <3>1. flushing[p].calls = store /\ store # <<>> /\ flushing[p].call = store[1]
      BY <1>9 DEF IInv, LockInv, HeadInv, DropPut
    <3>2. Tail(store) \in Seq(QueueCalls) /\ store[1] \in QueueCalls
      BY <3>1, HeadTailProperties DEF IInv
    <3>3. store' \in Seq(QueueCalls) /\ final' \subseteq QueueCalls
      BY <1>9, <2>2, <3>1, <3>2 DEF IInv, DropPut
    <3>4. flushing' = [flushing EXCEPT ![p] =
                         [pc |-> "read", call |-> NoCall, req |-> 0, calls |-> <<>>]]
      BY <1>9, <2>2 DEF DropPut, NotFlushing
    <3>5. /\ flushing' \in [Pages -> [pc : {"idle", "read", "sent", "drop", "put"},
             call : QueueCalls \union {NoCall}, req : Nat, calls : Seq(QueueCalls)]]
          /\ \A q \in Pages : flushing'[q].req <= Len(request)
      BY <3>4 DEF IInv
    <3> QED
      BY <1>9, <3>3, <3>5 DEF IInv, DropPut
  <2> QED
    BY <2>1, <2>2
<1>10. ASSUME NEW p \in Pages, FlushGivesUp(p) PROVE Types'
  BY <1>10 DEF IInv, FlushGivesUp, StopFlush, NotFlushing, historyVars
<1>11. ASSUME NEW p \in Pages, ClosePage(p) PROVE Types'
  BY <1>11 DEF IInv, ClosePage, StopFlush, NotFlushing, NotAdding
<1>12. ASSUME NEW r \in 1..Len(request), Serve(r) PROVE Types'
  <2> DEFINE Message == [call : QueueCalls, status : {"sent", "recorded", "refused", "error"}]
  <2>0. request[r] \in Message /\ request[r].call \in QueueCalls
    <3>1. request \in Seq(Message)
      BY DEF IInv
    <3>2. request[r] \in Message
      BY <3>1, ElementOfSeq
    <3> QED
      BY <3>2
  <2>1. PICK status \in {"recorded", "refused", "error"} : Respond(r, status)
    BY <1>12 DEF Serve, ServeRecorded, ServeRefused, ServeNotRun, Unserved
  <2>2. request' \in Seq(Message) /\ Len(request') = Len(request)
    <3>1. [request[r] EXCEPT !.status = status] \in Message
      BY <2>0
    <3>2. request' = [request EXCEPT ![r] = [request[r] EXCEPT !.status = status]]
      BY <2>1 DEF Respond
    <3> QED
      BY <3>1, <3>2, ExceptSeq DEF IInv
  <2>3. wrote' \in Seq(QueueCalls)
    <3>1. Append(wrote, request[r].call) \in Seq(QueueCalls)
      BY <2>0, AppendProperties DEF IInv
    <3> QED
      BY <1>12, <3>1 DEF IInv, Serve, ServeRecorded, ServeRefused, ServeNotRun, Unserved
  <2> QED
    BY <1>12, <2>2, <2>3 DEF IInv, Serve, deviceVars
<1> QED
  BY <1>1, <1>2, <1>3, <1>4, <1>5, <1>6, <1>7, <1>8, <1>9, <1>10, <1>11, <1>12
     DEF QueueNext, AddStep, FlushStep

\* What the two steps that change the queue make of it.
Grows(c) ==
  /\ Len(store) \in Nat /\ Len(added) \in Nat
  /\ Len(store') = Len(store) + 1 /\ Len(added') = Len(added) + 1
  /\ \A i \in 1..Len(store) : store'[i] = store[i]
  /\ \A i \in 1..Len(added) : added'[i] = added[i]
  /\ store'[Len(store) + 1] = c /\ added'[Len(added) + 1] = c

Shrinks ==
  /\ Len(store) \in Nat \ {0} /\ Len(added) \in Nat
  /\ Len(store') = Len(store) - 1 /\ added' = added
  /\ \A i \in 1..Len(store') : store'[i] = store[i + 1]
  /\ final' = final \union {store[1]}

\* A put of add() that lands puts one call at the end.
LEMMA Added ==
  ASSUME IInv, NEW p \in Pages, AddPut(p), ~UNCHANGED <<store, added>>
  PROVE  adding[p].call \in QueueCalls /\ Grows(adding[p].call)
<1>1. adding[p].calls = store /\ adding[p].call \in QueueCalls
  BY DEF IInv, LockInv, AddInv, AddPut
<1>2. store' = Append(store, adding[p].call) /\ added' = Append(added, adding[p].call)
  BY <1>1 DEF AddPut
<1>3. store \in Seq(QueueCalls) /\ added \in Seq(QueueCalls)
  BY DEF IInv, Types
<1> QED
  BY <1>1, <1>2, <1>3, AppendProperties, LenProperties DEF Grows

\* A put of flush() that lands takes the first call away.
LEMMA Dropped ==
  ASSUME IInv, NEW p \in Pages, DropPut(p), ~(StopFlush(p) /\ UNCHANGED <<store, final>>)
  PROVE  Shrinks
<1>1. flushing[p].calls = store /\ store # <<>> /\ flushing[p].call = store[1]
  BY DEF IInv, LockInv, HeadInv, DropPut
<1>2. store \in Seq(QueueCalls) /\ added \in Seq(QueueCalls)
  BY DEF IInv, Types
<1>3. added' = added /\ final' = final \union {store[1]} /\ store' = Tail(store)
  BY <1>1 DEF DropPut
<1> QED
  BY <1>1, <1>2, <1>3, HeadTailProperties, LenProperties, EmptySeq DEF Shrinks

\* What the loop's read makes of a flush.
LEMMA Sent ==
  ASSUME IInv, NEW p \in Pages, FlushRead(p)
  PROVE  \/ flushing' = [flushing EXCEPT ![p] = NotFlushing] /\ UNCHANGED request
         \/ /\ store # <<>> /\ store[1] \in QueueCalls
            /\ request' = Append(request, [call |-> store[1], status |-> "sent"])
            /\ flushing' = [flushing EXCEPT ![p] =
                 [pc |-> "sent", call |-> store[1], req |-> Len(request'), calls |-> <<>>]]
<1>1. store # <<>> => Head(store) = store[1] /\ Head(store) \in QueueCalls
  BY HeadTailProperties DEF IInv, Types
<1> QED
  BY <1>1 DEF FlushRead, Send, StopFlush

\* The picture: the queue is the end of what was added, behind what is final.
LEMMA TailStep == ASSUME IInv, [QueueNext]_queueVars PROVE TailInv'
<1>1. CASE UNCHANGED <<store, added, final>>
  BY <1>1 DEF IInv, TailInv, Gone
<1>2. ASSUME NEW p \in Pages, AddPut(p), ~UNCHANGED <<store, added>> PROVE TailInv'
  <2>0. Grows(adding[p].call)
    BY <1>2, Added
  <2>1. final' = final /\ Gone' = Gone /\ Gone \in Nat
    BY <1>2, <2>0 DEF IInv, TailInv, AddPut, Gone, Grows
  <2>2. \A i \in 1..Len(store') : store'[i] = added'[Gone' + i]
    <3>1. SUFFICES ASSUME NEW i \in 1..Len(store') PROVE store'[i] = added'[Gone + i]
      BY <2>1
    <3>2. CASE i \in 1..Len(store)
      <4>1. store[i] = added[Gone + i] /\ Gone + i \in 1..Len(added)
        BY <2>0, <2>1, <3>2 DEF IInv, TailInv, Gone, Grows
      <4> QED
        BY <2>0, <3>2, <4>1 DEF Grows
    <3>3. CASE i = Len(store) + 1
      BY <2>0, <3>3 DEF Gone, Grows
    <3> QED
      BY <2>0, <3>2, <3>3 DEF Grows
  <2>3. final' = {added'[i] : i \in 1..Gone'}
    <3>1. \A i \in 1..Gone : i \in 1..Len(added) /\ added'[i] = added[i]
      BY <2>0, <2>1 DEF IInv, TailInv, Gone, Grows
    <3>2. {added'[i] : i \in 1..Gone} = {added[i] : i \in 1..Gone}
      BY <3>1
    <3> QED
      BY <2>1, <3>2 DEF IInv, TailInv
  <2>4. \A i, j \in 1..Len(added') : added'[i] = added'[j] => i = j
    BY <1>2, <2>0 DEF IInv, TailInv, AddInv, AddPut, Grows
  <2>5. Len(store') <= Len(added')
    BY <2>0 DEF IInv, TailInv, Grows
  <2> QED
    BY <2>2, <2>3, <2>4, <2>5 DEF TailInv
<1>3. ASSUME NEW p \in Pages, DropPut(p), ~(StopFlush(p) /\ UNCHANGED <<store, final>>)
      PROVE TailInv'
  <2>0. Shrinks
    BY <1>3, Dropped
  <2>1. Gone' = Gone + 1 /\ Gone \in Nat
    BY <2>0 DEF IInv, TailInv, Gone, Shrinks
  <2>2. \A i \in 1..Len(store') : store'[i] = added'[Gone' + i]
    <3>1. SUFFICES ASSUME NEW i \in 1..Len(store') PROVE store'[i] = added'[Gone' + i]
      OBVIOUS
    <3>2. store'[i] = store[i + 1] /\ i + 1 \in 1..Len(store)
      BY <2>0 DEF Shrinks
    <3>3. store[i + 1] = added[Gone + (i + 1)]
      BY <3>2 DEF IInv, TailInv
    <3> QED
      BY <2>0, <2>1, <3>2, <3>3 DEF Shrinks
  <2>3. store[1] = added[Gone + 1]
    BY <2>0 DEF IInv, TailInv, Shrinks
  <2>4. 1..Gone' = 1..Gone \union {Gone + 1}
    BY <2>1
  <2>5. final' = {added'[i] : i \in 1..Gone'}
    BY <2>0, <2>1, <2>3, <2>4 DEF IInv, TailInv, Shrinks
  <2>6. Len(store') <= Len(added')
    BY <2>0 DEF IInv, TailInv, Shrinks
  <2> QED
    BY <2>0, <2>2, <2>5, <2>6 DEF IInv, TailInv, Shrinks
<1>4. ASSUME NEW p \in Pages, DropPut(p) PROVE UNCHANGED added
  BY <1>4 DEF DropPut
<1>5. ASSUME NEW p \in Pages, AddPut(p) PROVE UNCHANGED final
  BY <1>5 DEF AddPut
<1> QED
  BY <1>1, <1>2, <1>3, <1>4, <1>5, Quiet DEF queueVars, deviceVars, historyVars

\* A call being added stays in no other hands.
LEMMA AddStepInv == ASSUME IInv, [QueueNext]_queueVars PROVE AddInv'
<1> USE DEF AddInv
<1>1. CASE UNCHANGED <<adding, added>>
  BY <1>1 DEF IInv
<1>2. ASSUME NEW p \in Pages, NEW c \in QueueCalls, Add(p, c) PROVE AddInv'
  <2>1. \A i \in 1..Len(added) : added[i] # c
    BY <1>2 DEF Add, New, Range
  <2> QED
    BY <1>2, <2>1 DEF IInv, Types, Add, New, historyVars
<1>3. ASSUME NEW p \in Pages, AddRead(p) PROVE AddInv'
  BY <1>3 DEF IInv, Types, AddRead, historyVars
<1>4. ASSUME NEW p \in Pages, AddPut(p) PROVE AddInv'
  <2>1. CASE UNCHANGED <<store, added>>
    BY <1>4, <2>1, QueueConstants DEF IInv, Types, AddPut, NotAdding
  <2>2. CASE ~UNCHANGED <<store, added>>
    <3>1. Grows(adding[p].call) /\ adding[p].call \in QueueCalls
      BY <1>4, <2>2, Added
    <3>2. \A q \in Pages \ {p} : adding[q].pc # "idle" => adding[q].call # adding[p].call
      BY <1>4 DEF IInv, AddPut
    <3>3. adding' = [adding EXCEPT ![p] = NotAdding]
      BY <1>4 DEF AddPut
    <3>4. SUFFICES ASSUME NEW q \in Pages, adding'[q].pc # "idle"
                   PROVE  /\ adding'[q].call \in QueueCalls
                          /\ \A i \in 1..Len(added') : added'[i] # adding'[q].call
                          /\ \A k \in Pages \ {q} : adding'[k].call # adding'[q].call
      OBVIOUS
    <3>5. q # p /\ adding'[q] = adding[q]
      BY <3>3, <3>4 DEF IInv, Types, NotAdding
    <3>6. \A i \in 1..Len(added') : added'[i] # adding[q].call
      BY <3>1, <3>2, <3>4, <3>5 DEF IInv, Grows
    <3>7. \A k \in Pages \ {q} : adding'[k].call # adding[q].call
      BY <3>3, <3>4, <3>5, QueueConstants DEF IInv, Types, NotAdding
    <3> QED
      BY <3>4, <3>5, <3>6, <3>7 DEF IInv
  <2> QED
    BY <2>1, <2>2
<1>5. ASSUME NEW p \in Pages, ClosePage(p) PROVE AddInv'
  BY <1>5, QueueConstants DEF IInv, Types, ClosePage, NotAdding
<1> QED
  BY <1>1, <1>2, <1>3, <1>4, <1>5 DEF QueueNext, queueVars, deviceVars, historyVars, AddStep, FlushStep,
     StartFlush, FlushRead, FlushAnswered, FlushGivesUp, DropRead, DropPut, Serve

-----------------------------------------------------------------------------
(* The locks: from here on they span the tabs.                             *)

\* Under shared locks, what the holder read is still what is stored.
LEMMA LockStep == ASSUME SharedLocks, IInv, [QueueNext]_queueVars PROVE LockInv'
<1> USE DEF LockInv
<1>1. CASE UNCHANGED <<store, adding, flushing>>
  BY <1>1 DEF IInv
<1>2. ASSUME NEW p \in Pages, NEW c \in QueueCalls, Add(p, c) PROVE LockInv'
  BY <1>2 DEF IInv, Types, Add
<1>3. ASSUME NEW p \in Pages, StartFlush(p) PROVE LockInv'
  BY <1>3 DEF IInv, Types, StartFlush, KeyFree, Reach
<1>4. ASSUME NEW p \in Pages, AddRead(p) PROVE LockInv'
  BY <1>4 DEF IInv, Types, AddRead, WriteFree, Reach
<1>5. ASSUME NEW p \in Pages, AddPut(p) PROVE LockInv'
  BY <1>5 DEF IInv, Types, AddPut, NotAdding
<1>6. ASSUME NEW p \in Pages, FlushRead(p) PROVE LockInv'
  <2>0. flushing[p].pc = "read" /\ UNCHANGED <<store, adding>>
    BY <1>6 DEF FlushRead
  <2>1. CASE flushing' = [flushing EXCEPT ![p] = NotFlushing]
    BY <2>0, <2>1 DEF IInv, Types, NotFlushing
  <2>2. CASE /\ store # <<>>
             /\ flushing' = [flushing EXCEPT ![p] =
                  [pc |-> "sent", call |-> store[1], req |-> Len(request'), calls |-> <<>>]]
    BY <2>0, <2>2 DEF IInv, Types
  <2> QED
    BY <1>6, <2>1, <2>2, Sent
<1>7. ASSUME NEW p \in Pages, FlushAnswered(p) PROVE LockInv'
  <2>1. CASE flushing' = [flushing EXCEPT ![p].pc = "drop"]
    BY <1>7, <2>1 DEF IInv, Types, FlushAnswered
  <2>2. CASE StopFlush(p)
    BY <1>7, <2>2 DEF IInv, Types, FlushAnswered, StopFlush, NotFlushing
  <2> QED
    BY <1>7, <2>1, <2>2 DEF FlushAnswered
<1>8. ASSUME NEW p \in Pages, DropRead(p) PROVE LockInv'
  BY <1>8 DEF IInv, Types, DropRead, WriteFree, Reach
<1>9. ASSUME NEW p \in Pages, DropPut(p) PROVE LockInv'
  <2>1. PICK flush \in {NotFlushing, [NotFlushing EXCEPT !.pc = "read"]} :
          flushing' = [flushing EXCEPT ![p] = flush]
    BY <1>9 DEF DropPut, StopFlush
  <2>2. flush.pc \in {"idle", "read"}
    BY <2>1 DEF NotFlushing
  <2>3. flushing[p].pc = "put" /\ UNCHANGED adding
    BY <1>9 DEF DropPut
  <2> QED
    BY <2>1, <2>2, <2>3 DEF IInv, Types
<1>10. ASSUME NEW p \in Pages, FlushGivesUp(p) PROVE LockInv'
  BY <1>10 DEF IInv, Types, FlushGivesUp, StopFlush, NotFlushing
<1>11. ASSUME NEW p \in Pages, ClosePage(p) PROVE LockInv'
  BY <1>11 DEF IInv, Types, ClosePage, StopFlush, NotFlushing, NotAdding
<1> QED
  BY <1>1, <1>2, <1>3, <1>4, <1>5, <1>6, <1>7, <1>8, <1>9, <1>10, <1>11
     DEF QueueNext, queueVars, deviceVars, AddStep, FlushStep, Serve

\* While a flush is about a call, nobody else takes a head from the queue.
LEMMA HeadStep == ASSUME SharedLocks, IInv, [QueueNext]_queueVars PROVE HeadInv'
<1> USE DEF HeadInv
<1>1. CASE UNCHANGED <<store, flushing>>
  BY <1>1 DEF IInv
<1>3. ASSUME NEW p \in Pages, StartFlush(p) PROVE HeadInv'
  BY <1>3 DEF IInv, Types, StartFlush
<1>5. ASSUME NEW p \in Pages, AddPut(p), ~UNCHANGED <<store, added>> PROVE HeadInv'
  <2>1. store # <<>> => store'[1] = store[1] /\ store' # <<>>
    <3>1. Grows(adding[p].call)
      BY <1>5, Added
    <3>2. store' \in Seq(QueueCalls)
      BY TypesStep DEF Types
    <3> QED
      BY <3>1, <3>2, EmptySeq DEF IInv, Types, Grows
  <2> QED
    BY <1>5, <2>1 DEF IInv, AddPut
<1>6. ASSUME NEW p \in Pages, FlushRead(p) PROVE HeadInv'
  <2>0. flushing[p].pc = "read" /\ UNCHANGED <<store, adding>>
    BY <1>6 DEF FlushRead
  <2>1. CASE flushing' = [flushing EXCEPT ![p] = NotFlushing]
    BY <2>0, <2>1 DEF IInv, Types, NotFlushing
  <2>2. CASE /\ store # <<>>
             /\ flushing' = [flushing EXCEPT ![p] =
                  [pc |-> "sent", call |-> store[1], req |-> Len(request'), calls |-> <<>>]]
    BY <2>0, <2>2 DEF IInv, Types
  <2> QED
    BY <1>6, <2>1, <2>2, Sent
<1>7. ASSUME NEW p \in Pages, FlushAnswered(p) PROVE HeadInv'
  <2>1. CASE flushing' = [flushing EXCEPT ![p].pc = "drop"]
    BY <1>7, <2>1 DEF IInv, Types, FlushAnswered
  <2>2. CASE StopFlush(p)
    BY <1>7, <2>2 DEF IInv, Types, FlushAnswered, StopFlush, NotFlushing
  <2> QED
    BY <1>7, <2>1, <2>2 DEF FlushAnswered
<1>8. ASSUME NEW p \in Pages, DropRead(p) PROVE HeadInv'
  BY <1>8 DEF IInv, Types, DropRead
<1>9. ASSUME NEW p \in Pages, DropPut(p) PROVE HeadInv'
  <2>0. PICK flush \in {NotFlushing, [NotFlushing EXCEPT !.pc = "read"]} :
          flushing' = [flushing EXCEPT ![p] = flush]
    BY <1>9 DEF DropPut, StopFlush
  <2>1. \A q \in Pages : flushing'[q].pc \notin {"sent", "drop", "put"}
    <3>1. flush.pc \in {"idle", "read"}
      BY <2>0 DEF NotFlushing
    <3>2. \A q \in Pages \ {p} : flushing[q].pc = "idle"
      BY <1>9 DEF IInv, LockInv, DropPut
    <3> QED
      BY <2>0, <3>1, <3>2 DEF IInv, Types
  <2> QED
    BY <2>1
<1>10. ASSUME NEW p \in Pages, FlushGivesUp(p) PROVE HeadInv'
  BY <1>10 DEF IInv, Types, FlushGivesUp, StopFlush, NotFlushing
<1>11. ASSUME NEW p \in Pages, ClosePage(p) PROVE HeadInv'
  BY <1>11 DEF IInv, Types, ClosePage, StopFlush, NotFlushing
<1>12. ASSUME NEW p \in Pages, AddPut(p) PROVE UNCHANGED flushing
  BY <1>12 DEF AddPut
<1> QED
  BY <1>1, <1>3, <1>5, <1>6, <1>7, <1>8, <1>9, <1>10, <1>11, <1>12
     DEF QueueNext, queueVars, deviceVars, AddStep, FlushStep, Serve, Add, AddRead

\* A call that is due stays so: the calls ahead of it only leave.
LEMMA DueStays == ASSUME IInv, [QueueNext]_queueVars, NEW c, Due(c) PROVE Due(c)'
<1>1. PICK j \in 1..Len(added) : j <= Gone + 1 /\ added[j] = c
  BY DEF Due
<1>2. CASE UNCHANGED <<store, added>>
  BY <1>1, <1>2 DEF Due, Gone
<1>3. ASSUME NEW p \in Pages, AddPut(p), ~UNCHANGED <<store, added>> PROVE Due(c)'
  <2>1. Grows(adding[p].call)
    BY <1>3, Added
  <2>2. j \in 1..Len(added') /\ added'[j] = c /\ Gone' = Gone
    BY <1>1, <2>1 DEF Grows, Gone
  <2> QED
    BY <1>1, <2>2 DEF Due
<1>4. ASSUME NEW p \in Pages, DropPut(p), ~(StopFlush(p) /\ UNCHANGED <<store, final>>)
      PROVE Due(c)'
  <2>1. Shrinks
    BY <1>4, Dropped
  <2>2. added' = added /\ Gone' = Gone + 1 /\ Gone \in Int
    BY <2>1 DEF Shrinks, Gone
  <2> QED
    BY <1>1, <2>2 DEF Due
<1>5. ASSUME NEW p \in Pages, DropPut(p) PROVE UNCHANGED added
  BY <1>5 DEF DropPut
<1> QED
  BY <1>2, <1>3, <1>4, <1>5, Quiet DEF queueVars, deviceVars, historyVars

\* Only the head is sent, and the service writes only what was sent.
LEMMA SentStep == ASSUME IInv, [QueueNext]_queueVars PROVE SentInv'
<1> USE DEF SentInv
<1>0. request \in Seq([call : QueueCalls, status : {"sent", "recorded", "refused", "error"}])
  BY DEF IInv, Types
<1>1. CASE UNCHANGED <<request, wrote>>
  BY <1>1, DueStays DEF IInv
<1>2. ASSUME NEW p \in Pages, FlushRead(p), ~UNCHANGED request PROVE SentInv'
  <2>1. /\ store # <<>> /\ store[1] \in QueueCalls /\ UNCHANGED <<store, added, wrote>>
        /\ request' = Append(request, [call |-> store[1], status |-> "sent"])
    BY <1>2, Sent DEF FlushRead, historyVars
  <2>2. Due(store[1])
    <3>1. Len(store) \in Nat \ {0} /\ Len(added) \in Nat
      BY <2>1, LenProperties, EmptySeq DEF IInv, Types
    <3>2. 1 \in 1..Len(store) /\ Gone + 1 \in 1..Len(added) /\ Gone + 1 <= Gone + 1
      BY <3>1 DEF IInv, TailInv, Gone
    <3>3. store[1] = added[Gone + 1]
      BY <3>2 DEF IInv, TailInv
    <3> QED
      BY <3>2, <3>3 DEF Due
  <2>3. /\ Len(request') = Len(request) + 1 /\ Len(request) \in Nat
        /\ \A r \in 1..Len(request) : request'[r] = request[r]
        /\ request'[Len(request) + 1].call = store[1]
    BY <1>0, <2>1, AppendProperties, LenProperties
  <2>4. \A c : Due(c) => Due(c)'
    BY <2>1 DEF Due, Gone
  <2>5. ASSUME NEW r \in 1..Len(request') PROVE Due(request[r].call)'
    <3>1. CASE r \in 1..Len(request)
      BY <2>3, <2>4, <3>1 DEF IInv
    <3>2. CASE r = Len(request) + 1
      BY <2>2, <2>3, <2>4, <3>2
    <3> QED
      BY <2>3, <3>1, <3>2
  <2>6. ASSUME NEW k \in 1..Len(wrote') PROVE Due(wrote[k])'
    BY <2>1, <2>4 DEF IInv
  <2> QED
    BY <2>5, <2>6
<1>3. ASSUME NEW r \in 1..Len(request), Serve(r) PROVE SentInv'
  <2>0. UNCHANGED <<store, added>>
    BY <1>3 DEF Serve, deviceVars
  <2>1. PICK status \in {"recorded", "refused", "error"} : Respond(r, status)
    BY <1>3 DEF Serve, ServeRecorded, ServeRefused, ServeNotRun, Unserved
  <2>2. /\ Len(request') = Len(request)
        /\ \A q \in 1..Len(request) : request'[q].call = request[q].call
    BY <1>0, <2>1 DEF Respond
  <2>3. wrote' = wrote \/ wrote' = Append(wrote, request[r].call)
    BY <1>3 DEF Serve, ServeRecorded, ServeRefused, ServeNotRun, Unserved
  <2>4. \A c : Due(c) => Due(c)'
    BY <2>0 DEF Due, Gone
  <2>5. ASSUME NEW k \in 1..Len(wrote') PROVE Due(wrote[k])'
    <3>1. wrote \in Seq(QueueCalls) /\ request[r].call \in QueueCalls
      <4>1. request[r] \in [call : QueueCalls, status : {"sent", "recorded", "refused", "error"}]
        BY <1>0, ElementOfSeq
      <4> QED
        BY <4>1 DEF IInv, Types
    <3>2. CASE wrote' = wrote
      BY <2>4, <3>2 DEF IInv
    <3>3. CASE wrote' = Append(wrote, request[r].call)
      <4>1. \/ k \in 1..Len(wrote) /\ wrote'[k] = wrote[k]
            \/ wrote'[k] = request[r].call
        BY <3>1, <3>3, AppendProperties, LenProperties
      <4> QED
        BY <2>4, <4>1 DEF IInv
    <3> QED
      BY <2>3, <3>2, <3>3
  <2>6. ASSUME NEW q \in 1..Len(request') PROVE Due(request[q].call)'
    BY <2>2, <2>4 DEF IInv
  <2> QED
    BY <2>5, <2>6
<1> QED
  BY <1>1, <1>2, <1>3 DEF QueueNext, queueVars, deviceVars, historyVars, Add, AddStep, AddRead, AddPut,
     FlushStep, StartFlush, FlushRead, FlushAnswered, FlushGivesUp, DropRead, DropPut, ClosePage

\* The parts are inductive together.
LEMMA IInvStep == ASSUME SharedLocks, IInv, [QueueNext]_queueVars PROVE IInv'
BY TypesStep, TailStep, AddStepInv, LockStep, HeadStep, SentStep DEF IInv

-----------------------------------------------------------------------------
(* The theorems.                                                           *)

\* The store is as long as what was added and not dropped, and repeats nothing.
LEMMA IInvTypes == ASSUME IInv PROVE QueueTypeOK
<1>1. IsInjective(store)
  <2>1. Len(store) \in Nat /\ Len(added) \in Nat /\ DOMAIN store = 1..Len(store)
    BY LenProperties DEF IInv, Types
  <2>2. SUFFICES ASSUME NEW i \in 1..Len(store), NEW j \in 1..Len(store), store[i] = store[j]
                 PROVE  i = j
    BY <2>1 DEF IsInjective
  <2>3. Gone + i \in 1..Len(added) /\ Gone + j \in 1..Len(added) /\ Gone \in Int
    BY <2>1 DEF IInv, TailInv, Gone
  <2>4. added[Gone + i] = added[Gone + j]
    BY <2>2 DEF IInv, TailInv
  <2>5. Gone + i = Gone + j
    BY <2>3, <2>4 DEF IInv, TailInv
  <2> QED
    BY <2>3, <2>5
<1> QED
  BY <1>1 DEF IInv, Types, QueueTypeOK

\* A call that was added is stored, or was answered for good.
LEMMA IInvKeeps == ASSUME IInv PROVE NoCallLost
<1> SUFFICES ASSUME NEW c \in Range(added) PROVE c \in Range(store) \/ c \in final
  BY IInvTypes DEF NoCallLost
<1>1. PICK i \in 1..Len(added) : added[i] = c
  BY DEF IInv, Types, Range
<1>2. CASE i <= Gone
  BY <1>1, <1>2 DEF IInv, TailInv
<1>3. CASE i > Gone
  <2>1. i - Gone \in 1..Len(store)
    BY <1>1, <1>3, LenProperties DEF IInv, Types, TailInv, Gone
  <2>2. Gone + (i - Gone) = i
    BY LenProperties DEF IInv, Types, Gone
  <2>3. store[i - Gone] = c
    BY <1>1, <2>1, <2>2 DEF IInv, TailInv
  <2> QED
    BY <2>1, <2>3 DEF IInv, Types, Range
<1> QED
  BY <1>1, <1>2, <1>3, LenProperties DEF IInv, Types, Gone

\* A call that wrote came after every call added before it was final.
LEMMA IInvOrders == ASSUME IInv PROVE WritesInOrder
<1> SUFFICES ASSUME NEW i \in 1..Len(added), NEW j \in 1..Len(added), i < j,
                    added[j] \in Range(wrote)
             PROVE  added[i] \in final
  BY DEF WritesInOrder
<1>1. Due(added[j])
  <2>1. PICK k \in 1..Len(wrote) : wrote[k] = added[j]
    BY LenProperties DEF IInv, Types, Range
  <2> QED
    BY <2>1 DEF IInv, SentInv
<1>2. j <= Gone + 1
  BY <1>1 DEF IInv, TailInv, Due
<1>3. i \in 1..Gone
  BY <1>2, LenProperties DEF IInv, Types, Gone
<1> QED
  BY <1>3 DEF IInv, TailInv

\* What every state satisfies, when the pages share their locks.
LEMMA Invariance == SharedLocks => (QueueSpec => []IInv)
<1> SUFFICES ASSUME SharedLocks PROVE QueueSpec => []IInv
  OBVIOUS
<1>1. QueueInit => IInv
  BY InitIInv
<1>2. IInv /\ [QueueNext]_queueVars => IInv'
  BY IInvStep
<1> QED
  BY <1>1, <1>2, PTL DEF QueueSpec

\* Where a lock spans the tabs of an origin, a persisted call stays in the queue until
\* its final answer, whoever adds, drops, fails or closes meanwhile: add() and
\* dropHead() read and put under one lock.
THEOREM QueueLosesNothing == SharedLocks => (QueueSpec => []NoCallLost)
<1>1. IInv => NoCallLost
  BY IInvKeeps
<1> QED
  BY <1>1, Invariance, PTL

\* No call reaches the service's log before those queued ahead of it have their final
\* answers, though requests outlive the flushes and the tabs that sent them.
THEOREM QueueKeepsOrder == SharedLocks => (QueueSpec => []WritesInOrder)
<1>1. IInv => WritesInOrder
  BY IInvOrders
<1> QED
  BY <1>1, Invariance, PTL

-----------------------------------------------------------------------------
(* The service: jobs.                                                      *)

\* Where a job stands, and what that says of its answer.
JobAt(c) ==
  /\ state[c] # "done" => ranIn[c] = 0 /\ result[c] = Pending
  /\ state[c] = "running" => owner = "running" /\ job = c
  /\ client[c] \in {"idle", "checked"} => state[c] = "new"
  /\ client[c] # "answered" => answer[c] = Pending
  /\ result[c].tell = "detached" => ranIn[c] = 0
  /\ result[c].tell = "recorded" => ranIn[c] # 0
  /\ result[c].tell # "deferred"
  /\ answer[c].tell = "deferred" => state[c] = "cancelled"
  /\ answer[c].tell = "detached" => state[c] = "new" \/ result[c].tell = "detached"
  /\ answer[c].tell = "recorded" => result[c].tell = "recorded"
  /\ state[c] = "new" => client[c] \in {"idle", "checked", "answered"}

\* A job that is queued has been asked and is not new again.
QueueInv ==
  \A i \in 1..Len(jobs) : state[jobs[i]] # "new"

\* The host runs one job, which it claimed.
JobInv ==
  /\ owner = "running" => job \in Jobs /\ state[job] = "running"
  /\ \A c \in Jobs : JobAt(c)
  /\ QueueInv

-----------------------------------------------------------------------------
(* Types.                                                                  *)

\* What taking the first of a queue leaves.
LEMMA TakeFirst ==
  ASSUME NEW S, NEW s \in Seq(S), s # <<>>
  PROVE  /\ Head(s) \in S /\ Head(s) = s[1] /\ Tail(s) \in Seq(S) /\ 1 \in 1..Len(s)
         /\ \A i \in 1..Len(Tail(s)) : i + 1 \in 1..Len(s) /\ Tail(s)[i] = s[i + 1]
BY HeadTailProperties, LenProperties, EmptySeq

\* What queueing one more makes of a queue.
LEMMA PutLast ==
  ASSUME NEW S, NEW s \in Seq(S), NEW e \in S
  PROVE  /\ Append(s, e) \in Seq(S)
         /\ \A i \in 1..Len(Append(s, e)) :
              Append(s, e)[i] = e \/ (i \in 1..Len(s) /\ Append(s, e)[i] = s[i])
BY AppendProperties, LenProperties

\* A refresh, or one that raises, keeps the types.
LEMMA RefreshTypes ==
  ASSUME TypeOK, Refresh \/ RefreshRaises
  PROVE  key' \in Nat \union {-1} /\ published' \in Snapshot /\ open' \subseteq Snapshot
<1>1. log[world] \in Nat /\ world \in Worlds
  BY DEF TypeOK
<1>2. [world |-> world, at |-> log[world]] \in Snapshot
  BY <1>1 DEF Snapshot
<1> QED
  BY <1>1, <1>2 DEF TypeOK, Refresh, RefreshRaises

\* The types are kept.
LEMMA TypeStep == ASSUME TypeOK, JobInv, [Next]_vars PROVE TypeOK'
<1> USE ServiceConstants DEF TypeOK, ownerVars, snapVars, callVars
<1>0. NoSnapshot \in Snapshot /\ Pending \in Answer /\ Detached \in Answer
  BY DEF NoSnapshot, Snapshot, Worlds, Pending, Detached, Tell, Answer
<1>00. \A what \in {"recorded", "refused", "deferred", "timeout"} : Tell(what) \in Answer
  BY <1>0 DEF Tell, Answer
<1>1. CASE Attach
  BY <1>1 DEF Attach, Worlds
<1>2. CASE StartReader
  <2>1. key' \in Nat \union {-1} /\ published' \in Snapshot /\ open' \subseteq Snapshot
    BY <1>2, RefreshTypes DEF StartReader
  <2>2. reader' \in Worlds
    BY <1>2 DEF StartReader, Refresh, RefreshRaises
  <2>3. thread' = thread \/ thread' = [thread EXCEPT ![world].pc = "waiting"]
    BY <1>2 DEF StartReader
  <2>4. thread' \in [Worlds -> [pc : {"off", "waiting", "taken", "reading", "clearing"},
                                req : Reads \union {Stop}, snap : Snapshot]]
    <3>0. thread[world] \in [pc : {"off", "waiting", "taken", "reading", "clearing"},
                             req : Reads \union {Stop}, snap : Snapshot]
      OBVIOUS
    <3>1. [thread[world] EXCEPT !.pc = "waiting"]
            \in [pc : {"off", "waiting", "taken", "reading", "clearing"},
                req : Reads \union {Stop}, snap : Snapshot]
      BY <3>0
    <3>2. CASE thread' = [thread EXCEPT ![world].pc = "waiting"]
      BY <3>1, <3>2
    <3> QED
      BY <2>3, <3>2
  <2>5. owner' = "host"
    BY <1>2 DEF StartReader
  <2> QED
    BY <1>2, <2>1, <2>2, <2>4, <2>5 DEF StartReader
<1>3. CASE HostCommits
  BY <1>3 DEF HostCommits
<1>4. CASE Pump
  BY <1>4 DEF Pump
<1>4d. CASE Detach
  <2>1. world' \in Worlds
    BY <1>4d DEF Detach, Worlds
  <2> QED
    BY <1>4d, <2>1 DEF Detach
<1>5. CASE ClaimJob
  <2>1. Head(jobs) \in Jobs /\ Tail(jobs) \in Seq(Jobs)
    BY <1>5, TakeFirst DEF ClaimJob
  <2> QED
    BY <1>5, <2>1 DEF ClaimJob
<1>6. CASE RunJob
  <2>1. job \in Jobs /\ job \in Calls
    BY <1>6 DEF RunJob, JobInv, Calls
  <2>2. PICK a \in Answer : result' = [result EXCEPT ![job] = a]
    <3>1. CASE result' = [result EXCEPT ![job] = Detached]
      BY <1>0, <3>1
    <3>2. CASE result' = [result EXCEPT ![job] = Tell("refused")]
      BY <1>00, <3>2
    <3>3. CASE result' = [result EXCEPT ![job] = Tell("recorded")]
      BY <1>00, <3>3
    <3> QED
      BY <1>6, <3>1, <3>2, <3>3 DEF RunJob, RecordOutcomes
  <2>3. log' = log \/ log' = [log EXCEPT ![world] = log[world] + 1]
    BY <1>6 DEF RunJob
  <2>4. ranIn' = ranIn \/ ranIn' = [ranIn EXCEPT ![job] = world]
    BY <1>6 DEF RunJob
  <2>5. log[world] + 1 \in Nat
    OBVIOUS
  <2>6. log' \in [Worlds -> Nat] /\ ranIn' \in [Jobs -> Worlds]
    <3>1. log' \in [Worlds -> Nat]
      BY <2>3, <2>5
    <3> QED
      BY <2>4, <3>1
  <2>7. result' \in [Calls -> Answer]
    BY <2>2
  <2>8. state' \in [Jobs -> {"new", "queued", "running", "done", "cancelled"}]
    BY <1>6 DEF RunJob
  <2> QED
    BY <1>6, <2>1, <2>6, <2>7, <2>8 DEF RunJob
<1>7. CASE PumpEnds
  BY <1>7, RefreshTypes DEF PumpEnds
<1>8. CASE DrainJob
  <2>1. Head(jobs) \in Jobs /\ Head(jobs) \in Calls /\ Tail(jobs) \in Seq(Jobs)
    BY <1>8, TakeFirst DEF DrainJob, Calls
  <2> QED
    BY <1>0, <1>8, <2>1 DEF DrainJob
<1>9. CASE StopReader
  <2>1. Append(reads, Stop) \in Seq(Reads \union {Stop})
    BY PutLast
  <2>2. reader' \in Worlds
    BY <1>9 DEF StopReader, Worlds
  <2>3. reads' \in Seq(Reads \union {Stop}) /\ owner' \in {"retiring", "joining"}
    BY <1>9, <2>1 DEF StopReader
  <2> QED
    BY <1>9, <2>2, <2>3 DEF StopReader
<1>10. CASE JoinReader
  BY <1>10 DEF JoinReader
<1>11. CASE Retire
  BY <1>0, <1>11 DEF Retire
<1>12. ASSUME NEW t \in 1..MaxAttach, TakeRead(t) PROVE TypeOK'
  <2>1. Head(reads) \in Reads \union {Stop} /\ Tail(reads) \in Seq(Reads \union {Stop})
    BY <1>12, TakeFirst DEF TakeRead
  <2> QED
    BY <1>0, <1>12, <2>1 DEF TakeRead, Reader
<1>13. ASSUME NEW t \in 1..MaxAttach, TakeSnapshot(t) PROVE TypeOK'
  BY <1>13 DEF TakeSnapshot, Reader, Worlds
<1>14. ASSUME NEW t \in 1..MaxAttach, AnswerRead(t) PROVE TypeOK'
  <2>1. [tell |-> "read", snap |-> thread[t].snap] \in Answer
    BY DEF Answer, Worlds
  <2>2. result' \in [Calls -> Answer]
    BY <1>0, <1>14, <2>1 DEF AnswerRead
  <2> QED
    BY <1>0, <1>14, <2>2 DEF AnswerRead, Reader
<1>15. ASSUME NEW t \in 1..MaxAttach, ClearRead(t) PROVE TypeOK'
  <2>1. CASE reads = <<>>
    <3>1. thread' \in [Worlds -> [pc : {"off", "waiting", "taken", "reading", "clearing"},
                                  req : Reads \union {Stop}, snap : Snapshot]]
      <4>1. [pc |-> "off", req |-> Stop, snap |-> NoSnapshot]
              \in [pc : {"off", "waiting", "taken", "reading", "clearing"},
                  req : Reads \union {Stop}, snap : Snapshot]
        BY <1>0
      <4>2. thread' = [thread EXCEPT ![t] = [pc |-> "off", req |-> Stop, snap |-> NoSnapshot]]
        BY <1>15, <2>1 DEF ClearRead, Reader
      <4> QED
        BY <4>1, <4>2
    <3> QED
      BY <1>15, <2>1, <3>1 DEF ClearRead
  <2>2. CASE reads # <<>>
    <3>1. Tail(reads) \in Seq(Reads \union {Stop})
      BY <2>2, TakeFirst
    <3> QED
      BY <1>0, <1>15, <2>2, <3>1 DEF ClearRead
  <2> QED
    BY <2>1, <2>2
<1>16. ASSUME NEW c \in Calls, Ask(c) PROVE TypeOK'
  <2>1. [world |-> world, at |-> IF c \in Reads THEN published.at ELSE 0] \in Snapshot
    BY DEF Snapshot
  <2>2. client' \in [Calls -> {"idle", "checked", "waiting", "late", "answered"}]
    BY <1>16 DEF Ask, Answers
  <2>3. answer' \in [Calls -> Answer] /\ asked' \in [Calls -> Snapshot]
    <3>1. answer' = answer \/ answer' = [answer EXCEPT ![c] = Detached]
      BY <1>16 DEF Ask, Answers
    <3>2. asked' = asked \/ (\E s \in Snapshot : asked' = [asked EXCEPT ![c] = s])
      BY <1>16, <2>1 DEF Ask
    <3>3. answer' \in [Calls -> Answer]
      BY <1>0, <3>1
    <3>4. asked' \in [Calls -> Snapshot]
      BY <3>2
    <3> QED
      BY <3>3, <3>4
  <2> QED
    BY <1>0, <1>16, <2>2, <2>3 DEF Ask
<1>17. ASSUME NEW c \in Calls, Enqueue(c) PROVE TypeOK'
  <2>1. CASE c \in Jobs
    <3>1. Append(jobs, c) \in Seq(Jobs)
      BY <2>1, PutLast
    <3> QED
      BY <1>17, <2>1, <3>1 DEF Enqueue
  <2>2. CASE c \notin Jobs
    <3>1. Append(reads, c) \in Seq(Reads \union {Stop})
      BY <2>2, PutLast DEF Calls
    <3> QED
      BY <1>17, <2>2, <3>1 DEF Enqueue
  <2> QED
    BY <2>1, <2>2
<1>18. ASSUME NEW c \in Calls, GetResult(c) PROVE TypeOK'
  BY <1>18 DEF GetResult, Answers
<1>19. ASSUME NEW c \in Calls, TimeOut(c) PROVE TypeOK'
  <2>1. client' \in [Calls -> {"idle", "checked", "waiting", "late", "answered"}]
    BY <1>19 DEF TimeOut, Answers
  <2>2. answer' = answer \/ (\E a \in Answer : answer' = [answer EXCEPT ![c] = a])
    BY <1>00, <1>19 DEF TimeOut, Answers
  <2>3. state' = state \/ state' = [state EXCEPT ![c] = "cancelled"]
    BY <1>19 DEF TimeOut
  <2>4. answer' \in [Calls -> Answer]
    BY <2>2
  <2>5. state' \in [Jobs -> {"new", "queued", "running", "done", "cancelled"}]
    BY <2>3
  <2> QED
    BY <1>19, <2>1, <2>4, <2>5 DEF TimeOut
<1>20. CASE UNCHANGED vars
  BY <1>20 DEF vars
<1> QED
  BY <1>1, <1>2, <1>3, <1>4, <1>4d, <1>5, <1>6, <1>7, <1>8, <1>9, <1>10, <1>11, <1>12, <1>13, <1>14,
     <1>15, <1>16, <1>17, <1>18, <1>19, <1>20
     DEF Next, HostStep, OwnerStep, ReaderStep, ClientStep

-----------------------------------------------------------------------------
(* Each job is cancelled, claimed or drained, once.                        *)

\* A step that leaves the jobs alone keeps what is known of them.
LEMMA JobsAlone ==
  ASSUME JobInv, UNCHANGED <<jobs, state, ranIn, client, answer>>,
         \A c \in Jobs : result'[c] = result[c],
         UNCHANGED <<owner, job>> \/ (owner # "running" /\ owner' # "running")
  PROVE  JobInv'
<1>1. ASSUME NEW c \in Jobs PROVE JobAt(c)'
  BY <1>1 DEF JobInv, JobAt, Pending
<1>2. (owner = "running" => job \in Jobs /\ state[job] = "running")'
  BY DEF JobInv
<1>3. QueueInv'
  BY DEF JobInv, QueueInv
<1> QED
  BY <1>1, <1>2, <1>3 DEF JobInv

\* What is known of the jobs is kept by every step.
LEMMA JobStep == ASSUME TypeOK, JobInv, [Next]_vars PROVE JobInv'
<1> USE ServiceConstants DEF ownerVars, snapVars, callVars
<1>0. Jobs \subseteq Calls /\ \A c \in Jobs : c \notin Reads /\ c # Stop
  BY DEF Calls
<1>1. CASE Attach \/ StartReader \/ HostCommits \/ Pump \/ Detach
  BY <1>1, JobsAlone DEF Attach, StartReader, HostCommits, Pump, Detach
<1>2. CASE PumpEnds \/ StopReader \/ JoinReader \/ Retire \/ UNCHANGED vars
  BY <1>2, JobsAlone DEF PumpEnds, StopReader, JoinReader, Retire, vars
<1>3. ASSUME NEW t \in 1..MaxAttach, TakeRead(t) \/ TakeSnapshot(t) PROVE JobInv'
  BY <1>3, JobsAlone DEF TakeRead, TakeSnapshot
<1>4. ASSUME NEW t \in 1..MaxAttach, AnswerRead(t) PROVE JobInv'
  <2>1. t \in Worlds /\ thread[t].req \in Reads \union {Stop}
    BY DEF TypeOK, Worlds
  <2>2. \A c \in Jobs : result'[c] = result[c]
    BY <1>0, <1>4, <2>1 DEF AnswerRead, TypeOK
  <2> QED
    BY <1>4, <2>2, JobsAlone DEF AnswerRead
<1>5. ASSUME NEW t \in 1..MaxAttach, ClearRead(t) PROVE JobInv'
  <2>1. reads # <<>> => Head(reads) \in Reads \union {Stop}
    BY TakeFirst DEF TypeOK
  <2>2. \A c \in Jobs : result'[c] = result[c]
    BY <1>0, <1>5, <2>1 DEF ClearRead, TypeOK
  <2> QED
    BY <1>5, <2>2, JobsAlone DEF ClearRead
<1>6. CASE ClaimJob
  <2> DEFINE h == Head(jobs)
  <2>1. /\ h \in Jobs /\ h = jobs[1] /\ 1 \in 1..Len(jobs)
        /\ \A i \in 1..Len(Tail(jobs)) : i + 1 \in 1..Len(jobs) /\ Tail(jobs)[i] = jobs[i + 1]
    BY <1>6, TakeFirst DEF ClaimJob, TypeOK
  <2> HIDE DEF h
  <2>2. \A c \in Jobs : state[c] # "running"
    BY <1>6 DEF ClaimJob, JobInv, JobAt
  <2>3. CASE state[h] = "queued"
    <3>1. job' = h /\ owner' = "running" /\ state' = [state EXCEPT ![h] = "running"]
      BY <1>6, <2>3 DEF ClaimJob, h
    <3>2. ASSUME NEW c \in Jobs PROVE JobAt(c)'
      <4>1. JobAt(c)
        BY DEF JobInv
      <4>2. CASE c = h
        BY <1>6, <2>1, <2>3, <3>1, <4>1, <4>2 DEF ClaimJob, JobAt, TypeOK, Pending
      <4>3. CASE c # h
        BY <1>6, <2>1, <2>2, <3>1, <4>1, <4>3 DEF ClaimJob, JobAt, TypeOK, Pending
      <4> QED
        BY <4>2, <4>3
    <3>3. QueueInv'
      BY <1>6, <2>1, <3>1 DEF ClaimJob, JobInv, QueueInv, TypeOK
    <3> QED
      BY <2>1, <3>1, <3>2, <3>3 DEF JobInv, TypeOK
  <2>4. CASE state[h] # "queued"
    <3>1. UNCHANGED <<job, owner, state, ranIn, result, client, answer>> /\ owner = "pumping"
      BY <1>6, <2>4 DEF ClaimJob, h
    <3>2. ASSUME NEW c \in Jobs PROVE JobAt(c)'
      BY <3>1, <3>2 DEF JobInv, JobAt, Pending
    <3>3. QueueInv'
      BY <1>6, <2>1, <3>1 DEF ClaimJob, JobInv, QueueInv
    <3> QED
      BY <3>1, <3>2, <3>3 DEF JobInv
  <2> QED
    BY <2>3, <2>4
<1>7. CASE RunJob
  <2>1. job \in Jobs /\ state[job] = "running"
    BY <1>7 DEF RunJob, JobInv
  <2>2. state' = [state EXCEPT ![job] = "done"] /\ owner' # "running"
    BY <1>7 DEF RunJob
  <2>3. ASSUME NEW c \in Jobs PROVE JobAt(c)'
    <3>1. JobAt(c)
      BY DEF JobInv
    <3>2. CASE c # job
      <4>1. result'[c] = result[c] /\ ranIn'[c] = ranIn[c] /\ state'[c] = state[c]
        BY <1>0, <1>7, <2>1, <2>2, <3>2 DEF RunJob, TypeOK
      <4>2. client'[c] = client[c] /\ answer'[c] = answer[c] /\ owner = "running"
        BY <1>7 DEF RunJob
      <4> QED
        BY <3>1, <3>2, <4>1, <4>2 DEF JobAt, Pending
    <3>3. CASE c = job
      <4>1. ranIn[c] = 0 /\ result[c] = Pending /\ state'[c] = "done" /\ state[c] = "running"
        BY <2>1, <2>2, <3>1, <3>3 DEF JobAt, TypeOK
      <4>2. \/ result'[c] = Detached /\ ranIn'[c] = 0
            \/ result'[c] = Tell("refused")
            \/ result'[c] = Tell("recorded") /\ ranIn'[c] # 0
        BY <1>0, <1>7, <2>1, <3>3, <4>1 DEF RunJob, RecordOutcomes, TypeOK
      <4>3. client'[c] = client[c] /\ answer'[c] = answer[c]
        BY <1>7 DEF RunJob
      <4>4. answer[c].tell \notin {"deferred", "detached", "recorded"}
        BY <3>1, <4>1 DEF JobAt, Pending, Tell
      <4> QED
        BY <3>1, <4>1, <4>2, <4>3, <4>4 DEF JobAt, Detached, Tell
    <3> QED
      BY <3>2, <3>3
  <2>4. QueueInv'
    BY <1>7, <2>1, <2>2 DEF RunJob, JobInv, QueueInv, TypeOK
  <2> QED
    BY <2>2, <2>3, <2>4 DEF JobInv
<1>8. CASE DrainJob
  <2> DEFINE h == Head(jobs)
  <2>1. /\ h \in Jobs /\ h = jobs[1] /\ 1 \in 1..Len(jobs)
        /\ \A i \in 1..Len(Tail(jobs)) : i + 1 \in 1..Len(jobs) /\ Tail(jobs)[i] = jobs[i + 1]
    BY <1>8, TakeFirst DEF DrainJob, TypeOK
  <2> HIDE DEF h
  <2>2. UNCHANGED <<owner, job, client, answer, ranIn>> /\ owner = "draining"
    BY <1>8 DEF DrainJob
  <2>3. \/ UNCHANGED <<state, result>>
        \/ /\ state[h] = "queued" /\ state' = [state EXCEPT ![h] = "done"]
           /\ result' = [result EXCEPT ![h] = Detached]
    BY <1>8 DEF DrainJob, h
  <2>4. ASSUME NEW c \in Jobs PROVE JobAt(c)'
    <3>1. JobAt(c)
      BY DEF JobInv
    <3>2. CASE state'[c] = state[c] /\ result'[c] = result[c]
      BY <2>2, <3>1, <3>2 DEF JobAt, Pending
    <3>3. CASE state[c] = "queued" /\ state'[c] = "done" /\ result'[c] = Detached
      BY <2>2, <3>1, <3>3 DEF JobAt, Detached, Pending, Tell
    <3> QED
      BY <1>0, <2>1, <2>3, <3>2, <3>3 DEF TypeOK
  <2>5. QueueInv'
    BY <1>8, <2>1, <2>3 DEF DrainJob, JobInv, QueueInv, TypeOK
  <2> QED
    BY <2>2, <2>4, <2>5 DEF JobInv
<1>9. ASSUME NEW c \in Calls, Ask(c) PROVE JobInv'
  <2>1. UNCHANGED <<jobs, state, ranIn, result, owner, job>> /\ client[c] = "idle"
    BY <1>9 DEF Ask
  <2>2. \/ /\ client' = [client EXCEPT ![c] = "answered"]
           /\ answer' = [answer EXCEPT ![c] = Detached]
        \/ client' = [client EXCEPT ![c] = "checked"] /\ answer' = answer
    BY <1>9 DEF Ask, Answers
  <2>3. ASSUME NEW d \in Jobs PROVE JobAt(d)'
    <3>1. JobAt(d)
      BY DEF JobInv
    <3>2. CASE d # c
      <4>1. client'[d] = client[d] /\ answer'[d] = answer[d]
        BY <1>0, <2>2, <3>2 DEF TypeOK
      <4> QED
        BY <2>1, <3>1, <4>1 DEF JobAt, Pending
    <3>3. CASE d = c
      BY <2>1, <2>2, <3>1, <3>3 DEF JobAt, TypeOK, Pending, Detached, Tell
    <3> QED
      BY <3>2, <3>3
  <2> QED
    BY <2>1, <2>3 DEF JobInv, QueueInv
<1>10. ASSUME NEW c \in Calls, Enqueue(c) PROVE JobInv'
  <2>1. UNCHANGED <<ranIn, result, answer, owner, job>> /\ client[c] = "checked"
    BY <1>10 DEF Enqueue
  <2>2. CASE c \in Jobs
    <3>1. /\ client' = [client EXCEPT ![c] = "waiting"]
          /\ state' = [state EXCEPT ![c] = "queued"]
          /\ jobs' = Append(jobs, c)
      BY <1>10, <2>2 DEF Enqueue
    <3>2. state[c] = "new"
      BY <2>1, <2>2 DEF JobInv, JobAt
    <3>3. ASSUME NEW d \in Jobs PROVE JobAt(d)'
      <4>1. JobAt(d)
        BY DEF JobInv
      <4>2. CASE d # c
        BY <2>1, <3>1, <4>1, <4>2 DEF JobAt, TypeOK, Pending
      <4>3. CASE d = c
        BY <1>0, <2>1, <3>1, <3>2, <4>1, <4>3 DEF JobAt, TypeOK, Pending, Tell
      <4> QED
        BY <4>2, <4>3
    <3>4. QueueInv'
      <4>1. \A i \in 1..Len(jobs') : jobs'[i] = c \/ (i \in 1..Len(jobs) /\ jobs'[i] = jobs[i])
        BY <2>2, <3>1, PutLast DEF TypeOK
      <4> QED
        BY <2>2, <3>1, <4>1 DEF JobInv, QueueInv, TypeOK
    <3>5. owner = "running" => job # c
      BY <3>2 DEF JobInv
    <3> QED
      BY <2>1, <3>1, <3>3, <3>4, <3>5 DEF JobInv, TypeOK
  <2>3. CASE c \notin Jobs
    <3>1. ASSUME NEW d \in Jobs PROVE JobAt(d)'
      BY <1>10, <2>1, <2>3, <3>1 DEF Enqueue, JobInv, JobAt, TypeOK, Pending
    <3> QED
      BY <1>10, <2>1, <2>3, <3>1 DEF Enqueue, JobInv, QueueInv
  <2> QED
    BY <2>2, <2>3
<1>11. ASSUME NEW c \in Calls, GetResult(c) PROVE JobInv'
  <2>1. /\ UNCHANGED <<jobs, state, ranIn, result, owner, job>>
        /\ client[c] \in {"waiting", "late"} /\ result[c] # Pending
        /\ client' = [client EXCEPT ![c] = "answered"]
        /\ answer' = [answer EXCEPT ![c] = result[c]]
    BY <1>11 DEF GetResult, Answers
  <2>2. ASSUME NEW d \in Jobs PROVE JobAt(d)'
    <3>1. JobAt(d)
      BY DEF JobInv
    <3>2. CASE d # c
      BY <2>1, <3>1, <3>2 DEF JobAt, TypeOK, Pending
    <3>3. CASE d = c
      <4>1. client'[d] = "answered" /\ answer'[d] = result[d]
        BY <2>1, <3>3 DEF TypeOK
      <4> QED
        BY <2>1, <3>1, <3>3, <4>1 DEF JobAt
    <3> QED
      BY <3>2, <3>3
  <2> QED
    BY <2>1, <2>2 DEF JobInv, QueueInv
<1>12. ASSUME NEW c \in Calls, TimeOut(c) PROVE JobInv'
  <2>1. /\ UNCHANGED <<jobs, ranIn, result, owner, job>>
        /\ client[c] = "waiting" /\ result[c] = Pending
    BY <1>12 DEF TimeOut
  <2>2. CASE c \in Reads
    <3>1. ASSUME NEW d \in Jobs PROVE JobAt(d)'
      BY <1>0, <1>12, <2>1, <2>2, <3>1 DEF TimeOut, Answers, JobInv, JobAt, TypeOK, Pending
    <3> QED
      BY <1>0, <1>12, <2>1, <2>2, <3>1 DEF TimeOut, JobInv, QueueInv
  <2>3. CASE c \in Jobs /\ state[c] = "queued"
    <3>1. /\ state' = [state EXCEPT ![c] = "cancelled"]
          /\ client' = [client EXCEPT ![c] = "answered"]
          /\ answer' = [answer EXCEPT ![c] = Tell("deferred")]
      BY <1>0, <1>12, <2>3 DEF TimeOut, Answers
    <3>2. ASSUME NEW d \in Jobs PROVE JobAt(d)'
      <4>1. JobAt(d)
        BY DEF JobInv
      <4>2. CASE d # c
        BY <2>1, <3>1, <4>1, <4>2 DEF JobAt, TypeOK, Pending
      <4>3. CASE d = c
        <5>1. state'[d] = "cancelled" /\ client'[d] = "answered" /\ answer'[d] = Tell("deferred")
          BY <2>3, <3>1, <4>3, <1>0 DEF TypeOK
        <5> QED
          BY <2>1, <2>3, <4>1, <4>3, <5>1 DEF JobAt, Tell
      <4> QED
        BY <4>2, <4>3
    <3>3. owner = "running" => job # c
      BY <2>3 DEF JobInv
    <3>4. QueueInv'
      BY <2>1, <2>3, <3>1 DEF JobInv, QueueInv, TypeOK
    <3> QED
      BY <2>1, <3>1, <3>2, <3>3, <3>4 DEF JobInv, TypeOK
  <2>4. CASE c \in Jobs /\ state[c] # "queued"
    <3>1. client' = [client EXCEPT ![c] = "late"] /\ UNCHANGED <<state, answer>>
      BY <1>0, <1>12, <2>4 DEF TimeOut
    <3>2. ASSUME NEW d \in Jobs PROVE JobAt(d)'
      BY <2>1, <3>1, <3>2 DEF JobInv, JobAt, TypeOK, Pending
    <3> QED
      BY <2>1, <3>1, <3>2 DEF JobInv, QueueInv
  <2> QED
    BY <2>2, <2>3, <2>4 DEF Calls
<1> QED
  BY <1>1, <1>2, <1>3, <1>4, <1>5, <1>6, <1>7, <1>8, <1>9, <1>10, <1>11, <1>12
     DEF Next, HostStep, OwnerStep, ReaderStep, ClientStep

\* Init has no job queued and no call answered.
LEMMA ServiceInit == ASSUME Init PROVE TypeOK /\ JobInv
<1> USE ServiceConstants DEF Init
<1>1. 0 \in Worlds
  BY DEF Worlds
<1>2. NoSnapshot \in Snapshot /\ Pending \in Answer
  BY <1>1 DEF NoSnapshot, Snapshot, Pending, Tell, Answer
<1>3. <<>> \in Seq(Jobs) /\ <<>> \in Seq(Reads \union {Stop}) /\ Len(<<>>) = 0
  BY EmptySeq
<1>4. TypeOK
  BY <1>1, <1>2, <1>3 DEF TypeOK
<1>5. ASSUME NEW c \in Jobs PROVE JobAt(c)
  BY <1>5 DEF JobAt, Pending, Tell, Calls
<1>6. QueueInv
  BY <1>3 DEF QueueInv
<1> QED
  BY <1>4, <1>5, <1>6 DEF JobInv

\* A caller that gave up, or was told the world is gone, has a job that never
\* writes, and one told it was recorded has rows: with any number of callers,
\* attachments and commits, whatever is cancelled, claimed or drained when
\* (_claim and _cancel in service.py's _Job, pump, _drain_jobs).
THEOREM JobsAnswerTruly == Spec => []AnswerMatchesRun
<1>1. TypeOK /\ JobInv => AnswerMatchesRun
  BY DEF JobInv, JobAt, AnswerMatchesRun
<1>2. TypeOK /\ JobInv /\ [Next]_vars => TypeOK' /\ JobInv'
  BY TypeStep, JobStep
<1> QED
  BY <1>1, <1>2, ServiceInit, PTL DEF Spec

-----------------------------------------------------------------------------
(* At most one reader runs, and only while the service is attached or      *)
(* waits for it to end.                                                    *)

\* The World hosted is the last one attached, and so is the only reader.
ThreadInv ==
  /\ world # 0 => world = attached
  /\ owner \in {"draining", "joining", "retiring"} => world = 0
  /\ owner = "attaching" => world # 0
  /\ reader # 0 =>
       /\ reader = attached
       /\ owner = "draining" \/ (world = reader /\ owner \in {"host", "pumping", "running"})
  /\ \A t \in 1..MaxAttach :
       thread[t].pc # "off" => t = attached /\ (reader = t \/ owner = "joining")

\* A step of the reader keeps it the only one.
LEMMA ReaderAlone ==
  ASSUME TypeOK, ThreadInv, NEW t \in 1..MaxAttach, thread[t].pc # "off",
         UNCHANGED ownerVars, NEW r, thread' = [thread EXCEPT ![t] = r]
  PROVE  ThreadInv'
<1>1. ASSUME NEW u \in 1..MaxAttach, thread'[u].pc # "off" PROVE thread[u].pc # "off"
  BY <1>1 DEF TypeOK, Worlds
<1> QED
  BY <1>1 DEF ThreadInv, ownerVars

\* When detach waits for the reader to end, the reader stays the only one.
LEMMA ThreadStep ==
  ASSUME ~JoinMayTimeOut, TypeOK, ThreadInv, [Next]_vars PROVE ThreadInv'
<1> USE ServiceConstants DEF snapVars, callVars
<1>1. CASE Attach
  <2>1. \A t \in 1..MaxAttach : thread[t].pc = "off"
    BY <1>1 DEF Attach, ThreadInv
  <2> QED
    BY <1>1, <2>1 DEF Attach, ThreadInv, TypeOK, Worlds
<1>2. CASE StartReader
  <2>1. owner = "attaching" /\ owner' = "host" /\ world' = world /\ attached' = attached
    BY <1>2 DEF StartReader
  <2>2. world # 0 /\ world = attached /\ reader = 0 /\ \A t \in 1..MaxAttach : thread[t].pc = "off"
    BY <2>1 DEF ThreadInv
  <2>3. \/ reader' = world /\ thread' = [thread EXCEPT ![world].pc = "waiting"]
        \/ reader' = reader /\ thread' = thread
    BY <1>2 DEF StartReader
  <2>4. \A t \in 1..MaxAttach : thread'[t].pc # "off" => t = world /\ reader' = world
    BY <2>2, <2>3 DEF TypeOK, Worlds
  <2> QED
    BY <2>1, <2>2, <2>3, <2>4 DEF ThreadInv
<1>3. CASE HostCommits \/ Pump \/ Detach \/ UNCHANGED vars
  BY <1>3 DEF HostCommits, Pump, Detach, ThreadInv, vars, ownerVars
<1>4. CASE ClaimJob \/ RunJob \/ PumpEnds
  BY <1>4 DEF ClaimJob, RunJob, PumpEnds, ThreadInv
<1>5. CASE DrainJob \/ StopReader
  BY <1>5 DEF DrainJob, StopReader, ThreadInv, ownerVars
<1>6. CASE JoinReader
  BY <1>6 DEF JoinReader, ThreadInv
<1>7. CASE Retire
  BY <1>7 DEF Retire, ThreadInv
<1>8. ASSUME NEW t \in 1..MaxAttach, ReaderStep(t) PROVE ThreadInv'
  <2>1. thread[t].pc # "off" /\ UNCHANGED ownerVars
    BY <1>8 DEF ReaderStep, TakeRead, TakeSnapshot, AnswerRead, ClearRead
  <2>2. thread' = thread \/ \E r : thread' = [thread EXCEPT ![t] = r]
    BY <1>8 DEF ReaderStep, TakeRead, TakeSnapshot, AnswerRead, ClearRead, Reader
  <2>3. CASE thread' = thread
    BY <2>1, <2>3 DEF ThreadInv, ownerVars
  <2> QED
    BY <2>1, <2>2, <2>3, ReaderAlone
<1>9. ASSUME NEW c \in Calls, Ask(c) \/ ClientStep(c) PROVE ThreadInv'
  <2>1. UNCHANGED <<ownerVars, thread>>
    BY <1>9 DEF Ask, ClientStep, Enqueue, GetResult, TimeOut
  <2> QED
    BY <2>1 DEF ThreadInv, ownerVars
<1> QED
  BY <1>1, <1>2, <1>3, <1>4, <1>5, <1>6, <1>7, <1>8, <1>9 DEF Next, HostStep, OwnerStep

-----------------------------------------------------------------------------
(* A snapshot is open exactly while it is published or held.               *)

\* No World is bound yet, or no longer, and the host is not letting go of one.
Unbound == owner = "attaching" \/ (world = 0 /\ owner \in {"host", "pumping", "running"})

\* What is published is the log of the World attached, at the version of key.
PublishedInv ==
  \/ key = -1 /\ published = NoSnapshot
  \/ /\ key \in Nat /\ key <= log[attached]
     /\ published = [world |-> attached, at |-> key]

SnapInv ==
  /\ open \subseteq {published, held}
  /\ published # NoSnapshot => published \in open
  /\ held # NoSnapshot => held \in open
  /\ Unbound => key = -1 /\ held = NoSnapshot /\ open = {}
  /\ PublishedInv
  /\ reader # 0 => key # -1
  /\ \A t \in 1..MaxAttach : thread[t].pc = "reading" => thread[t].snap = held

\* A refresh publishes and opens the log as it is, and closes what nobody has.
LEMMA RefreshKeeps ==
  ASSUME TypeOK, ThreadInv, SnapInv, world # 0, Refresh, UNCHANGED <<attached, log, held>>
  PROVE  /\ PublishedInv' /\ key' \in Nat
         /\ open' \subseteq {published', held'}
         /\ published' # NoSnapshot => published' \in open'
         /\ held' # NoSnapshot => held' \in open'
<1>1. world = attached /\ log[world] \in Nat
  BY DEF ThreadInv, TypeOK
<1>2. CASE key = log[world]
  BY <1>1, <1>2 DEF Refresh, SnapInv, PublishedInv
<1>3. CASE key # log[world]
  BY <1>1, <1>3 DEF Refresh, SnapInv, PublishedInv
<1> QED
  BY <1>2, <1>3

\* A step that leaves the snapshots alone keeps what is known of them.
LEMMA SnapAlone ==
  ASSUME SnapInv, UNCHANGED <<snapVars, key, attached>>, log'[attached] >= log[attached],
         log[attached] \in Nat, log'[attached] \in Nat,
         Unbound' => Unbound, reader' # 0 => reader # 0,
         \A t \in 1..MaxAttach : thread'[t].pc = "reading" =>
                                   thread[t].pc = "reading" /\ thread'[t].snap = thread[t].snap
  PROVE  SnapInv'
<1>1. PublishedInv'
  BY DEF SnapInv, PublishedInv, snapVars
<1> QED
  BY <1>1 DEF SnapInv, snapVars

\* Every step keeps open just what is published or held.
LEMMA SnapStep ==
  ASSUME ~JoinMayTimeOut, TypeOK, ThreadInv, SnapInv, [Next]_vars PROVE SnapInv'
<1> USE ServiceConstants DEF callVars
<1>0. log[attached] \in Nat /\ log[world] \in Nat
  BY DEF TypeOK
<1>1. CASE Attach
  <2>1. Unbound /\ reader = 0 /\ \A t \in 1..MaxAttach : thread[t].pc = "off"
    BY <1>1 DEF Attach, ThreadInv, Unbound
  <2>2. key = -1 /\ published = NoSnapshot /\ held = NoSnapshot /\ open = {}
    BY <2>1 DEF SnapInv, PublishedInv
  <2> QED
    BY <1>1, <2>1, <2>2 DEF Attach, SnapInv, PublishedInv, snapVars
<1>2. CASE StartReader
  <2>1. /\ world # 0 /\ world' = world /\ attached' = attached /\ log' = log /\ held' = held
        /\ owner' = "host" /\ reader = 0
        /\ \A t \in 1..MaxAttach : thread[t].pc = "off"
    BY <1>2 DEF StartReader, ThreadInv
  <2>2. \A t \in 1..MaxAttach : thread'[t].pc # "reading"
    <3>1. CASE thread' = thread
      BY <2>1, <3>1
    <3>2. CASE thread' = [thread EXCEPT ![world].pc = "waiting"]
      <4>1. ASSUME NEW t \in 1..MaxAttach PROVE t \in Worlds
        BY <4>1 DEF Worlds
      <4>2. ASSUME NEW t \in 1..MaxAttach, t = world PROVE thread'[t].pc = "waiting"
        BY <3>2, <4>1, <4>2 DEF TypeOK
      <4>3. ASSUME NEW t \in 1..MaxAttach, t # world PROVE thread'[t] = thread[t]
        BY <3>2, <4>1, <4>3 DEF TypeOK
      <4> QED
        BY <2>1, <4>2, <4>3
    <3> QED
      BY <1>2, <3>1, <3>2 DEF StartReader
  <2>3. ~Unbound'
    BY <2>1 DEF Unbound
  <2>4. CASE Refresh
    <3>1. /\ PublishedInv' /\ key' \in Nat
          /\ open' \subseteq {published', held'}
          /\ published' # NoSnapshot => published' \in open'
          /\ held' # NoSnapshot => held' \in open'
      BY <2>1, <2>4, RefreshKeeps
    <3> QED
      BY <2>2, <2>3, <3>1 DEF SnapInv
  <2>5. CASE RefreshRaises /\ reader' = reader
    <3>1. PublishedInv'
      BY <2>1, <2>5 DEF RefreshRaises, SnapInv, PublishedInv
    <3> QED
      BY <2>1, <2>2, <2>3, <2>5, <3>1 DEF SnapInv, RefreshRaises
  <2> QED
    BY <1>2, <2>4, <2>5 DEF StartReader
<1>3. CASE HostCommits \/ Pump \/ Detach \/ UNCHANGED vars
  <2>1. UNCHANGED <<snapVars, key, attached, reader, thread>> /\ (Unbound' => Unbound)
    BY <1>3 DEF HostCommits, Pump, Detach, vars, ownerVars, Unbound
  <2>2. log' = log \/ log' = [log EXCEPT ![world] = log[world] + 1]
    BY <1>3 DEF HostCommits, Pump, Detach, vars, ownerVars
  <2>3. log'[attached] >= log[attached] /\ log'[attached] \in Nat
    <3>1. CASE attached = world
      BY <1>0, <2>2, <3>1 DEF TypeOK
    <3>2. CASE attached # world
      BY <1>0, <2>2, <3>2 DEF TypeOK
    <3> QED
      BY <3>1, <3>2
  <2> QED
    BY <1>0, <2>1, <2>3, SnapAlone
<1>4. CASE ClaimJob \/ RunJob
  <2>1. UNCHANGED <<snapVars, key, attached, reader, thread>> /\ (Unbound' => Unbound)
    BY <1>4 DEF ClaimJob, RunJob, Unbound
  <2>2. log' = log \/ log' = [log EXCEPT ![world] = log[world] + 1]
    BY <1>4 DEF ClaimJob, RunJob
  <2>3. log'[attached] >= log[attached] /\ log'[attached] \in Nat
    <3>1. CASE attached = world
      BY <1>0, <2>2, <3>1 DEF TypeOK
    <3>2. CASE attached # world
      BY <1>0, <2>2, <3>2 DEF TypeOK
    <3> QED
      BY <3>1, <3>2
  <2> QED
    BY <1>0, <2>1, <2>3, SnapAlone
<1>5. CASE PumpEnds
  <2>1. UNCHANGED <<world, attached, log, held, reader, thread>> /\ (Unbound' <=> world = 0)
    BY <1>5 DEF PumpEnds, Unbound
  <2>2. CASE world # 0 /\ Refresh
    <3>1. /\ PublishedInv' /\ key' \in Nat
          /\ open' \subseteq {published', held'}
          /\ published' # NoSnapshot => published' \in open'
          /\ held' # NoSnapshot => held' \in open'
      BY <2>1, <2>2, RefreshKeeps
    <3> QED
      BY <2>1, <2>2, <3>1 DEF SnapInv
  <2>3. CASE UNCHANGED <<key, published, open>>
    <3>1. Unbound' => Unbound
      BY <1>5, <2>1 DEF PumpEnds, Unbound
    <3> QED
      BY <1>0, <2>1, <2>3, <3>1, SnapAlone DEF snapVars
  <2> QED
    BY <1>5, <2>2, <2>3 DEF PumpEnds, RefreshRaises
<1>6. CASE DrainJob \/ StopReader \/ JoinReader
  <2>1. UNCHANGED <<snapVars, key, attached, thread, log>> /\ (Unbound' => Unbound)
    BY <1>6 DEF DrainJob, StopReader, JoinReader, ownerVars, Unbound
  <2>2. reader' # 0 => reader # 0
    BY <1>6 DEF DrainJob, StopReader, JoinReader, ownerVars
  <2> QED
    BY <1>0, <2>1, <2>2, SnapAlone
<1>7. CASE Retire
  <2>1. reader = 0 /\ \A t \in 1..MaxAttach : thread[t].pc = "off"
    BY <1>7 DEF Retire, ThreadInv
  <2>2. open' = {}
    BY <1>7 DEF Retire, SnapInv
  <2> QED
    BY <1>7, <2>1, <2>2 DEF Retire, SnapInv, PublishedInv, Unbound
<1>8. ASSUME NEW t \in 1..MaxAttach, ReaderStep(t) PROVE SnapInv'
  <2>1. thread[t].pc # "off" /\ UNCHANGED ownerVars /\ t \in Worlds
    BY <1>8 DEF ReaderStep, TakeRead, TakeSnapshot, AnswerRead, ClearRead, Worlds
  <2>2. t = attached /\ ~Unbound /\ ~Unbound'
    BY <2>1 DEF ThreadInv, Unbound, ownerVars
  <2>3. \A u \in 1..MaxAttach : thread[u].pc # "off" => u = t
    BY <2>2 DEF ThreadInv
  <2>4. CASE TakeRead(t) \/ AnswerRead(t) \/ ClearRead(t)
    <3>1. UNCHANGED <<snapVars, key, attached, reader, log>>
      BY <2>1, <2>4 DEF TakeRead, AnswerRead, ClearRead, ownerVars
    <3>2. /\ \A u \in Worlds : u # t => thread'[u] = thread[u]
          /\ thread' = thread \/ thread'[t].pc # "reading"
      <4>1. CASE TakeRead(t)
        BY <2>1, <4>1 DEF TakeRead, Reader, TypeOK
      <4>2. CASE AnswerRead(t)
        BY <2>1, <4>2 DEF AnswerRead, Reader, TypeOK
      <4>3. CASE ClearRead(t)
        BY <2>1, <4>3 DEF ClearRead, Reader, TypeOK
      <4> QED
        BY <2>4, <4>1, <4>2, <4>3
    <3>3. \A u \in 1..MaxAttach : thread'[u].pc = "reading" =>
                                    thread[u].pc = "reading" /\ thread'[u].snap = thread[u].snap
      BY <3>2 DEF Worlds
    <3> QED
      BY <1>0, <2>2, <3>1, <3>3, SnapAlone
  <2>5. CASE TakeSnapshot(t)
    <3>1. /\ held' = published /\ published' = published
          /\ open' = open \ ({held} \ {published})
          /\ thread' = [thread EXCEPT ![t] =
                          [pc |-> "reading", req |-> thread[t].req, snap |-> published]]
      BY <2>5 DEF TakeSnapshot, Reader
    <3>2. \A u \in 1..MaxAttach : thread'[u].pc = "reading" => thread'[u].snap = held'
      BY <2>1, <2>3, <3>1 DEF TypeOK, Worlds
    <3>3. PublishedInv'
      BY <2>1, <3>1 DEF SnapInv, PublishedInv, ownerVars
    <3> QED
      BY <2>1, <2>2, <3>1, <3>2, <3>3 DEF SnapInv, ownerVars
  <2> QED
    BY <1>8, <2>4, <2>5 DEF ReaderStep
<1>9. ASSUME NEW c \in Calls, Ask(c) \/ ClientStep(c) PROVE SnapInv'
  <2>1. UNCHANGED <<ownerVars, snapVars, thread>>
    BY <1>9 DEF Ask, ClientStep, Enqueue, GetResult, TimeOut
  <2> QED
    BY <1>0, <2>1, SnapAlone DEF ownerVars, Unbound
<1> QED
  BY <1>1, <1>2, <1>3, <1>4, <1>5, <1>6, <1>7, <1>8, <1>9 DEF Next, HostStep, OwnerStep

-----------------------------------------------------------------------------
(* A read is answered from a snapshot no older than the one it saw.        *)

NotOlder(s, c) == s.world = asked[c].world => asked[c].at <= s.at

\* What a read was asked of, was told, and will be told.
ReadAt(c) ==
  /\ asked[c].at <= log[asked[c].world]
  /\ NotOlder(published, c)
  /\ result[c].tell = "read" => client[c] # "idle" /\ NotOlder(result[c].snap, c)
  /\ answer[c].tell = "read" => client[c] # "idle" /\ NotOlder(answer[c].snap, c)

\* The reader has the request of a client that asked, and reads for it from a
\* snapshot not older.
ServedAt(t) ==
  LET c == thread[t].req
  IN  c # Stop => /\ client[c] # "idle"
                  /\ thread[t].pc = "reading" => NotOlder(thread[t].snap, c)

FreshInv ==
  /\ log[0] = 0
  /\ \A c \in Reads : ReadAt(c)
  /\ \A t \in 1..MaxAttach : ServedAt(t)
  /\ \A i \in 1..Len(reads) : reads[i] # Stop => client[reads[i]] # "idle"

\* A step that asks nothing, answers nothing and publishes nothing older.
LEMMA FreshAlone ==
  ASSUME TypeOK, FreshInv, UNCHANGED <<asked, client, answer, result, reads>>,
         \A w \in Worlds : log'[w] \in Nat /\ log'[w] >= log[w], log'[0] = 0,
         \A t \in 1..MaxAttach : thread'[t].req = thread[t].req
           /\ (thread'[t].pc = "reading" => thread[t].pc = "reading")
           /\ thread'[t].snap = thread[t].snap,
         \/ published' = published
         \/ published' = NoSnapshot
         \/ \E w \in Worlds : published' = [world |-> w, at |-> log[w]]
  PROVE  FreshInv'
<1>0. \A c \in Reads : asked[c] \in Snapshot /\ log[asked[c].world] \in Nat
  BY DEF TypeOK, Snapshot, Calls
<1>1. ASSUME NEW c \in Reads PROVE ReadAt(c)'
  <2>1. ReadAt(c) /\ asked[c].world \in Worlds /\ asked[c].at \in Nat /\ log[asked[c].world] \in Nat
    BY <1>0, <1>1 DEF FreshInv, Snapshot
  <2>2. asked'[c].at <= log'[asked'[c].world]
    BY <2>1 DEF ReadAt
  <2>3. CASE published' = published
    BY <2>1, <2>2, <2>3 DEF ReadAt, NotOlder
  <2>4. CASE published' = NoSnapshot
    <3>1. asked[c].world = 0 => asked[c].at <= 0
      BY <2>1 DEF ReadAt, FreshInv
    <3> QED
      BY <2>1, <2>2, <2>4, <3>1 DEF ReadAt, NotOlder, NoSnapshot
  <2>5. ASSUME NEW w \in Worlds, published' = [world |-> w, at |-> log[w]] PROVE ReadAt(c)'
    BY <2>1, <2>2, <2>5 DEF ReadAt, NotOlder
  <2> QED
    BY <2>3, <2>4, <2>5
<1>2. \A t \in 1..MaxAttach : ServedAt(t)'
  BY DEF FreshInv, ServedAt, NotOlder
<1> QED
  BY <1>1, <1>2 DEF FreshInv

\* Every step keeps reads from being answered out of older snapshots.
LEMMA FreshStep ==
  ASSUME TypeOK, ThreadInv, SnapInv, FreshInv, [Next]_vars PROVE FreshInv'
<1> USE ServiceConstants
<1>0. /\ \A w \in Worlds : log[w] \in Nat /\ log[w] >= log[w]
      /\ log[0] = 0 /\ 0 \in Worlds /\ world \in Worlds
  BY DEF TypeOK, FreshInv, Worlds
<1>00. Reads \subseteq Calls /\ \A c \in Reads : c # Stop /\ c \notin Jobs
  BY DEF Calls
<1>1. ASSUME UNCHANGED <<asked, client, answer, result, reads, thread, published>>,
             log' = log \/ (world # 0 /\ log' = [log EXCEPT ![world] = log[world] + 1])
      PROVE  FreshInv'
  <2>1. \A w \in Worlds : log'[w] \in Nat /\ log'[w] >= log[w]
    <3>1. ASSUME NEW w \in Worlds PROVE log'[w] \in Nat /\ log'[w] >= log[w]
      <4>1. CASE w = world
        BY <1>0, <1>1, <3>1, <4>1 DEF TypeOK
      <4>2. CASE w # world
        BY <1>0, <1>1, <3>1, <4>2 DEF TypeOK
      <4> QED
        BY <4>1, <4>2
    <3> QED
      BY <3>1
  <2>2. log'[0] = 0
    BY <1>0, <1>1 DEF TypeOK
  <2> QED
    BY <1>1, <2>1, <2>2, FreshAlone
<1>2. CASE StartReader
  <2>1. UNCHANGED <<asked, client, answer, result, reads, log>> /\ world' = world
    BY <1>2 DEF StartReader, callVars
  <2>2. \/ published' = published
        \/ published' = [world |-> world, at |-> log[world]]
    BY <1>2 DEF StartReader, Refresh, RefreshRaises
  <2>3. ASSUME NEW t \in 1..MaxAttach
        PROVE  /\ thread'[t].req = thread[t].req /\ thread'[t].snap = thread[t].snap
               /\ thread'[t].pc = "reading" => thread[t].pc = "reading"
    <3>1. t \in Worlds
      BY DEF Worlds
    <3>2. thread' = thread \/ thread' = [thread EXCEPT ![world].pc = "waiting"]
      BY <1>2 DEF StartReader
    <3>3. CASE t = world
      BY <3>1, <3>2, <3>3 DEF TypeOK
    <3>4. CASE t # world
      BY <3>1, <3>2, <3>4 DEF TypeOK
    <3> QED
      BY <3>3, <3>4
  <2> QED
    BY <1>0, <2>1, <2>2, <2>3, FreshAlone
<1>3. CASE PumpEnds
  <2>1. UNCHANGED <<asked, client, answer, result, reads, log, thread>>
    BY <1>3 DEF PumpEnds, callVars
  <2>2. \/ published' = published
        \/ published' = [world |-> world, at |-> log[world]]
    BY <1>3 DEF PumpEnds, Refresh, RefreshRaises
  <2> QED
    BY <1>0, <2>1, <2>2, FreshAlone
<1>4. CASE Retire
  <2>1. UNCHANGED <<asked, client, answer, result, reads, log, thread>> /\ published' = NoSnapshot
    BY <1>4 DEF Retire, callVars
  <2> QED
    BY <1>0, <2>1, FreshAlone
<1>5. CASE Attach \/ HostCommits \/ Pump \/ Detach \/ ClaimJob \/ JoinReader \/ UNCHANGED vars
  BY <1>1, <1>5 DEF Attach, HostCommits, Pump, Detach, ClaimJob, JoinReader, vars,
                    ownerVars, snapVars, callVars
<1>6. CASE RunJob \/ DrainJob
  <2>1. UNCHANGED <<asked, client, answer, reads, thread, published>>
    BY <1>6 DEF RunJob, DrainJob, snapVars
  <2>2. log' = log \/ (world # 0 /\ log' = [log EXCEPT ![world] = log[world] + 1])
    BY <1>6 DEF RunJob, DrainJob, ownerVars
  <2>3. \A w \in Worlds : log'[w] \in Nat /\ log'[w] >= log[w]
    <3>1. ASSUME NEW w \in Worlds PROVE log'[w] \in Nat /\ log'[w] >= log[w]
      <4>1. CASE w = world
        BY <1>0, <2>2, <3>1, <4>1 DEF TypeOK
      <4>2. CASE w # world
        BY <1>0, <2>2, <3>1, <4>2 DEF TypeOK
      <4> QED
        BY <4>1, <4>2
    <3> QED
      BY <3>1
  <2>4. log'[0] = 0
    BY <1>0, <2>2 DEF TypeOK
  <2>5. \A c \in Calls : result'[c] = result[c] \/ result'[c].tell # "read"
    <3>1. CASE RunJob
      BY <3>1 DEF RunJob, RecordOutcomes, Detached, Tell, TypeOK
    <3>2. CASE DrainJob
      BY <3>2 DEF DrainJob, Detached, Tell, TypeOK
    <3> QED
      BY <1>6, <3>1, <3>2
  <2>6. ASSUME NEW c \in Reads PROVE ReadAt(c)'
    <3>1. ReadAt(c) /\ asked[c].world \in Worlds /\ asked[c].at \in Nat
      BY <1>00 DEF FreshInv, TypeOK, Snapshot
    <3>2. asked'[c].at <= log'[asked'[c].world]
      BY <1>0, <2>1, <2>3, <3>1 DEF ReadAt
    <3> QED
      BY <1>00, <2>1, <2>5, <3>1, <3>2 DEF ReadAt, NotOlder
  <2> QED
    BY <2>1, <2>4, <2>6 DEF FreshInv, ServedAt, NotOlder
<1>7. CASE StopReader
  <2>1. /\ UNCHANGED <<asked, client, answer, result, log, thread, published>>
        /\ reads' = reads \/ reads' = Append(reads, Stop)
    BY <1>7 DEF StopReader, snapVars, callVars
  <2>2. \A i \in 1..Len(reads') : reads'[i] = Stop \/ (i \in 1..Len(reads) /\ reads'[i] = reads[i])
    BY <2>1, PutLast DEF TypeOK
  <2>3. \A c \in Reads : ReadAt(c)'
    BY <2>1 DEF FreshInv, ReadAt, NotOlder
  <2> QED
    BY <2>1, <2>2, <2>3 DEF FreshInv, ServedAt, NotOlder
<1>8. ASSUME NEW t \in 1..MaxAttach, ReaderStep(t) PROVE FreshInv'
  <2>0. t \in Worlds /\ UNCHANGED <<asked, client, answer, log, published>>
    BY <1>8 DEF ReaderStep, TakeRead, TakeSnapshot, AnswerRead, ClearRead, Worlds,
                ownerVars, snapVars, callVars
  <2>1. ServedAt(t)
    BY DEF FreshInv
  <2>2. CASE TakeRead(t)
    <3>1. /\ reads # <<>> /\ reads' = Tail(reads) /\ result' = result
          /\ Head(reads) = reads[1] /\ 1 \in 1..Len(reads)
          /\ \A i \in 1..Len(reads') : i + 1 \in 1..Len(reads) /\ reads'[i] = reads[i + 1]
      BY <2>2, TakeFirst DEF TakeRead, callVars, TypeOK
    <3>2. Head(reads) # Stop => client[Head(reads)] # "idle"
      BY <3>1 DEF FreshInv
    <3>3. \A u \in 1..MaxAttach : u # t => thread'[u] = thread[u]
      BY <2>2 DEF TakeRead, Reader, TypeOK, Worlds
    <3>4. thread'[t].req = Head(reads) /\ thread'[t].pc # "reading"
      BY <2>0, <2>2 DEF TakeRead, Reader, TypeOK
    <3>5. \A u \in 1..MaxAttach : ServedAt(u)'
      BY <2>0, <3>2, <3>3, <3>4 DEF FreshInv, ServedAt, NotOlder
    <3>6. \A c \in Reads : ReadAt(c)'
      BY <2>0, <3>1 DEF FreshInv, ReadAt, NotOlder
    <3>7. \A i \in 1..Len(reads') : reads'[i] # Stop => client'[reads'[i]] # "idle"
      BY <2>0, <3>1 DEF FreshInv
    <3> QED
      BY <1>0, <2>0, <3>5, <3>6, <3>7 DEF FreshInv
  <2>3. CASE TakeSnapshot(t)
    <3>1. reads' = reads /\ result' = result
      BY <2>3 DEF TakeSnapshot, callVars
    <3>2. \A u \in 1..MaxAttach : u # t => thread'[u] = thread[u]
      BY <2>3 DEF TakeSnapshot, Reader, TypeOK, Worlds
    <3>3. thread'[t].req = thread[t].req /\ thread'[t].snap = published
      BY <2>0, <2>3 DEF TakeSnapshot, Reader, TypeOK
    <3>4. thread[t].req # Stop => NotOlder(published, thread[t].req)
      BY <2>0 DEF TypeOK, FreshInv, ReadAt
    <3>5. \A u \in 1..MaxAttach : ServedAt(u)'
      BY <2>0, <2>1, <3>2, <3>3, <3>4 DEF FreshInv, ServedAt, NotOlder
    <3>6. \A c \in Reads : ReadAt(c)'
      BY <2>0, <3>1 DEF FreshInv, ReadAt, NotOlder
    <3> QED
      BY <1>0, <2>0, <3>1, <3>5, <3>6 DEF FreshInv
  <2>4. CASE AnswerRead(t)
    <3> DEFINE a == IF thread[t].snap = NoSnapshot THEN Detached
                    ELSE [tell |-> "read", snap |-> thread[t].snap]
    <3>1. /\ reads' = reads /\ thread[t].pc = "reading"
          /\ result' = [result EXCEPT ![thread[t].req] = a]
      BY <2>4 DEF AnswerRead
    <3>2. \A u \in 1..MaxAttach : u # t => thread'[u] = thread[u]
      BY <2>4 DEF AnswerRead, Reader, TypeOK, Worlds
    <3>3. thread'[t].req = Stop
      BY <2>0, <2>4 DEF AnswerRead, Reader, TypeOK
    <3>4. \A u \in 1..MaxAttach : ServedAt(u)'
      BY <2>0, <3>2, <3>3 DEF FreshInv, ServedAt, NotOlder
    <3>5. a.tell = "read" => a.snap = thread[t].snap
      BY DEF Detached, Tell
    <3> HIDE DEF a
    <3>6. ASSUME NEW c \in Reads PROVE ReadAt(c)'
      <4>1. ReadAt(c)
        BY DEF FreshInv
      <4>2. CASE c # thread[t].req
        <5>1. result'[c] = result[c]
          BY <1>00, <3>1, <4>2 DEF TypeOK
        <5> QED
          BY <2>0, <4>1, <5>1 DEF ReadAt, NotOlder
      <4>3. CASE c = thread[t].req
        <5>1. result'[c] = a
          BY <1>00, <3>1, <4>3 DEF TypeOK
        <5>2. client[c] # "idle" /\ NotOlder(thread[t].snap, c)
          BY <1>00, <2>1, <3>1, <4>3 DEF ServedAt
        <5> QED
          BY <2>0, <3>5, <4>1, <5>1, <5>2 DEF ReadAt, NotOlder
      <4> QED
        BY <4>2, <4>3
    <3> QED
      BY <1>0, <2>0, <3>1, <3>4, <3>6 DEF FreshInv
  <2>5. CASE ClearRead(t)
    <3>1. \A u \in 1..MaxAttach : thread'[u] = thread[u] \/ thread'[u].req = Stop
      <4>1. CASE thread' = thread
        BY <4>1
      <4>2. CASE thread' = [thread EXCEPT ![t] = [pc |-> "off", req |-> Stop, snap |-> NoSnapshot]]
        BY <4>2 DEF TypeOK, Worlds
      <4> QED
        BY <2>5, <4>1, <4>2 DEF ClearRead, Reader
    <3>2. \A c \in Reads : result'[c] = result[c] \/ result'[c].tell # "read"
      BY <1>00, <2>5 DEF ClearRead, Detached, Tell, TypeOK
    <3>3. \A i \in 1..Len(reads') : \E j \in 1..Len(reads) : reads'[i] = reads[j]
      <4>1. CASE reads = <<>>
        BY <2>5, <4>1 DEF ClearRead
      <4>2. CASE reads # <<>>
        <5>1. reads' = Tail(reads)
          BY <2>5, <4>2 DEF ClearRead
        <5>2. \A i \in 1..Len(reads') : i + 1 \in 1..Len(reads) /\ reads'[i] = reads[i + 1]
          BY <4>2, <5>1, TakeFirst DEF TypeOK
        <5> QED
          BY <5>2
      <4> QED
        BY <4>1, <4>2
    <3>4. \A u \in 1..MaxAttach : ServedAt(u)'
      BY <2>0, <3>1 DEF FreshInv, ServedAt, NotOlder
    <3>5. \A c \in Reads : ReadAt(c)'
      BY <2>0, <3>2 DEF FreshInv, ReadAt, NotOlder
    <3> QED
      BY <1>0, <2>0, <3>3, <3>4, <3>5 DEF FreshInv
  <2> QED
    BY <1>8, <2>2, <2>3, <2>4, <2>5 DEF ReaderStep
<1>9. ASSUME NEW c \in Calls, Ask(c) PROVE FreshInv'
  <2>1. /\ UNCHANGED <<log, published, result, reads, thread>> /\ client[c] = "idle"
        /\ client' = [client EXCEPT ![c] = client'[c]] /\ client'[c] # "idle"
    BY <1>9 DEF Ask, Answers, ownerVars, snapVars, TypeOK
  <2>2. \A d \in Calls : client[d] # "idle" => client'[d] # "idle" /\ d # c
    BY <2>1 DEF TypeOK
  <2>3. \A d \in Calls : d # c => asked'[d] = asked[d] /\ answer'[d] = answer[d]
    BY <1>9 DEF Ask, Answers, TypeOK
  <2>4. ASSUME NEW d \in Reads PROVE ReadAt(d)'
    <3>1. ReadAt(d)
      BY DEF FreshInv
    <3>2. CASE d # c
      BY <1>00, <2>1, <2>2, <2>3, <3>1, <3>2 DEF ReadAt, NotOlder
    <3>3. CASE d = c
      <4>1. result'[d].tell # "read" /\ answer[d].tell # "read"
        BY <2>1, <3>1, <3>3 DEF ReadAt
      <4>2. CASE asked' = asked /\ answer' = [answer EXCEPT ![c] = Detached]
        <5>1. answer'[d].tell # "read"
          BY <1>00, <3>3, <4>2 DEF TypeOK, Detached, Tell
        <5> QED
          BY <2>1, <3>1, <4>1, <4>2, <5>1 DEF ReadAt, NotOlder
      <4>3. CASE /\ world # 0 /\ reader # 0 /\ answer' = answer
                 /\ asked' = [asked EXCEPT ![c] = [world |-> world, at |-> published.at]]
        <5>1. asked'[d] = [world |-> world, at |-> published.at]
          BY <1>00, <3>3, <4>3 DEF TypeOK
        <5>2. published.world = world /\ published.at <= log[world] /\ published.at \in Nat
          BY <4>3 DEF ThreadInv, SnapInv, PublishedInv
        <5> QED
          BY <2>1, <4>1, <4>3, <5>1, <5>2 DEF ReadAt, NotOlder
      <4> QED
        BY <1>9, <3>3, <4>2, <4>3 DEF Ask, Answers
    <3> QED
      BY <3>2, <3>3
  <2>5. ASSUME NEW t \in 1..MaxAttach PROVE ServedAt(t)'
    <3>1. thread[t].req # Stop => thread[t].req \in Calls
      BY DEF TypeOK, Worlds, Calls
    <3> QED
      BY <2>1, <2>2, <2>3, <3>1 DEF FreshInv, ServedAt, NotOlder
  <2>6. \A i \in 1..Len(reads) : reads[i] # Stop => client'[reads[i]] # "idle"
    <3>1. \A i \in 1..Len(reads) : reads[i] # Stop => reads[i] \in Calls
      BY DEF TypeOK, Calls
    <3> QED
      BY <2>2, <3>1 DEF FreshInv
  <2> QED
    BY <1>0, <2>1, <2>4, <2>5, <2>6 DEF FreshInv
<1>10. ASSUME NEW c \in Calls, ClientStep(c) PROVE FreshInv'
  <2>1. /\ UNCHANGED <<log, published, result, asked, thread>> /\ client[c] # "idle"
        /\ \A d \in Calls : client[d] # "idle" => client'[d] # "idle"
    BY <1>10 DEF ClientStep, Enqueue, GetResult, TimeOut, Answers, ownerVars, snapVars, TypeOK
  <2>2. \A d \in Calls : \/ answer'[d] = answer[d] \/ answer'[d] = result[d]
                         \/ answer'[d].tell # "read"
    BY <1>10 DEF ClientStep, Enqueue, GetResult, TimeOut, Answers, Tell, TypeOK
  <2>3. ASSUME NEW d \in Reads PROVE ReadAt(d)'
    BY <1>00, <2>1, <2>2 DEF FreshInv, ReadAt, NotOlder
  <2>4. ASSUME NEW t \in 1..MaxAttach PROVE ServedAt(t)'
    <3>1. thread[t].req # Stop => thread[t].req \in Calls
      BY DEF TypeOK, Worlds, Calls
    <3> QED
      BY <2>1, <3>1 DEF FreshInv, ServedAt, NotOlder
  <2>5. \A i \in 1..Len(reads') : reads'[i] = c \/ (i \in 1..Len(reads) /\ reads'[i] = reads[i])
    <3>1. CASE reads' = reads
      BY <3>1
    <3>2. CASE c \in Reads /\ reads' = Append(reads, c)
      BY <3>2, PutLast DEF TypeOK
    <3> QED
      BY <1>10, <3>1, <3>2 DEF ClientStep, Enqueue, GetResult, TimeOut, Calls
  <2>6. \A i \in 1..Len(reads) : reads[i] # Stop => reads[i] \in Calls
    BY DEF TypeOK, Calls
  <2> QED
    BY <1>0, <2>1, <2>3, <2>4, <2>5, <2>6 DEF FreshInv
<1> QED
  BY <1>2, <1>3, <1>4, <1>5, <1>6, <1>7, <1>8, <1>9, <1>10 DEF Next, HostStep, OwnerStep

\* Nothing is published, asked or read at first.
LEMMA SnapshotInit == ASSUME Init PROVE ThreadInv /\ SnapInv /\ FreshInv
<1> USE ServiceConstants DEF Init
<1>0. 0 \in Worlds /\ Reads \subseteq Calls /\ Len(<<>>) = 0 /\ \A t \in 1..MaxAttach : t \in Worlds
  BY EmptySeq DEF Worlds, Calls
<1>1. ThreadInv
  BY <1>0 DEF ThreadInv
<1>2. SnapInv
  BY <1>0 DEF SnapInv, PublishedInv
<1>3. ASSUME NEW c \in Reads PROVE ReadAt(c)
  BY <1>0 DEF ReadAt, NotOlder, NoSnapshot, Pending, Tell
<1>4. FreshInv
  BY <1>0, <1>3 DEF FreshInv, ServedAt
<1> QED
  BY <1>1, <1>2, <1>4

\* Unless detach stops waiting for the reader, viewers read only snapshots that
\* are open, of the World hosted and no older than the last pump before they
\* asked, and none is left open behind (attach, _refresh, _take_snapshot, detach).
THEOREM SnapshotsStaySound == ~JoinMayTimeOut => (Spec => []SnapshotsAreSound)
<1>1. TypeOK /\ ThreadInv /\ SnapInv /\ FreshInv => SnapshotsAreSound
  <2> SUFFICES ASSUME TypeOK, ThreadInv, SnapInv, FreshInv PROVE SnapshotsAreSound
    OBVIOUS
  <2>1. ReadsOpenSnapshot
    BY DEF ReadsOpenSnapshot, SnapInv
  <2>2. NoSnapshotLeaks
    BY DEF NoSnapshotLeaks, SnapInv, Unbound
  <2>3. ServesHostedWorld
    BY DEF ServesHostedWorld, SnapInv, PublishedInv, ThreadInv
  <2>4. ReadsAreFresh
    BY ServiceConstants DEF ReadsAreFresh, FreshInv, ReadAt, NotOlder, TypeOK, Answer, Snapshot, Calls
  <2> QED
    BY <2>1, <2>2, <2>3, <2>4 DEF SnapshotsAreSound
<1>2. ASSUME ~JoinMayTimeOut
      PROVE  TypeOK /\ JobInv /\ ThreadInv /\ SnapInv /\ FreshInv /\ [Next]_vars
               => TypeOK' /\ JobInv' /\ ThreadInv' /\ SnapInv' /\ FreshInv'
  BY <1>2, TypeStep, JobStep, ThreadStep, SnapStep, FreshStep
<1>3. Init => TypeOK /\ JobInv /\ ThreadInv /\ SnapInv /\ FreshInv
  BY ServiceInit, SnapshotInit
<1> SUFFICES ASSUME ~JoinMayTimeOut PROVE Spec => []SnapshotsAreSound
  OBVIOUS
<1> QED
  BY <1>1, <1>2, <1>3, PTL DEF Spec

=============================================================================
