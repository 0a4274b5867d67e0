------------------------- MODULE PatternBufferProofs -------------------------
(***************************************************************************)
(* Theorems about PatternBuffer for every set of calls and every bound, in *)
(* three parts: the sets, the refinement of WorldLog, the kept views.      *)
(*                                                                         *)
(* The argument: rows are only ever tagged with the running call, so a set *)
(* that is not running has nothing pending; the running set's rows are all *)
(* pending, exactly as many as it wrote, until its one COMMIT moves them   *)
(* together; and a set is told "abort" only where its transaction was      *)
(* still open or never begun.  That is IInv.                               *)
(***************************************************************************)
EXTENDS PatternBuffer, TLAPS

\* The places in call c's own order that its rows among `rows` have.
Parts(rows, c) == {r.part : r \in {q \in rows : q.by = c}}

\* `rows` has a last row number (0 when empty): what HighSeq returns exists.
HasTop(rows) ==
  \E n \in {0} \union {r.seq : r \in rows} : \A r \in rows : r.seq <= n

-----------------------------------------------------------------------------
(* The inductive invariant, by parts.                                      *)

\* What the program counter says of the running call.
CallInv ==
  /\ call = NoCall <=> pc = "idle"
  /\ unitOpen <=> call \in Sets
  /\ pc \in {"setup", "body", "committed", "failing"} => unitOpen
  /\ pc = "inserted" => ~unitOpen
  /\ handle = "closed" => call = NoCall
  /\ call # NoCall => answer[call] = "none"

\* Rows are pending only in a transaction, and a unit's body runs in one.
TxInv ==
  /\ staged # {} => tx = "holding"
  /\ unitOpen /\ pc \in {"body", "appending", "sequenced", "checked"} =>
       tx # "none"

\* A set that is not running: nothing pending, its answer true.
RestingSet(c) ==
  /\ Parts(staged, c) = {}
  /\ answer[c] = "none" => Parts(file, c) = {} /\ wrote[c] = 0
  /\ answer[c] = "ok" => Parts(file, c) = 1..wrote[c]
  /\ answer[c] = "abort" => Parts(file, c) = {}

\* The running set.
RunningSet(c) ==
  /\ pc = "setup" => wrote[c] = 0
  /\ pc \in {"setup", "body", "appending", "sequenced", "checked"} =>
       Parts(file, c) = {} /\ Parts(staged, c) = 1..wrote[c]
  /\ pc = "committed" =>
       /\ Parts(file, c) = 1..wrote[c]
       /\ staged = {} /\ unitCommitted
  /\ pc = "failing" /\ tx # "none" => Parts(file, c) = {}

SetInv ==
  \A c \in Sets :
    /\ Parts(file, c) = {} \/ Parts(file, c) = 1..wrote[c]
    /\ c # call => RestingSet(c)
    /\ c = call => RunningSet(c)

TopInv == HasTop(file) /\ HasTop(staged)

IInv == TypeOK /\ TopInv /\ CallInv /\ TxInv /\ SetInv /\ SeqNamesOneRow

-----------------------------------------------------------------------------
(* Lemmas about rows.                                                      *)

\* Every finite log has a last number; HighSeq returns it.
LEMMA HighSeqIsTop ==
  ASSUME NEW rows, HasTop(rows), \A r \in rows : r.seq \in Nat
  PROVE  /\ HighSeq(rows) \in Nat
         /\ \A r \in rows : r.seq <= HighSeq(rows)
BY DEF HasTop, HighSeq

\* Two logs that end, end together.
LEMMA TopOfUnion ==
  ASSUME NEW a, NEW b, HasTop(a), HasTop(b),
         \A r \in a \union b : r.seq \in Nat
  PROVE  HasTop(a \union b)
<1>1. PICK m \in {0} \union {r.seq : r \in a} : \A r \in a : r.seq <= m
  BY DEF HasTop
<1>2. PICK n \in {0} \union {r.seq : r \in b} : \A r \in b : r.seq <= n
  BY DEF HasTop
<1>3. m \in Nat /\ n \in Nat
  OBVIOUS
<1>4. CASE m <= n
  <2>1. n \in {0} \union {r.seq : r \in a \union b}
    OBVIOUS
  <2>2. \A r \in a \union b : r.seq <= n
    BY <1>1, <1>2, <1>3, <1>4
  <2> QED
    BY <2>1, <2>2 DEF HasTop
<1>5. CASE n <= m
  <2>1. m \in {0} \union {r.seq : r \in a \union b}
    OBVIOUS
  <2>2. \A r \in a \union b : r.seq <= m
    BY <1>1, <1>2, <1>3, <1>5
  <2> QED
    BY <2>1, <2>2 DEF HasTop
<1> QED
  BY <1>3, <1>4, <1>5

\* The empty log ends at 0, and a log of one row at that row.
LEMMA TopOfNoRow == HasTop({})
BY DEF HasTop

\* A log of one row ends there.
LEMMA TopOfOneRow ==
  ASSUME NEW r, r.seq \in Nat
  PROVE  HasTop({r})
BY DEF HasTop

\* A set's places in a union are its places in either.
LEMMA PartsOfUnion ==
  ASSUME NEW a, NEW b, NEW c
  PROVE  Parts(a \union b, c) = Parts(a, c) \union Parts(b, c)
BY DEF Parts

\* No row, no place.
LEMMA PartsOfNoRow == ASSUME NEW c PROVE Parts({}, c) = {}
BY DEF Parts

\* One row, one place.
LEMMA PartsOfOneRow ==
  ASSUME NEW r, NEW c
  PROVE  Parts({r}, c) = IF r.by = c THEN {r.part} ELSE {}
BY DEF Parts

\* A call has no place among rows exactly when it has no row there.
LEMMA PartsAndRows ==
  ASSUME NEW rows, NEW c
  PROVE  RowsOf(rows, c) = {} <=> Parts(rows, c) = {}
BY DEF Parts, RowsOf

-----------------------------------------------------------------------------
(* Type correctness is inductive together with TopInv and CallInv.         *)

\* A fresh handle on an empty file satisfies the invariant.
LEMMA InitIInv == Init => IInv
<1> SUFFICES ASSUME Init PROVE IInv
  OBVIOUS
<1> USE BufferConstants DEF Init
<1>1. TypeOK
  <2>1. outside \in 0..MaxOutside
    BY DEF BufferConstants
  <2>2. cache.at \in Int /\ cache.rows \subseteq Row
    BY DEF NoCache
  <2>3. next \in [seq : Nat, target : Nat]
    BY DEF NoRow
  <2>4. wrote \in [Calls -> Nat] /\ answer \in [Calls -> Answers]
    BY DEF Answers
  <2> QED
    BY <2>1, <2>2, <2>3, <2>4 DEF TypeOK, NoSeq
<1>2. TopInv
  BY TopOfNoRow DEF TopInv
<1>3. CallInv
  BY DEF CallInv
<1>4. TxInv
  BY DEF TxInv
<1>5. SetInv
  BY PartsOfNoRow DEF SetInv, RestingSet, RunningSet
<1>6. SeqNamesOneRow
  BY DEF SeqNamesOneRow, View
<1> QED
  BY <1>1, <1>2, <1>3, <1>4, <1>5, <1>6 DEF IInv

\* What every action may rely on.
LEMMA ViewTops ==
  ASSUME TypeOK, TopInv
  PROVE  /\ View \subseteq Row
         /\ HasTop(View)
         /\ HeadNow \in Nat
         /\ HighSeq(file) \in Nat
         /\ \A r \in file : r.seq <= HighSeq(file)
<1>1. View \subseteq Row
  BY DEF TypeOK, View
<1>2. \A r \in View : r.seq \in Nat
  BY <1>1 DEF Row
<1>3. HasTop(View)
  BY <1>2, TopOfUnion DEF TopInv, View
<1>4. HighSeq(View) \in Nat
  BY <1>2, <1>3, HighSeqIsTop
<1>5. HeadNow \in Nat
  BY <1>4 DEF HeadNow, TypeOK, NoSeq
<1>6. HighSeq(file) \in Nat /\ \A r \in file : r.seq <= HighSeq(file)
  BY <1>2, HighSeqIsTop DEF TopInv, View
<1> QED
  BY <1>1, <1>3, <1>5, <1>6

\* The part of TypeOK about the running call.
CallTypes ==
  /\ call \in Calls \union {NoCall}
  /\ pc \in {"idle", "appending", "sequenced", "checked", "inserted", "setup",
             "body", "committed", "failing"}
  /\ next \in [seq : Nat, target : Nat]
  /\ wrote \in [Calls -> Nat]
  /\ answer \in [Calls -> Answers]

\* The actions' shared endings keep their types.
LEMMA ToldTypes ==
  ASSUME TypeOK, NEW what \in Answers, Told(what), wrote' = wrote
  PROVE  CallTypes'
BY DEF TypeOK, CallTypes, Told, NoRow

\* An exception leaves the types alone.
LEMMA RaiseTypes ==
  ASSUME TypeOK, Raise
  PROVE  CallTypes'
<1>1. CASE unitOpen
  BY <1>1 DEF TypeOK, CallTypes, Raise, NoRow
<1>2. CASE ~unitOpen
  BY <1>2, ToldTypes DEF Raise, Answers
<1> QED
  BY <1>1, <1>2

\* So does the end of a unit.
LEMMA LeaveUnitTypes ==
  ASSUME TypeOK, NEW what \in Answers, LeaveUnit(what)
  PROVE  unitOpen' = FALSE /\ precall' = NoSeq /\ CallTypes'
BY ToldTypes DEF LeaveUnit

\* A failed set gets one of the answers.
LEMMA AbortAnswerType == AbortAnswer \in Answers
BY DEF AbortAnswer, Answers

\* So does a crash, a close or a reopen.
LEMMA FreshHandleTypes ==
  ASSUME TypeOK, FreshHandle
  PROVE  /\ file' \subseteq Row /\ outside' \in 0..MaxOutside
         /\ staged' \subseteq Row /\ tx' = "none" /\ moved' \in BOOLEAN
         /\ head' \in Nat \union {NoSeq} /\ logVersion' \in Nat
         /\ unitOpen' \in BOOLEAN /\ unitCommitted' \in BOOLEAN
         /\ precall' \in Nat \union {NoSeq} /\ poisoned' \in BOOLEAN
         /\ cache'.at \in Int /\ cache'.rows \subseteq Row
         /\ wrote' = wrote
<1>1. cache'.at \in Int /\ cache'.rows \subseteq Row
  BY DEF FreshHandle, NoCache
<1> QED
  BY <1>1 DEF TypeOK, FreshHandle

\* A commit moves typed rows; the file still has a last one.
LEMMA CommitTxTypes ==
  ASSUME TypeOK, TopInv, CommitTx
  PROVE  file' \subseteq Row /\ staged' = {} /\ tx' = "none" /\ TopInv'
BY ViewTops, TopOfNoRow DEF TypeOK, CommitTx, TopInv, View

\* A rollback leaves the file alone.
LEMMA DropTxTypes ==
  ASSUME TypeOK, TopInv, DropTx
  PROVE  file' = file /\ staged' = {} /\ tx' = "none" /\ TopInv'
BY TopOfNoRow DEF DropTx, TopInv


\* The row the running call inserts next.
NewRow == [seq |-> next.seq, by |-> call, part |-> wrote[call] + 1,
           target |-> next.target]

\* The two outcomes of the INSERT.
LEMMA InsertOutcomes ==
  ASSUME IInv, Insert
  PROVE  /\ call \in Calls /\ NewRow \in Row
         /\ \/ Raise /\ staged' = staged /\ head' = head
            \/ /\ ~Clashes
               /\ staged' = staged \union {NewRow}
               /\ wrote' = [wrote EXCEPT ![call] = wrote[call] + 1]
               /\ head' \in Nat \union {NoSeq}
               /\ pc' = IF unitOpen THEN "body" ELSE "inserted"
               /\ next' \in [seq : Nat, target : Nat]
               /\ call' = call /\ answer' = answer
<1>1. call \in Calls
  BY DEF IInv, TypeOK, CallInv, Insert
<1>2. NewRow \in Row
  BY <1>1 DEF IInv, TypeOK, NewRow, Row
<1>3. CASE Clashes
  BY <1>1, <1>2, <1>3 DEF Insert
<1>4. CASE ~Clashes
  BY <1>1, <1>2, <1>4 DEF IInv, TypeOK, Insert, NewRow, NoRow
<1> QED
  BY <1>3, <1>4

\* Every step keeps the types (HeadNow is a number because the rows have a
\* last one).
LEMMA TypeStep ==
  ASSUME IInv, [Next]_vars
  PROVE  TypeOK'
<1> USE DEF connVars, unitVars, viewVars, callVars
<1>1. ASSUME NEW c \in Calls, BeginAppend(c)  PROVE TypeOK'
  BY <1>1 DEF IInv, TypeOK, BeginAppend
<1>2. ASSUME NEW c \in Calls, BeginSet(c)  PROVE TypeOK'
  <2>1. CASE Live
    BY <1>2, <2>1, ViewTops DEF IInv, TypeOK, BeginSet
  <2>2. CASE ~Live
    BY <1>2, <2>2, AbortAnswerType DEF IInv, TypeOK, BeginSet
  <2> QED
    BY <2>1, <2>2
<1>3. CASE BodyAppend
  BY <1>3 DEF IInv, TypeOK, BodyAppend
<1>4. ASSUME NEW t \in {0} \union {r.seq : r \in View},
    Sequence(t)  PROVE TypeOK'
  BY <1>4, ViewTops DEF IInv, TypeOK, Sequence, LockOnRead, Row
<1>5. CASE CheckInsert
  BY <1>5 DEF IInv, TypeOK, CheckInsert
<1>6. CASE RaiseBeforeInsert
  BY <1>6, RaiseTypes DEF IInv, TypeOK, RaiseBeforeInsert, CallTypes
<1>7. CASE Insert
  <2>1. CASE Raise /\ staged' = staged /\ head' = head
    BY <1>7, <2>1, RaiseTypes, InsertOutcomes
    DEF IInv, TypeOK, Insert, CallTypes, unitVars
  <2>2. CASE ~(Raise /\ staged' = staged /\ head' = head)
    <3>1. /\ staged' \subseteq Row /\ wrote' \in [Calls -> Nat]
          /\ head' \in Nat \union {NoSeq} /\ next' \in [seq : Nat,
              target : Nat]
          /\ call' = call /\ answer' = answer
          /\ pc' \in {"body", "inserted"}
      BY <1>7, <2>2, InsertOutcomes DEF IInv, TypeOK
    <3> QED
      BY <1>7, <3>1 DEF IInv, TypeOK, Insert, unitVars
  <2> QED
    BY <2>1, <2>2
<1>8. CASE InsertFails
  BY <1>8, RaiseTypes DEF IInv, TypeOK, InsertFails, CallTypes
<1>9. CASE CommitRow
  BY <1>9, CommitTxTypes, ToldTypes
  DEF IInv, TypeOK, CommitRow, CallTypes, Answers
<1>10. CASE CommitRowFails
  BY <1>10, RaiseTypes, DropTxTypes
  DEF IInv, TypeOK, CommitRowFails, CallTypes
<1>11. CASE UnitBegin
  BY <1>11 DEF IInv, TypeOK, UnitBegin
<1>12. CASE UnitBeginFails
  BY <1>12, AbortAnswerType, LeaveUnitTypes
  DEF IInv, TypeOK, UnitBeginFails, CallTypes
<1>13. CASE BodyRaises
  BY <1>13 DEF IInv, TypeOK, BodyRaises
<1>14. CASE UnitCommit
  BY <1>14, CommitTxTypes DEF IInv, TypeOK, UnitCommit
<1>15. CASE UnitCommitFails
  BY <1>15, DropTxTypes DEF IInv, TypeOK, UnitCommitFails
<1>16. CASE UnitReturn
  BY <1>16, AbortAnswerType, LeaveUnitTypes
  DEF IInv, TypeOK, UnitReturn, CallTypes, Answers
<1>17. CASE UnitRollback
  <2>1. file' = file /\ staged' = {} /\ tx' = "none"
    BY <1>17, DropTxTypes DEF IInv, UnitRollback
  <2>2. unitOpen' = FALSE /\ precall' = NoSeq /\ CallTypes'
    BY <1>17, AbortAnswerType, LeaveUnitTypes DEF IInv, UnitRollback
  <2>3. head' = NoSeq /\ logVersion' = logVersion + 1
    BY <1>17 DEF UnitRollback, ForgetView
  <2>4. /\ file' \subseteq Row /\ staged' \subseteq Row /\ tx' \in {"none"}
        /\ outside' \in 0..MaxOutside /\ moved' \in BOOLEAN
        /\ handle' \in {"open", "closed"}
    BY <1>17, <2>1 DEF IInv, TypeOK, UnitRollback
  <2>5. /\ head' \in Nat \union {NoSeq} /\ logVersion' \in Nat
        /\ precall' \in Nat \union {NoSeq}
    BY <2>2, <2>3 DEF IInv, TypeOK
  <2>6. /\ unitCommitted' \in BOOLEAN /\ poisoned' \in BOOLEAN
        /\ cache'.at \in Int /\ cache'.rows \subseteq Row
    BY <1>17 DEF IInv, TypeOK, UnitRollback
  <2> QED
    BY <2>2, <2>4, <2>5, <2>6 DEF TypeOK, CallTypes
<1>18. CASE UnitPoisons
  <2>1. file' = file /\ staged' = {} /\ tx' = "none"
    BY <1>18, DropTxTypes DEF IInv, UnitPoisons
  <2>2. unitOpen' = FALSE /\ precall' = NoSeq /\ CallTypes'
    BY <1>18, LeaveUnitTypes DEF IInv, UnitPoisons, Answers
  <2>3. /\ file' \subseteq Row /\ staged' \subseteq Row /\ tx' \in {"none"}
        /\ outside' \in 0..MaxOutside /\ moved' \in BOOLEAN
        /\ handle' \in {"open", "closed"}
    BY <1>18, <2>1 DEF IInv, TypeOK, UnitPoisons
  <2>4. /\ head' \in Nat \union {NoSeq} /\ logVersion' \in Nat
        /\ precall' \in Nat \union {NoSeq}
    BY <1>18, <2>2 DEF IInv, TypeOK, UnitPoisons
  <2>5. /\ unitCommitted' \in BOOLEAN /\ poisoned' \in BOOLEAN
        /\ cache'.at \in Int /\ cache'.rows \subseteq Row
    BY <1>18 DEF IInv, TypeOK, UnitPoisons
  <2> QED
    BY <2>2, <2>3, <2>4, <2>5 DEF TypeOK, CallTypes
<1>19. CASE GatedCommit
  BY <1>19, CommitTxTypes, DropTxTypes DEF IInv, TypeOK, GatedCommit
<1>20. CASE GatedRollback
  BY <1>20, DropTxTypes DEF IInv, TypeOK, GatedRollback, ForgetView
<1>21. CASE ReadThroughCache
  BY <1>21, ViewTops DEF IInv, TypeOK, ReadThroughCache, LockOnRead
<1>22. CASE Close
  BY <1>22, FreshHandleTypes DEF IInv, TypeOK, Close
<1>23. CASE Crash
  BY <1>23, FreshHandleTypes, ToldTypes
  DEF IInv, TypeOK, Crash, CallTypes, Answers
<1>24. CASE Open
  BY <1>24, FreshHandleTypes DEF IInv, TypeOK, Open
<1>25. CASE OutsideCommit
  BY <1>25, ViewTops, BufferConstants DEF IInv, TypeOK, OutsideCommit, Row
<1>26. CASE UNCHANGED vars
  BY <1>26 DEF IInv, TypeOK, vars
<1> QED
  BY <1>1, <1>2, <1>3, <1>4, <1>5, <1>6, <1>7, <1>8, <1>9, <1>10, <1>11,
      <1>12, <1>13, <1>14, <1>15, <1>16, <1>17, <1>18, <1>19, <1>20, <1>21,
          <1>22, <1>23, <1>24, <1>25, <1>26 DEF Next


\* Every step leaves the file and the pending rows with a last number.
LEMMA TopStep ==
  ASSUME IInv, [Next]_vars
  PROVE  TopInv'
<1> USE DEF connVars, unitVars, viewVars, callVars
<1>1. ASSUME NEW c \in Calls, BeginAppend(c)  PROVE TopInv'
  BY <1>1 DEF IInv, TopInv, BeginAppend
<1>2. ASSUME NEW c \in Calls, BeginSet(c)  PROVE TopInv'
  BY <1>2 DEF IInv, TopInv, BeginSet
<1>3. CASE BodyAppend
  BY <1>3 DEF IInv, TopInv, BodyAppend
<1>4. ASSUME NEW t \in {0} \union {r.seq : r \in View},
    Sequence(t)  PROVE TopInv'
  BY <1>4 DEF IInv, TopInv, Sequence
<1>5. CASE CheckInsert
  BY <1>5 DEF IInv, TopInv, CheckInsert
<1>6. CASE RaiseBeforeInsert
  BY <1>6 DEF IInv, TopInv, RaiseBeforeInsert
<1>7. CASE Insert
  <2>1. HasTop({NewRow}) /\ \A q \in staged \union {NewRow} : q.seq \in Nat
    BY <1>7, InsertOutcomes, TopOfOneRow DEF IInv, TypeOK, Row
  <2>2. HasTop(staged \union {NewRow})
    BY <2>1, TopOfUnion DEF IInv, TopInv
  <2> QED
    BY <1>7, <2>2, InsertOutcomes DEF IInv, TopInv, Insert
<1>8. CASE InsertFails
  BY <1>8 DEF IInv, TopInv, InsertFails
<1>9. CASE CommitRow
  BY <1>9, CommitTxTypes, DropTxTypes DEF IInv, TopInv, CommitRow
<1>10. CASE CommitRowFails
  BY <1>10, DropTxTypes DEF IInv, TopInv, CommitRowFails
<1>11. CASE UnitBegin
  BY <1>11 DEF IInv, TopInv, UnitBegin
<1>12. CASE UnitBeginFails
  BY <1>12 DEF IInv, TopInv, UnitBeginFails
<1>13. CASE BodyRaises
  BY <1>13 DEF IInv, TopInv, BodyRaises
<1>14. CASE UnitCommit
  BY <1>14, CommitTxTypes, DropTxTypes DEF IInv, TopInv, UnitCommit
<1>15. CASE UnitCommitFails
  BY <1>15, DropTxTypes DEF IInv, TopInv, UnitCommitFails
<1>16. CASE UnitReturn
  BY <1>16 DEF IInv, TopInv, UnitReturn
<1>17. CASE UnitRollback
  BY <1>17, DropTxTypes DEF IInv, TopInv, UnitRollback
<1>18. CASE UnitPoisons
  BY <1>18, DropTxTypes DEF IInv, TopInv, UnitPoisons
<1>19. CASE GatedCommit
  BY <1>19, CommitTxTypes, DropTxTypes DEF IInv, TopInv, GatedCommit
<1>20. CASE GatedRollback
  BY <1>20, DropTxTypes DEF IInv, TopInv, GatedRollback
<1>21. CASE ReadThroughCache
  BY <1>21 DEF IInv, TopInv, ReadThroughCache
<1>22. CASE Close
  BY <1>22, TopOfNoRow DEF IInv, TopInv, Close, FreshHandle
<1>23. CASE Crash
  BY <1>23, TopOfNoRow DEF IInv, TopInv, Crash, FreshHandle
<1>24. CASE Open
  BY <1>24, TopOfNoRow DEF IInv, TopInv, Open, FreshHandle
<1>25. CASE OutsideCommit
  <2> DEFINE r == [seq |-> HighSeq(file) + 1, by |-> Outsider, part |-> 0,
                   target |-> 0]
  <2>1. r.seq \in Nat /\ \A q \in file : q.seq \in Nat
    BY ViewTops DEF IInv, TypeOK, Row
  <2>2. HasTop({r}) /\ \A q \in file \union {r} : q.seq \in Nat
    BY <2>1, TopOfOneRow
  <2>3. HasTop(file \union {r})
    BY <2>2, TopOfUnion DEF IInv, TopInv
  <2> QED
    BY <1>25, <2>3 DEF IInv, TopInv, OutsideCommit
<1>26. CASE UNCHANGED vars
  BY <1>26 DEF IInv, TopInv, vars
<1> QED
  BY <1>1, <1>2, <1>3, <1>4, <1>5, <1>6, <1>7, <1>8, <1>9, <1>10, <1>11,
      <1>12, <1>13, <1>14, <1>15, <1>16, <1>17, <1>18, <1>19, <1>20, <1>21,
          <1>22, <1>23, <1>24, <1>25, <1>26 DEF Next


\* One more place after the first n.
LEMMA OneMore ==
  ASSUME NEW n \in Nat
  PROVE  (1..n) \union {n + 1} = 1..(n + 1)
OBVIOUS

\* A commit moves every call's places to the file.
LEMMA CommitTxParts ==
  ASSUME CommitTx, NEW c
  PROVE  /\ Parts(file', c) = Parts(file, c) \union Parts(staged, c)
         /\ staged' = {} /\ tx' = "none" /\ Parts(staged', c) = {}
BY PartsOfUnion, PartsOfNoRow DEF CommitTx

\* A rollback forgets the pending ones.
LEMMA DropTxParts ==
  ASSUME DropTx, NEW c
  PROVE  /\ file' = file
         /\ staged' = {} /\ tx' = "none" /\ Parts(staged', c) = {}
BY PartsOfNoRow DEF DropTx

\* Every step keeps the account of each set's rows.
LEMMA SetStep ==
  ASSUME IInv, [Next]_vars
  PROVE  SetInv'
<1> USE DEF connVars, unitVars, viewVars, callVars
<1>1. ASSUME NEW c \in Calls, BeginAppend(c)  PROVE SetInv'
  BY <1>1, BufferConstants
  DEF IInv, TypeOK, CallInv, TxInv, SetInv, RestingSet, RunningSet,
      BeginAppend, Idle
<1>2. ASSUME NEW c \in Calls, BeginSet(c)  PROVE SetInv'
  <2>1. CASE Live
    <3>1. /\ c \in Sets /\ call = NoCall /\ answer[c] = "none"
          /\ call' = c /\ pc' = "setup"
          /\ UNCHANGED <<file, staged, answer, wrote>>
      BY <1>2, <2>1 DEF BeginSet, Idle, connVars
    <3>2. c # call
      BY <3>1, BufferConstants
    <3>3. Parts(file, c) = {} /\ Parts(staged, c) = {} /\ wrote[c] = 0
      BY <3>1, <3>2 DEF IInv, SetInv, RestingSet
    <3>4. RunningSet(c)'
      BY <3>1, <3>3 DEF RunningSet
    <3>5. ASSUME NEW d \in Sets, d # c  PROVE RestingSet(d)'
      <4>1. d # call
        BY <3>1, BufferConstants
      <4> QED
        BY <3>1, <4>1 DEF IInv, SetInv, RestingSet
    <3> QED
      BY <3>1, <3>3, <3>4, <3>5 DEF IInv, SetInv
  <2>2. CASE ~Live
    <3>1. c \in Sets /\ c # call /\ answer[c] = "none"
      BY <1>2, BufferConstants DEF BeginSet, Idle
    <3>2. /\ answer' = [answer EXCEPT ![c] = AbortAnswer]
          /\ UNCHANGED <<file, staged, tx, call, pc, wrote, unitCommitted>>
      BY <1>2, <2>2 DEF BeginSet, unitVars, connVars
    <3>3. AbortAnswer \in {"raw", "abort"}
      BY DEF AbortAnswer
    <3>4. Parts(file, c) = {}
      BY <3>1 DEF IInv, SetInv, RestingSet
    <3>5. ASSUME NEW d \in Sets, d # c  PROVE answer'[d] = answer[d]
      BY <3>2, <3>5, BufferConstants DEF IInv, TypeOK
    <3>6. answer'[c] \in {"raw", "abort"}
      BY <3>1, <3>2, <3>3, BufferConstants DEF IInv, TypeOK
    <3> QED
      BY <3>1, <3>2, <3>4, <3>5, <3>6 DEF IInv, SetInv, RestingSet, RunningSet
  <2> QED
    BY <2>1, <2>2
<1>3. CASE BodyAppend
  BY <1>3, BufferConstants
  DEF IInv, TypeOK, CallInv, TxInv, SetInv, RestingSet, RunningSet, BodyAppend
<1>4. ASSUME NEW t \in {0} \union {r.seq : r \in View},
    Sequence(t)  PROVE SetInv'
  BY <1>4, BufferConstants
  DEF IInv, TypeOK, CallInv, TxInv, SetInv, RestingSet, RunningSet, Sequence
<1>5. CASE CheckInsert
  BY <1>5, BufferConstants
  DEF IInv, TypeOK, CallInv, TxInv, SetInv, RestingSet, RunningSet,
      CheckInsert
<1>6. CASE RaiseBeforeInsert
  BY <1>6, BufferConstants
  DEF IInv, TypeOK, CallInv, TxInv, SetInv, RestingSet, RunningSet,
      RaiseBeforeInsert, Raise, Told
<1>7. CASE Insert
  <2>1. CASE Raise /\ staged' = staged /\ head' = head
    BY <1>7, <2>1, BufferConstants
    DEF IInv, TypeOK, CallInv, TxInv, SetInv, RestingSet, RunningSet, Insert,
        Raise, Told, unitVars
  <2>2. CASE ~(Raise /\ staged' = staged /\ head' = head)
    <3>1. \A c \in Sets : Parts(staged', c) =
            Parts(staged, c) \union IF c = call THEN {wrote[c] + 1} ELSE {}
      <4>1. staged' = staged \union {NewRow}
        BY <1>7, <2>2, InsertOutcomes
      <4>2. NewRow.by = call /\ NewRow.part = wrote[call] + 1
        BY DEF NewRow
      <4>3. ASSUME NEW c \in Sets
            PROVE  Parts({NewRow},
                c) = IF c = call THEN {wrote[c] + 1} ELSE {}
        BY <4>2, PartsOfOneRow
      <4> SUFFICES ASSUME NEW c \in Sets
                   PROVE  Parts(staged', c) = Parts(staged, c)
                            \union IF c = call THEN {wrote[c] + 1} ELSE {}
        OBVIOUS
      <4>4. Parts(staged \union {NewRow}, c)
              = Parts(staged, c) \union Parts({NewRow}, c)
        BY PartsOfUnion
      <4> QED
        BY <4>1, <4>3, <4>4
    <3>2. /\ call' = call /\ answer' = answer /\ file' = file
          /\ pc = "checked" /\ call \in Calls
          /\ wrote' = [wrote EXCEPT ![call] = wrote[call] + 1]
          /\ pc' = IF unitOpen THEN "body" ELSE "inserted"
      BY <1>7, <2>2, InsertOutcomes DEF Insert
    <3>3. ASSUME NEW c \in Sets, c # call
          PROVE  RestingSet(c)' /\ wrote'[c] = wrote[c]
      BY <3>1, <3>2, <3>3, BufferConstants
      DEF IInv, TypeOK, SetInv, RestingSet
    <3>4. ASSUME NEW c \in Sets, c = call
          PROVE  RunningSet(c)' /\ Parts(file', c) = {}
      <4>1. pc' = "body" /\ wrote[c] \in Nat /\ wrote'[c] = wrote[c] + 1
        BY <3>2, <3>4, BufferConstants DEF IInv, TypeOK, CallInv
      <4>2. Parts(file, c) = {} /\ Parts(staged, c) = 1..wrote[c]
        BY <3>2, <3>4 DEF IInv, SetInv, RunningSet
      <4>3. Parts(staged', c) = 1..wrote'[c]
        BY <3>1, <3>4, <4>1, <4>2, OneMore
      <4> QED
        BY <3>2, <4>1, <4>2, <4>3 DEF RunningSet
    <3> QED
      BY <3>2, <3>3, <3>4 DEF IInv, SetInv
  <2> QED
    BY <2>1, <2>2
<1>8. CASE InsertFails
  BY <1>8, BufferConstants
  DEF IInv, TypeOK, CallInv, TxInv, SetInv, RestingSet, RunningSet,
      InsertFails, Raise, Told
<1>9. CASE CommitRow
  BY <1>9, BufferConstants, CommitTxParts
  DEF IInv, TypeOK, CallInv, TxInv, SetInv, RestingSet, RunningSet,
      CommitRow, Told
<1>10. CASE CommitRowFails
  BY <1>10, BufferConstants, DropTxParts
  DEF IInv, TypeOK, CallInv, TxInv, SetInv, RestingSet, RunningSet,
      CommitRowFails, Raise, Told
<1>11. CASE UnitBegin
  BY <1>11, BufferConstants
  DEF IInv, TypeOK, CallInv, TxInv, SetInv, RestingSet, RunningSet, UnitBegin
<1>12. CASE UnitBeginFails
  BY <1>12, BufferConstants
  DEF IInv, TypeOK, CallInv, TxInv, SetInv, RestingSet, RunningSet,
      UnitBeginFails, LeaveUnit, AbortAnswer, Told
<1>13. CASE BodyRaises
  BY <1>13, BufferConstants
  DEF IInv, TypeOK, CallInv, TxInv, SetInv, RestingSet, RunningSet, BodyRaises
<1>14. CASE UnitCommit
  BY <1>14, BufferConstants, CommitTxParts
  DEF IInv, TypeOK, CallInv, TxInv, SetInv, RestingSet, RunningSet, UnitCommit
<1>15. CASE UnitCommitFails
  BY <1>15, BufferConstants, DropTxParts
  DEF IInv, TypeOK, CallInv, TxInv, SetInv, RestingSet, RunningSet,
      UnitCommitFails
<1>16. CASE UnitReturn
  <2>1. /\ call \in Sets /\ call' = NoCall /\ unitCommitted
        /\ staged = {} /\ Parts(file, call) = 1..wrote[call]
        /\ UNCHANGED <<file, staged, wrote>>
    BY <1>16 DEF IInv, CallInv, SetInv, RunningSet, UnitReturn, LeaveUnit,
                 Told, connVars
  <2>2. answer' = [answer EXCEPT ![call] = "ok"]
        \/ answer' = [answer EXCEPT ![call] = "raw"]
    BY <1>16, <2>1 DEF UnitReturn, LeaveUnit, Told, AbortAnswer
  <2>3. answer'[call] \in {"ok", "raw"}
    BY <2>1, <2>2, BufferConstants DEF IInv, TypeOK
  <2>4. ASSUME NEW c \in Sets, c # call  PROVE answer'[c] = answer[c]
    BY <2>2, <2>4, BufferConstants DEF IInv, TypeOK
  <2>5. NoCall \notin Sets
    BY BufferConstants
  <2> QED
    BY <2>1, <2>3, <2>4, <2>5, PartsOfNoRow DEF IInv, SetInv, RestingSet
<1>17. CASE UnitRollback
  BY <1>17, BufferConstants, DropTxParts
  DEF IInv, TypeOK, CallInv, TxInv, SetInv, RestingSet, RunningSet,
      UnitRollback, LeaveUnit, AbortAnswer, Told
<1>18. CASE UnitPoisons
  BY <1>18, BufferConstants, DropTxParts
  DEF IInv, TypeOK, CallInv, TxInv, SetInv, RestingSet, RunningSet,
      UnitPoisons, LeaveUnit, Told
<1>19. CASE GatedCommit
  BY <1>19, BufferConstants, CommitTxParts, DropTxParts
  DEF IInv, TypeOK, CallInv, TxInv, SetInv, RestingSet, RunningSet,
      GatedCommit, Borrowed, Idle
<1>20. CASE GatedRollback
  BY <1>20, BufferConstants, DropTxParts
  DEF IInv, TypeOK, CallInv, TxInv, SetInv, RestingSet, RunningSet,
      GatedRollback, Borrowed, Idle
<1>21. CASE ReadThroughCache
  BY <1>21, BufferConstants
  DEF IInv, TypeOK, CallInv, TxInv, SetInv, RestingSet, RunningSet,
      ReadThroughCache, Borrowed, Idle
<1>22. CASE Close
  BY <1>22, BufferConstants, PartsOfNoRow
  DEF IInv, TypeOK, CallInv, TxInv, SetInv, RestingSet, RunningSet, Close,
      FreshHandle, Idle
<1>23. CASE Crash
  BY <1>23, BufferConstants, PartsOfNoRow
  DEF IInv, TypeOK, CallInv, TxInv, SetInv, RestingSet, RunningSet, Crash,
      FreshHandle, Told
<1>24. CASE Open
  BY <1>24, BufferConstants, PartsOfNoRow
  DEF IInv, TypeOK, CallInv, TxInv, SetInv, RestingSet, RunningSet, Open,
      FreshHandle
<1>25. CASE OutsideCommit
  <2>1. \A c \in Sets : Parts(file', c) = Parts(file, c)
    <3> DEFINE r == [seq |-> HighSeq(file) + 1, by |-> Outsider, part |-> 0,
                     target |-> 0]
    <3>1. \A c \in Sets : Parts({r}, c) = {}
      BY PartsOfOneRow, BufferConstants
    <3>2. file' = file \/ file' = file \union {r}
      BY <1>25 DEF OutsideCommit
    <3> HIDE DEF r
    <3> SUFFICES ASSUME NEW c \in Sets
                 PROVE  Parts(file', c) = Parts(file, c)
      OBVIOUS
    <3>3. Parts(file \union {r}, c) = Parts(file, c) \union Parts({r}, c)
      BY PartsOfUnion
    <3> QED
      BY <3>1, <3>2, <3>3
  <2> QED
    BY <1>25, <2>1
    DEF IInv, SetInv, RestingSet, RunningSet, OutsideCommit
<1>26. CASE UNCHANGED vars
  BY <1>26, BufferConstants
  DEF IInv, TypeOK, CallInv, TxInv, SetInv, RestingSet, RunningSet, vars
<1> QED
  BY <1>1, <1>2, <1>3, <1>4, <1>5, <1>6, <1>7, <1>8, <1>9, <1>10, <1>11,
      <1>12, <1>13, <1>14, <1>15, <1>16, <1>17, <1>18, <1>19, <1>20, <1>21,
          <1>22, <1>23, <1>24, <1>25, <1>26 DEF Next


\* Every step keeps the program counter's meaning.
LEMMA CallStep ==
  ASSUME IInv, [Next]_vars
  PROVE  CallInv'
<1> USE BufferConstants DEF IInv, TypeOK, CallInv, Told
<1> USE DEF connVars, unitVars, viewVars, callVars
<1>1. ASSUME NEW c \in Calls, BeginAppend(c)  PROVE CallInv'
  BY <1>1 DEF BeginAppend, Idle
<1>2. ASSUME NEW c \in Calls, BeginSet(c)  PROVE CallInv'
  BY <1>2 DEF BeginSet, AbortAnswer, Idle
<1>3. CASE BodyAppend
  BY <1>3 DEF BodyAppend
<1>4. ASSUME NEW t \in {0} \union {r.seq : r \in View},
    Sequence(t)  PROVE CallInv'
  BY <1>4 DEF Sequence
<1>5. CASE CheckInsert
  BY <1>5 DEF CheckInsert
<1>6. CASE RaiseBeforeInsert
  BY <1>6 DEF RaiseBeforeInsert, Raise, Told
<1>7. CASE Insert
  BY <1>7 DEF Insert, Raise
<1>8. CASE InsertFails
  BY <1>8 DEF InsertFails, Raise, Told
<1>9. CASE CommitRow
  BY <1>9 DEF CommitRow, Told
<1>10. CASE CommitRowFails
  BY <1>10 DEF CommitRowFails, Raise, Told
<1>11. CASE UnitBegin
  BY <1>11 DEF UnitBegin
<1>12. CASE UnitBeginFails
  BY <1>12 DEF UnitBeginFails, LeaveUnit, AbortAnswer, Told
<1>13. CASE BodyRaises
  BY <1>13 DEF BodyRaises
<1>14. CASE UnitCommit
  BY <1>14 DEF UnitCommit
<1>15. CASE UnitCommitFails
  BY <1>15 DEF UnitCommitFails
<1>16. CASE UnitReturn
  BY <1>16 DEF UnitReturn, LeaveUnit, AbortAnswer, Told
<1>17. CASE UnitRollback
  BY <1>17 DEF UnitRollback, LeaveUnit, AbortAnswer, Told
<1>18. CASE UnitPoisons
  BY <1>18 DEF UnitPoisons, LeaveUnit, Told
<1>19. CASE GatedCommit
  BY <1>19 DEF GatedCommit, Borrowed, Idle
<1>20. CASE GatedRollback
  BY <1>20 DEF GatedRollback, Borrowed, Idle
<1>21. CASE ReadThroughCache
  BY <1>21 DEF ReadThroughCache, Borrowed, Idle
<1>22. CASE Close
  BY <1>22 DEF Close, FreshHandle, Idle
<1>23. CASE Crash
  BY <1>23 DEF Crash, FreshHandle, Told
<1>24. CASE Open
  BY <1>24 DEF Open, FreshHandle
<1>25. CASE OutsideCommit
  BY <1>25 DEF OutsideCommit
<1>26. CASE UNCHANGED vars
  BY <1>26 DEF vars
<1> QED
  BY <1>1, <1>2, <1>3, <1>4, <1>5, <1>6, <1>7, <1>8, <1>9, <1>10, <1>11,
      <1>12, <1>13, <1>14, <1>15, <1>16, <1>17, <1>18, <1>19, <1>20, <1>21,
          <1>22, <1>23, <1>24, <1>25, <1>26 DEF Next

\* Every step keeps rows pending only under the transaction's lock.
LEMMA TxStep ==
  ASSUME IInv, [Next]_vars
  PROVE  TxInv'
<1> USE BufferConstants DEF IInv, TypeOK, CallInv, TxInv, Told
<1> USE DEF connVars, unitVars, viewVars, callVars
<1>1. ASSUME NEW c \in Calls, BeginAppend(c)  PROVE TxInv'
  BY <1>1 DEF BeginAppend, Idle
<1>2. ASSUME NEW c \in Calls, BeginSet(c)  PROVE TxInv'
  BY <1>2 DEF BeginSet, AbortAnswer, Idle
<1>3. CASE BodyAppend
  BY <1>3 DEF BodyAppend
<1>4. ASSUME NEW t \in {0} \union {r.seq : r \in View},
    Sequence(t)  PROVE TxInv'
  BY <1>4 DEF Sequence, LockOnRead
<1>5. CASE CheckInsert
  BY <1>5 DEF CheckInsert
<1>6. CASE RaiseBeforeInsert
  BY <1>6 DEF RaiseBeforeInsert, Raise, Told
<1>7. CASE Insert
  BY <1>7 DEF Insert, Raise
<1>8. CASE InsertFails
  BY <1>8 DEF InsertFails, Raise, Told
<1>9. CASE CommitRow
  BY <1>9 DEF CommitRow, Told, CommitTx, DropTx
<1>10. CASE CommitRowFails
  BY <1>10 DEF CommitRowFails, Raise, Told, CommitTx, DropTx
<1>11. CASE UnitBegin
  BY <1>11 DEF UnitBegin
<1>12. CASE UnitBeginFails
  BY <1>12 DEF UnitBeginFails, LeaveUnit, AbortAnswer, Told
<1>13. CASE BodyRaises
  BY <1>13 DEF BodyRaises
<1>14. CASE UnitCommit
  BY <1>14 DEF UnitCommit, CommitTx, DropTx
<1>15. CASE UnitCommitFails
  BY <1>15 DEF UnitCommitFails, CommitTx, DropTx
<1>16. CASE UnitReturn
  BY <1>16 DEF UnitReturn, LeaveUnit, AbortAnswer, Told
<1>17. CASE UnitRollback
  BY <1>17 DEF UnitRollback, LeaveUnit, AbortAnswer, Told, CommitTx, DropTx
<1>18. CASE UnitPoisons
  BY <1>18 DEF UnitPoisons, LeaveUnit, Told, CommitTx, DropTx
<1>19. CASE GatedCommit
  BY <1>19 DEF GatedCommit, Borrowed, Idle, CommitTx, DropTx
<1>20. CASE GatedRollback
  BY <1>20 DEF GatedRollback, Borrowed, Idle, CommitTx, DropTx
<1>21. CASE ReadThroughCache
  BY <1>21 DEF ReadThroughCache, Borrowed, Idle, LockOnRead
<1>22. CASE Close
  BY <1>22 DEF Close, FreshHandle, Idle
<1>23. CASE Crash
  BY <1>23 DEF Crash, FreshHandle, Told
<1>24. CASE Open
  BY <1>24 DEF Open, FreshHandle
<1>25. CASE OutsideCommit
  BY <1>25 DEF OutsideCommit
<1>26. CASE UNCHANGED vars
  BY <1>26 DEF vars
<1> QED
  BY <1>1, <1>2, <1>3, <1>4, <1>5, <1>6, <1>7, <1>8, <1>9, <1>10, <1>11,
      <1>12, <1>13, <1>14, <1>15, <1>16, <1>17, <1>18, <1>19, <1>20, <1>21,
          <1>22, <1>23, <1>24, <1>25, <1>26 DEF Next

\* Every step keeps row numbers unique: an insert by the key, another
\* connection's row because nothing can be pending while it commits.
LEMMA SeqStep ==
  ASSUME IInv, [Next]_vars
  PROVE  SeqNamesOneRow'
<1> USE DEF IInv, SeqNamesOneRow, View
<1> USE DEF connVars, unitVars, viewVars, callVars
<1>1. ASSUME NEW c \in Calls, BeginAppend(c)  PROVE SeqNamesOneRow'
  BY <1>1 DEF BeginAppend
<1>2. ASSUME NEW c \in Calls, BeginSet(c)  PROVE SeqNamesOneRow'
  BY <1>2 DEF BeginSet
<1>3. CASE BodyAppend
  BY <1>3 DEF BodyAppend
<1>4. ASSUME NEW t \in {0} \union {r.seq : r \in View},
    Sequence(t)  PROVE SeqNamesOneRow'
  BY <1>4 DEF Sequence
<1>5. CASE CheckInsert
  BY <1>5 DEF CheckInsert
<1>6. CASE RaiseBeforeInsert
  BY <1>6 DEF RaiseBeforeInsert
<1>7. CASE Insert
  <2>1. CASE staged' = staged
    BY <1>7, <2>1 DEF Insert
  <2>2. CASE staged' # staged
    <3>1. View' = View \union {NewRow}
      BY <1>7, <2>2, InsertOutcomes DEF Insert, View
    <3>2. \A r \in View : r.seq # NewRow.seq
      BY <1>7, <2>2, InsertOutcomes DEF Clashes, NewRow
    <3> QED
      BY <3>1, <3>2
  <2> QED
    BY <2>1, <2>2
<1>8. CASE InsertFails
  BY <1>8 DEF InsertFails
<1>9. CASE CommitRow
  BY <1>9 DEF CommitRow, CommitTx, DropTx
<1>10. CASE CommitRowFails
  BY <1>10 DEF CommitRowFails, CommitTx, DropTx
<1>11. CASE UnitBegin
  BY <1>11 DEF UnitBegin
<1>12. CASE UnitBeginFails
  BY <1>12 DEF UnitBeginFails
<1>13. CASE BodyRaises
  BY <1>13 DEF BodyRaises
<1>14. CASE UnitCommit
  BY <1>14 DEF UnitCommit, CommitTx, DropTx
<1>15. CASE UnitCommitFails
  BY <1>15 DEF UnitCommitFails, CommitTx, DropTx
<1>16. CASE UnitReturn
  BY <1>16 DEF UnitReturn
<1>17. CASE UnitRollback
  BY <1>17 DEF UnitRollback, CommitTx, DropTx
<1>18. CASE UnitPoisons
  BY <1>18 DEF UnitPoisons, CommitTx, DropTx
<1>19. CASE GatedCommit
  BY <1>19 DEF GatedCommit, CommitTx, DropTx
<1>20. CASE GatedRollback
  BY <1>20 DEF GatedRollback, CommitTx, DropTx
<1>21. CASE ReadThroughCache
  BY <1>21 DEF ReadThroughCache
<1>22. CASE Close
  BY <1>22 DEF Close, FreshHandle
<1>23. CASE Crash
  BY <1>23 DEF Crash, FreshHandle
<1>24. CASE Open
  BY <1>24 DEF Open, FreshHandle
<1>25. CASE OutsideCommit
  <2>1. CASE file' = file
    BY <1>25, <2>1 DEF OutsideCommit
  <2>2. CASE file' # file
    <3> DEFINE r == [seq |-> HighSeq(file) + 1, by |-> Outsider, part |-> 0,
                     target |-> 0]
    <3>1. staged = {} /\ staged' = {} /\ file' = file \union {r}
      BY <1>25, <2>2 DEF OutsideCommit, TxInv
    <3>2. \A q \in file : q.seq # r.seq
      <4>1. \A q \in file : q.seq \in Nat /\ q.seq <= HighSeq(file)
        BY ViewTops DEF TypeOK, Row
      <4> QED
        BY <4>1, ViewTops
    <3> QED
      BY <3>1, <3>2
  <2> QED
    BY <2>1, <2>2
<1>26. CASE UNCHANGED vars
  BY <1>26 DEF vars
<1> QED
  BY <1>1, <1>2, <1>3, <1>4, <1>5, <1>6, <1>7, <1>8, <1>9, <1>10, <1>11,
      <1>12, <1>13, <1>14, <1>15, <1>16, <1>17, <1>18, <1>19, <1>20, <1>21,
          <1>22, <1>23, <1>24, <1>25, <1>26 DEF Next

\* The invariant is inductive.
LEMMA IInvStep == ASSUME IInv, [Next]_vars PROVE IInv'
BY TypeStep, TopStep, CallStep, TxStep, SetStep, SeqStep DEF IInv

\* So it holds in every reachable state.
LEMMA Inductive == Spec => []IInv
BY InitIInv, IInvStep, PTL DEF Spec

-----------------------------------------------------------------------------
(* The theorems.                                                           *)

\* The buffer's state keeps its types: in particular a row number is always a
\* natural number, through every forget and re-read of the head.
THEOREM TypeCorrect == Spec => []TypeOK
BY Inductive, PTL DEF IInv

\* A set is in the file whole or not at all, whatever fails, whoever commits
\* (atomic_unit, _run_phase, the gated facade).
THEOREM SetsAreWhole == Spec => []AllOrNone
<1>1. IInv => AllOrNone
  BY PartsAndRows DEF IInv, SetInv, AllOrNone, WholeIn, Parts, RowsOf
<1> QED
  BY <1>1, Inductive, PTL

\* What a set was told stays true: "ok" is durable and whole, AtomicAbort
\* left no row behind (_run_atomic).
THEOREM AnswersStayTrue == Spec => []AnswersAreTrue
<1>1. IInv => AnswersAreTrue
  <2> SUFFICES ASSUME IInv, NEW c \in Sets
               PROVE  /\ answer[c] = "ok" => WholeIn(file, c)
                      /\ answer[c] = "abort" => RowsOf(View, c) = {}
    BY DEF AnswersAreTrue
  <2>1. answer[c] # "none" => c # call
    BY BufferConstants DEF IInv, CallInv
  <2>2. answer[c] = "ok" => WholeIn(file, c)
    BY <2>1 DEF IInv, SetInv, RestingSet, WholeIn, Parts, RowsOf
  <2>3. answer[c] = "abort" => Parts(file, c) = {} /\ Parts(staged, c) = {}
    BY <2>1 DEF IInv, SetInv, RestingSet
  <2>4. Parts(View, c) = Parts(file, c) \union Parts(staged, c)
    BY PartsOfUnion DEF View
  <2> QED
    BY <2>2, <2>3, <2>4, PartsAndRows
<1> QED
  BY <1>1, Inductive, PTL

\* A row number names one row among everything a read can see, whatever was
\* rolled back and whatever another connection appended in the window between
\* reading the head and inserting (append, _insert, the primary key).
THEOREM OneRowPerSeq == Spec => []SeqNamesOneRow
BY Inductive, PTL DEF IInv

\* A handle another connection has overtaken adds no row to the file again
\* (_live_conn before every statement, the COMMIT included).
THEOREM OvertakenIsSilent == Spec => OvertakenHandleIsSilent
<1>1. ASSUME [Next]_vars, moved, moved'
      PROVE  \A r \in file' \ file : r.by = Outsider
  <2>1. ASSUME NEW c \in Calls,
      BeginAppend(c)  PROVE \A r \in file' \ file : r.by = Outsider
    BY <1>1, <2>1 DEF BeginAppend
  <2>2. ASSUME NEW c \in Calls,
      BeginSet(c)  PROVE \A r \in file' \ file : r.by = Outsider
    BY <1>1, <2>2 DEF BeginSet
  <2>3. CASE BodyAppend
    BY <1>1, <2>3 DEF BodyAppend
  <2>4. ASSUME NEW t \in {0} \union {r.seq : r \in View},
      Sequence(t)  PROVE \A r \in file' \ file : r.by = Outsider
    BY <1>1, <2>4 DEF Sequence
  <2>5. CASE CheckInsert
    BY <1>1, <2>5 DEF CheckInsert
  <2>6. CASE RaiseBeforeInsert
    BY <1>1, <2>6 DEF RaiseBeforeInsert
  <2>7. CASE Insert
    BY <1>1, <2>7 DEF Insert
  <2>8. CASE InsertFails
    BY <1>1, <2>8 DEF InsertFails
  <2>9. CASE CommitRow
    BY <1>1, <2>9 DEF CommitRow, Live, DropTx
  <2>10. CASE CommitRowFails
    BY <1>1, <2>10 DEF CommitRowFails, DropTx
  <2>11. CASE UnitBegin
    BY <1>1, <2>11 DEF UnitBegin
  <2>12. CASE UnitBeginFails
    BY <1>1, <2>12 DEF UnitBeginFails
  <2>13. CASE BodyRaises
    BY <1>1, <2>13 DEF BodyRaises
  <2>14. CASE UnitCommit
    BY <1>1, <2>14 DEF UnitCommit, Live, DropTx
  <2>15. CASE UnitCommitFails
    BY <1>1, <2>15 DEF UnitCommitFails, DropTx
  <2>16. CASE UnitReturn
    BY <1>1, <2>16 DEF UnitReturn
  <2>17. CASE UnitRollback
    BY <1>1, <2>17 DEF UnitRollback, DropTx
  <2>18. CASE UnitPoisons
    BY <1>1, <2>18 DEF UnitPoisons, DropTx
  <2>19. CASE GatedCommit
    BY <1>1, <2>19 DEF GatedCommit, Live, DropTx
  <2>20. CASE GatedRollback
    BY <1>1, <2>20 DEF GatedRollback, DropTx
  <2>21. CASE ReadThroughCache
    BY <1>1, <2>21 DEF ReadThroughCache
  <2>22. CASE Close
    BY <1>1, <2>22 DEF Close, FreshHandle
  <2>23. CASE Crash
    BY <1>1, <2>23 DEF Crash, FreshHandle
  <2>24. CASE Open
    BY <1>1, <2>24 DEF Open, FreshHandle
  <2>25. CASE OutsideCommit
    BY <1>1, <2>25 DEF OutsideCommit
  <2>26. CASE UNCHANGED vars
    BY <2>26 DEF vars
  <2> QED
    BY <1>1, <2>1, <2>2, <2>3, <2>4, <2>5, <2>6, <2>7, <2>8, <2>9, <2>10,
        <2>11, <2>12, <2>13, <2>14, <2>15, <2>16, <2>17, <2>18, <2>19, <2>20,
            <2>21, <2>22, <2>23, <2>24, <2>25, <2>26 DEF Next
<1> QED
  BY <1>1, PTL DEF Spec, OvertakenHandleIsSilent

-----------------------------------------------------------------------------
(* PatternBuffer implements WorldLog, for every set of calls, every bound  *)
(* and every choice of failures.                                           *)
(*                                                                         *)
(* On top of IInv the refinement needs to know where rows stand: the rows  *)
(* pending are numbered above the rows committed (OrderInv), because the   *)
(* tracked head bounds what this handle can see for as long as nobody      *)
(* overtakes it (HeadInv), and because whoever overtakes it takes the very *)
(* number it is about to insert.  And whose rows are pending: inside a     *)
(* unit, the running set's and nobody else's (OwnInv), so that a COMMIT    *)
(* of a unit is one step of one set.                                       *)

\* A row number chosen and not yet inserted is above what is pending, and above what
\* is committed unless another connection has just taken it.
OrderInv ==
  /\ \A r \in staged, q \in file : q.seq < r.seq
  /\ pc \in {"sequenced", "checked"} =>
       /\ next.seq > 0 /\ \A r \in staged : r.seq < next.seq
       /\ (\A q \in file : q.seq < next.seq) \/ (\E q \in file : q.seq = next.seq)

HeadInv ==
  /\ ~moved /\ head # NoSeq => \A r \in View : r.seq <= head
  /\ handle = "closed" => head = NoSeq

\* A plain append that has not been told anything yet.
PlainWaits(c) == Parts(file, c) = {} /\ Parts(staged, c) = {} /\ wrote[c] = 0

OwnInv ==
  /\ unitOpen /\ pc \in {"body", "appending", "sequenced", "checked"} =>
       \A r \in staged : r.by = call
  /\ \A c \in Calls \ Sets :
       /\ c # call /\ answer[c] = "none" => PlainWaits(c)
       /\ c = call => ~unitOpen
       /\ c = call /\ pc \in {"appending", "sequenced", "checked"} => PlainWaits(c)
       /\ c = call /\ pc = "inserted" =>
            Parts(file, c) = {} /\ Parts(staged, c) = {1} /\ wrote[c] = 1

JInv == IInv /\ OrderInv /\ HeadInv /\ OwnInv

-----------------------------------------------------------------------------
(* What steps do to the log.                                               *)

Keeps == file' = file /\ staged' = staged
Lands == file' = file \union staged /\ staged' = {}
Drops == file' = file /\ staged' = {}

\* What a step that inserts nothing makes of the head.
HeadMoves ==
  \/ head' = NoSeq
  \/ head' = head /\ moved' = moved /\ handle' = handle
  \/ head' = HeadNow /\ moved' = moved /\ handle' = handle /\ Keeps /\ Live
     /\ handle = "open"

\* A step is one of the three on the way of an append, another process's
\* commit, or one that keeps, lands or drops what is staged.
LEMMA Kinds ==
  ASSUME IInv, Next
  PROVE  \/ \E t \in {0} \union {r.seq : r \in View} : Sequence(t)
         \/ CheckInsert \/ Insert \/ OutsideCommit
         \/ /\ Keeps \/ Lands \/ Drops
            /\ pc' \notin {"sequenced", "checked"}
            /\ HeadMoves
<1> DEFINE Kind == /\ Keeps \/ Lands \/ Drops
                   /\ pc' \notin {"sequenced", "checked"}
                   /\ HeadMoves
<1> USE DEF Keeps, Lands, Drops, HeadMoves, CommitTx, DropTx, Told
<1> USE DEF connVars, unitVars, viewVars, callVars
<1>1. ASSUME NEW c \in Calls, BeginAppend(c) \/ BeginSet(c) PROVE Kind
  BY <1>1 DEF BeginAppend, BeginSet, Idle, IInv, CallInv
<1>2. CASE BodyAppend \/ RaiseBeforeInsert \/ InsertFails
  BY <1>2 DEF BodyAppend, RaiseBeforeInsert, InsertFails, Raise
<1>3. CASE CommitRow \/ CommitRowFails
  BY <1>3 DEF CommitRow, CommitRowFails, Raise
<1>4. CASE UnitBegin \/ UnitBeginFails \/ BodyRaises
  BY <1>4 DEF UnitBegin, UnitBeginFails, BodyRaises, LeaveUnit
<1>5. CASE UnitCommit \/ UnitCommitFails \/ UnitReturn
  BY <1>5 DEF UnitCommit, UnitCommitFails, UnitReturn, LeaveUnit
<1>6. CASE UnitRollback \/ UnitPoisons
  BY <1>6 DEF UnitRollback, UnitPoisons, LeaveUnit, ForgetView
<1>7. CASE GatedCommit \/ GatedRollback \/ ReadThroughCache
  BY <1>7 DEF GatedCommit, GatedRollback, ReadThroughCache, Borrowed, Idle, ForgetView,
     IInv, CallInv
<1>8. CASE Close \/ Crash \/ Open
  BY <1>8 DEF Close, Crash, Open, FreshHandle, Idle, IInv, CallInv
<1> QED
  BY <1>1, <1>2, <1>3, <1>4, <1>5, <1>6, <1>7, <1>8 DEF Next

\* The row number a fresh head gives is above everything a read sees.
LEMMA HeadIsTop ==
  ASSUME IInv, HeadInv, Live
  PROVE  HeadNow \in Nat /\ \A r \in View : r.seq \in Nat /\ r.seq <= HeadNow
<1>1. View \subseteq Row /\ HasTop(View) /\ HeadNow \in Nat
  BY ViewTops DEF IInv
<1>2. \A r \in View : r.seq \in Nat
  BY <1>1 DEF Row
<1>3. \A r \in View : r.seq <= HighSeq(View)
  BY <1>1, <1>2, HighSeqIsTop
<1> QED
  BY <1>1, <1>2, <1>3 DEF HeadInv, HeadNow, Live

-----------------------------------------------------------------------------
(* JInv is inductive.                                                      *)

\* Rows are numbered above what was committed before their append began.
LEMMA OrderStep == ASSUME IInv, OrderInv, HeadInv, [Next]_vars PROVE OrderInv'
<1>0. \A r \in View : r.seq \in Nat
  BY ViewTops DEF IInv, Row
<1>1. ASSUME NEW t \in {0} \union {r.seq : r \in View}, Sequence(t) PROVE OrderInv'
  <2>1. next'.seq = HeadNow + 1 /\ Live /\ UNCHANGED <<file, staged>>
    BY <1>1 DEF Sequence
  <2> QED
    BY <2>1, HeadIsTop DEF OrderInv, View
<1>2. CASE CheckInsert
  BY <1>2 DEF OrderInv, CheckInsert, connVars, callVars
<1>3. CASE Insert
  <2>1. CASE staged' = staged
    <3>1. pc' \notin {"sequenced", "checked"} /\ file' = file
      BY <1>3 DEF Insert, Raise, Told
    <3> QED
      BY <2>1, <3>1 DEF OrderInv
  <2>2. CASE staged' # staged
    <3>1. /\ ~Clashes /\ staged' = staged \union {NewRow} /\ file' = file
          /\ pc' \notin {"sequenced", "checked"}
      BY <1>3, <2>2, InsertOutcomes DEF Insert
    <3>2. NewRow.seq = next.seq /\ \A q \in file : q.seq < next.seq
      BY <1>3, <3>1 DEF OrderInv, Insert, Clashes, View, NewRow
    <3> QED
      BY <3>1, <3>2 DEF OrderInv
  <2> QED
    BY <2>1, <2>2
<1>4. CASE OutsideCommit
  <2>0. UNCHANGED <<staged, pc, next>>
    BY <1>4 DEF OutsideCommit, callVars
  <2>1. CASE file' = file
    BY <2>0, <2>1 DEF OrderInv
  <2>2. CASE file' # file
    <3> DEFINE r == [seq |-> HighSeq(file) + 1, by |-> Outsider, part |-> 0,
                     target |-> 0]
    <3>1. staged = {} /\ file' = file \union {r}
      BY <1>4, <2>2 DEF OutsideCommit, IInv, TxInv
    <3>2. HighSeq(file) \in Nat /\ \A q \in file : q.seq \in Nat /\ q.seq <= HighSeq(file)
      BY <1>0, ViewTops DEF IInv, View
    <3>3. next.seq \in Nat
      BY DEF IInv, TypeOK
    <3>4. ASSUME pc \in {"sequenced", "checked"}
          PROVE  (\A q \in file' : q.seq < next.seq) \/ (\E q \in file' : q.seq = next.seq)
      <4>1. CASE \E q \in file : q.seq = next.seq
        BY <3>1, <4>1
      <4>2. CASE \A q \in file : q.seq < next.seq
        <5>1. HighSeq(file) \in {0} \union {q.seq : q \in file}
          BY DEF HighSeq, IInv, TopInv, HasTop
        <5>2. HighSeq(file) < next.seq
          BY <3>4, <4>2, <5>1 DEF OrderInv
        <5>3. \A q \in file' : q.seq < next.seq \/ q.seq = next.seq
          BY <3>1, <3>2, <3>3, <4>2, <5>2
        <5>4. CASE r.seq = next.seq
          BY <3>1, <5>4
        <5>5. CASE r.seq < next.seq
          BY <3>1, <4>2, <5>5
        <5> QED
          BY <3>1, <5>3, <5>4, <5>5
      <4> QED
        BY <3>4, <4>1, <4>2 DEF OrderInv
    <3> QED
      BY <2>0, <3>1, <3>4 DEF OrderInv
  <2> QED
    BY <2>1, <2>2
<1>5. CASE (Keeps \/ Lands \/ Drops) /\ pc' \notin {"sequenced", "checked"}
  BY <1>5 DEF OrderInv, Keeps, Lands, Drops
<1>6. CASE UNCHANGED vars
  BY <1>6 DEF OrderInv, vars, connVars, callVars
<1> QED
  BY <1>1, <1>2, <1>3, <1>4, <1>5, <1>6, Kinds

\* The tracked head bounds the rows this handle sees, until it is overtaken.
LEMMA HeadStepInv == ASSUME IInv, OrderInv, HeadInv, [Next]_vars PROVE HeadInv'
<1>0. \A r \in View : r.seq \in Nat
  BY ViewTops DEF IInv, Row
<1>1. ASSUME NEW t \in {0} \union {r.seq : r \in View}, Sequence(t) PROVE HeadInv'
  <2>1. /\ head' = HeadNow /\ Live /\ UNCHANGED <<file, staged, moved, handle>>
        /\ handle = "open"
    BY <1>1 DEF Sequence, IInv, CallInv, TypeOK
  <2> QED
    BY <2>1, HeadIsTop DEF HeadInv, View
<1>2. CASE CheckInsert
  BY <1>2 DEF HeadInv, View, CheckInsert, connVars, viewVars
<1>3. CASE Insert
  <2>0. UNCHANGED <<moved, handle, file>> /\ handle = "open"
    BY <1>3 DEF Insert, IInv, CallInv, TypeOK
  <2>1. CASE staged' = staged /\ head' = head
    BY <2>0, <2>1 DEF HeadInv, View
  <2>2. CASE ~(staged' = staged /\ head' = head)
    <3>1. /\ View' = View \union {NewRow} /\ NewRow.seq = next.seq /\ next.seq \in Nat
          /\ head' = IF head # NoSeq /\ next.seq > head THEN next.seq ELSE head
          /\ head \in Nat \union {NoSeq}
      BY <1>3, <2>0, <2>2, InsertOutcomes DEF Insert, View, NewRow, IInv, TypeOK
    <3> QED
      BY <1>0, <2>0, <3>1 DEF HeadInv, NoSeq
  <2> QED
    BY <2>1, <2>2
<1>4. CASE OutsideCommit
  BY <1>4 DEF HeadInv, OutsideCommit, viewVars, IInv, TypeOK
<1>5. CASE (Keeps \/ Lands \/ Drops) /\ HeadMoves
  <2>1. CASE head' = NoSeq
    BY <2>1 DEF HeadInv
  <2>2. CASE head' = head /\ moved' = moved /\ handle' = handle
    BY <1>5, <2>2 DEF HeadInv, View, Keeps, Lands, Drops
  <2>3. CASE head' = HeadNow /\ moved' = moved /\ handle' = handle /\ Keeps /\ Live
             /\ handle = "open"
    BY <2>3, HeadIsTop DEF HeadInv, View, Keeps
  <2> QED
    BY <1>5, <2>1, <2>2, <2>3 DEF HeadMoves
<1>6. CASE UNCHANGED vars
  BY <1>6 DEF HeadInv, View, vars, connVars, viewVars
<1> QED
  BY <1>1, <1>2, <1>3, <1>4, <1>5, <1>6, Kinds

\* Whose rows are pending, and which plain appends have none.
LEMMA OwnStep == ASSUME IInv, OwnInv, [Next]_vars PROVE OwnInv'
<1> USE BufferConstants DEF IInv, TypeOK, CallInv, OwnInv, PlainWaits
<1> USE DEF connVars, unitVars, viewVars, callVars
<1>1. ASSUME NEW c \in Calls, BeginAppend(c) PROVE OwnInv'
  BY <1>1 DEF BeginAppend, Idle
<1>2. ASSUME NEW c \in Calls, BeginSet(c) PROVE OwnInv'
  BY <1>2 DEF BeginSet, Idle
<1>3. CASE BodyAppend
  BY <1>3 DEF BodyAppend
<1>4. ASSUME NEW t \in {0} \union {r.seq : r \in View}, Sequence(t) PROVE OwnInv'
  BY <1>4 DEF Sequence
<1>5. CASE CheckInsert
  BY <1>5 DEF CheckInsert
<1>6. CASE RaiseBeforeInsert
  BY <1>6 DEF RaiseBeforeInsert, Raise, Told
<1>7. CASE Insert
  <2>1. CASE Raise /\ staged' = staged /\ head' = head
    BY <1>7, <2>1 DEF Insert, Raise, Told
  <2>2. CASE ~(Raise /\ staged' = staged /\ head' = head)
    <3>1. /\ call \in Calls /\ call' = call /\ answer' = answer /\ file' = file
          /\ pc = "checked" /\ unitOpen' = unitOpen
          /\ staged' = staged \union {NewRow} /\ NewRow.by = call
          /\ NewRow.part = wrote[call] + 1
          /\ wrote' = [wrote EXCEPT ![call] = wrote[call] + 1]
          /\ pc' = IF unitOpen THEN "body" ELSE "inserted"
      BY <1>7, <2>2, InsertOutcomes DEF Insert, NewRow
    <3>2. unitOpen' => \A r \in staged' : r.by = call'
      BY <3>1
    <3>3. ASSUME NEW c \in Calls
          PROVE  Parts(staged', c) =
                   Parts(staged, c) \union IF c = call THEN {wrote[c] + 1} ELSE {}
      <4>1. Parts({NewRow}, c) = IF c = call THEN {wrote[c] + 1} ELSE {}
        BY <3>1, PartsOfOneRow
      <4>2. Parts(staged \union {NewRow}, c) = Parts(staged, c) \union Parts({NewRow}, c)
        BY PartsOfUnion
      <4> QED
        BY <3>1, <4>1, <4>2
    <3>4. ASSUME NEW c \in Calls \ Sets, c # call', answer'[c] = "none" PROVE PlainWaits(c)'
      BY <3>1, <3>3, <3>4
    <3>5. ASSUME NEW c \in Calls \ Sets, c = call'
          PROVE  /\ ~unitOpen' /\ pc' = "inserted"
                 /\ Parts(file', c) = {} /\ Parts(staged', c) = {1} /\ wrote'[c] = 1
      <4>1. ~unitOpen /\ PlainWaits(c)
        BY <3>1, <3>5
      <4>2. Parts(staged', c) = {wrote[c] + 1}
        BY <3>1, <3>3, <3>5, <4>1
      <4>3. wrote[c] + 1 = 1 /\ wrote'[c] = wrote[c] + 1
        BY <3>1, <3>5, <4>1
      <4> QED
        BY <3>1, <3>5, <4>1, <4>2, <4>3
    <3> QED
      BY <3>2, <3>4, <3>5
  <2> QED
    BY <2>1, <2>2
<1>8. CASE InsertFails
  BY <1>8 DEF InsertFails, Raise, Told
<1>9. CASE CommitRow
  BY <1>9, CommitTxParts DEF CommitRow, Told
<1>10. CASE CommitRowFails
  BY <1>10, DropTxParts DEF CommitRowFails, Raise, Told
<1>11. CASE UnitBegin
  BY <1>11 DEF UnitBegin, TxInv
<1>12. CASE UnitBeginFails
  BY <1>12 DEF UnitBeginFails, LeaveUnit, AbortAnswer, Told
<1>13. CASE BodyRaises
  BY <1>13 DEF BodyRaises
<1>14. CASE UnitCommit
  BY <1>14, CommitTxParts DEF UnitCommit
<1>15. CASE UnitCommitFails
  BY <1>15, DropTxParts DEF UnitCommitFails
<1>16. CASE UnitReturn
  BY <1>16 DEF UnitReturn, LeaveUnit, AbortAnswer, Told
<1>17. CASE UnitRollback
  BY <1>17, DropTxParts DEF UnitRollback, LeaveUnit, AbortAnswer, Told
<1>18. CASE UnitPoisons
  BY <1>18, DropTxParts DEF UnitPoisons, LeaveUnit, Told
<1>19. CASE GatedCommit
  BY <1>19, CommitTxParts, DropTxParts DEF GatedCommit, Borrowed, Idle
<1>20. CASE GatedRollback
  BY <1>20, DropTxParts DEF GatedRollback, Borrowed, Idle
<1>21. CASE ReadThroughCache
  BY <1>21 DEF ReadThroughCache, Borrowed, Idle
<1>22. CASE Close
  BY <1>22, PartsOfNoRow DEF Close, FreshHandle, Idle
<1>23. CASE Crash
  BY <1>23, PartsOfNoRow DEF Crash, FreshHandle, Told
<1>24. CASE Open
  BY <1>24, PartsOfNoRow DEF Open, FreshHandle
<1>25. CASE OutsideCommit
  <2>1. ASSUME NEW c \in Calls PROVE Parts(file', c) = Parts(file, c)
    <3> DEFINE r == [seq |-> HighSeq(file) + 1, by |-> Outsider, part |-> 0,
                     target |-> 0]
    <3>1. Parts({r}, c) = {}
      BY PartsOfOneRow
    <3>2. file' = file \/ file' = file \union {r}
      BY <1>25 DEF OutsideCommit
    <3> HIDE DEF r
    <3>3. Parts(file \union {r}, c) = Parts(file, c) \union Parts({r}, c)
      BY PartsOfUnion
    <3> QED
      BY <3>1, <3>2, <3>3
  <2> QED
    BY <1>25, <2>1 DEF OutsideCommit
<1>26. CASE UNCHANGED vars
  BY <1>26 DEF vars
<1> QED
  BY <1>1, <1>2, <1>3, <1>4, <1>5, <1>6, <1>7, <1>8, <1>9, <1>10, <1>11, <1>12, <1>13, <1>14,
     <1>15, <1>16, <1>17, <1>18, <1>19, <1>20, <1>21, <1>22, <1>23, <1>24, <1>25, <1>26 DEF Next

\* Nothing is appended or staged at first.
LEMMA InitJInv == Init => JInv
<1> SUFFICES ASSUME Init PROVE JInv
  OBVIOUS
<1>1. OrderInv /\ HeadInv
  BY DEF Init, OrderInv, HeadInv
<1>2. OwnInv
  BY PartsOfNoRow, BufferConstants DEF Init, OwnInv, PlainWaits
<1> QED
  BY <1>1, <1>2, InitIInv DEF JInv

\* The parts are inductive together.
LEMMA JInvStep == ASSUME JInv, [Next]_vars PROVE JInv'
BY IInvStep, OrderStep, HeadStepInv, OwnStep DEF JInv

-----------------------------------------------------------------------------
(* Every step of the buffer is a step of the log, or a stutter.            *)

\* Steps that leave the file alone, and answer a call.
LEMMA AnswerStep ==
  ASSUME JInv, NEW c \in Calls, NEW told \in {"ok", "abort", "raised", "raw", "lost"},
         UNCHANGED <<file, wrote>>, answer[c] = "none",
         answer' = [answer EXCEPT ![c] = told],
         c \in Sets /\ told = "ok" => Parts(file, c) = 1..wrote[c],
         c \in Sets /\ told = "abort" => Parts(file, c) = {}
  PROVE  Log!Next
<1>1. Log!Answer(c, told)
  BY DEF Log!Answer, Log!WholeIn, Log!RowsOf, Parts
<1>2. Log!Above(file' \ file) /\ file \subseteq file'
  BY DEF Log!Above
<1> QED
  BY <1>1, <1>2 DEF Log!Next

\* The rows a COMMIT adds are the pending ones, and they come last.
LEMMA CommitAddsPending ==
  ASSUME JInv, file' = file \union staged
  PROVE  file' \ file = staged /\ Log!Above(file' \ file) /\ file \subseteq file'
<1>1. \A r \in staged, q \in file : r.seq > q.seq /\ q.seq \in Nat /\ r.seq \in Nat
  BY DEF JInv, IInv, TypeOK, OrderInv, Row
<1>2. staged \intersect file = {}
  BY <1>1
<1>3. file' \ file = staged
  BY <1>2
<1> QED
  BY <1>1, <1>3 DEF Log!Above

\* A step that only raises tells at most one call so.
LEMMA RaiseStep ==
  ASSUME JInv, Raise, UNCHANGED file, call \in Calls
  PROVE  Log!Next \/ UNCHANGED Log!logVars
<1>1. CASE unitOpen
  BY <1>1 DEF Raise, Log!logVars
<1>2. CASE ~unitOpen
  <2>1. answer' = [answer EXCEPT ![call] = "raised"] /\ UNCHANGED wrote
    BY <1>2 DEF Raise, Told
  <2>2. answer[call] = "none"
    BY BufferConstants DEF JInv, IInv, CallInv
  <2> QED
    BY <2>1, <2>2, AnswerStep
<1> QED
  BY <1>1, <1>2

\* A step of the buffer appends a whole call to the log, answers, or stutters.
LEMMA LogStep == ASSUME JInv, [Next]_vars PROVE Log!Next \/ UNCHANGED Log!logVars
<1> USE DEF connVars, unitVars, viewVars, callVars
<1>0. call # NoCall => call \in Calls /\ answer[call] = "none"
  BY DEF JInv, IInv, CallInv, TypeOK
<1>00. pc # "idle" => call \in Calls /\ answer[call] = "none"
  BY <1>0 DEF JInv, IInv, CallInv
<1>1. CASE UNCHANGED <<file, wrote, answer>>
  BY <1>1 DEF Log!logVars
<1>2. ASSUME NEW c \in Calls, BeginSet(c), ~Live PROVE Log!Next
  <2>1. /\ c \in Sets /\ answer[c] = "none" /\ c # call /\ UNCHANGED <<file, wrote>>
        /\ answer' = [answer EXCEPT ![c] = AbortAnswer]
    BY <1>2, BufferConstants DEF BeginSet, Idle
  <2>2. Parts(file, c) = {} /\ AbortAnswer \in {"raw", "abort"}
    BY <2>1 DEF JInv, IInv, SetInv, RestingSet, AbortAnswer
  <2> QED
    BY <2>1, <2>2, AnswerStep
<1>3. CASE RaiseBeforeInsert \/ InsertFails \/ CommitRowFails
  BY <1>00, <1>3, RaiseStep DEF RaiseBeforeInsert, InsertFails, CommitRowFails, DropTx
<1>4. CASE Insert
  <2>1. CASE Clashes
    BY <1>00, <1>4, <2>1, RaiseStep DEF Insert
  <2>2. CASE ~Clashes
    <3>1. /\ wrote' = [wrote EXCEPT ![call] = @ + 1] /\ UNCHANGED <<file, answer>>
          /\ pc = "checked" /\ call \in Calls /\ answer[call] = "none"
      BY <1>00, <1>4, <2>2 DEF Insert
    <3>2. Parts(file, call) = {}
      BY <3>1, BufferConstants DEF JInv, IInv, SetInv, RunningSet, OwnInv, PlainWaits
    <3>3. Log!Write(call)
      BY <3>1, <3>2 DEF Log!Write, Log!RowsOf, Parts
    <3> QED
      BY <3>1, <3>3 DEF Log!Next, Log!Above
  <2> QED
    BY <2>1, <2>2
<1>5. CASE CommitRow
  <2>1. /\ file' = file \union staged /\ UNCHANGED wrote /\ call \in Calls
        /\ answer' = [answer EXCEPT ![call] = "ok"] /\ answer[call] = "none"
        /\ pc = "inserted" /\ ~unitOpen
    BY <1>00, <1>5 DEF CommitRow, CommitTx, Told, JInv, IInv, CallInv
  <2>2. call \notin Sets
    BY <2>1 DEF JInv, IInv, CallInv
  <2>3. \A s \in Sets : Parts(staged, s) = {}
    BY <2>2 DEF JInv, IInv, SetInv, RestingSet
  <2>4. Parts(file \union staged, call) = 1..wrote[call]
    <3>1. Parts(file, call) = {} /\ Parts(staged, call) = {1} /\ wrote[call] = 1
      BY <2>1, <2>2 DEF JInv, OwnInv
    <3>2. {1} = 1..1
      OBVIOUS
    <3> QED
      BY <3>1, <3>2, PartsOfUnion
  <2>5. Log!AddAndAnswer(call, file' \ file)
    <3>1. file' \ file = staged
      BY <2>1, CommitAddsPending
    <3>2. \A s \in Sets : Log!RowsOf(staged, s) = {}
      BY <2>3 DEF Log!RowsOf, Parts
    <3>3. Log!WholeIn(file \union staged, call)
      BY <2>4 DEF Log!WholeIn, Log!RowsOf, Parts
    <3> QED
      BY <2>1, <2>2, <3>1, <3>2, <3>3 DEF Log!AddAndAnswer
  <2> QED
    BY <2>1, <2>5, CommitAddsPending DEF Log!Next
<1>6. CASE UnitBeginFails
  <2>1. /\ call \in Sets /\ answer' = [answer EXCEPT ![call] = AbortAnswer]
        /\ UNCHANGED <<file, wrote>> /\ pc = "setup"
    BY <1>00, <1>6, BufferConstants DEF UnitBeginFails, LeaveUnit, Told, JInv, IInv, CallInv
  <2>2. Parts(file, call) = {} /\ AbortAnswer \in {"raw", "abort"}
    BY <2>1 DEF JInv, IInv, SetInv, RunningSet, AbortAnswer
  <2> QED
    BY <1>00, <2>1, <2>2, AnswerStep, BufferConstants
<1>7. CASE UnitCommit
  <2>1. /\ file' = file \union staged /\ UNCHANGED <<wrote, answer>> /\ call \in Sets
        /\ answer[call] = "none" /\ unitOpen /\ pc = "body"
    BY <1>00, <1>7 DEF UnitCommit, CommitTx, JInv, IInv, CallInv
  <2>2. Parts(file, call) = {} /\ Parts(staged, call) = 1..wrote[call]
    BY <2>1 DEF JInv, IInv, SetInv, RunningSet
  <2>3. \A r \in staged : r.by = call
    BY <2>1 DEF JInv, OwnInv
  <2>4. file' \ file = staged
    BY <2>1, CommitAddsPending
  <2>5. Log!AddSet(call, file' \ file)
    <3>1. Log!RowsOf(staged, call) = staged /\ Log!RowsOf(file, call) = {}
      BY <2>2, <2>3 DEF Log!RowsOf, Parts
    <3>2. Log!WholeIn(staged, call)
      BY <2>2 DEF Log!WholeIn, Log!RowsOf, Parts
    <3> QED
      BY <2>1, <2>4, <3>1, <3>2 DEF Log!AddSet
  <2> QED
    BY <2>1, <2>5, CommitAddsPending DEF Log!Next
<1>8. CASE UnitReturn
  <2>1. /\ call \in Sets /\ pc = "committed" /\ unitCommitted
        /\ Parts(file, call) = 1..wrote[call] /\ UNCHANGED <<file, wrote>>
    BY <1>8 DEF UnitReturn, LeaveUnit, JInv, IInv, CallInv, SetInv, RunningSet
  <2>2. PICK told \in {"ok", "raw"} : answer' = [answer EXCEPT ![call] = told]
    BY <1>8, <2>1 DEF UnitReturn, LeaveUnit, Told, AbortAnswer
  <2> QED
    BY <1>00, <2>1, <2>2, AnswerStep, BufferConstants
<1>9. CASE UnitRollback
  <2>1. /\ call \in Sets /\ answer' = [answer EXCEPT ![call] = AbortAnswer]
        /\ UNCHANGED <<file, wrote>> /\ pc = "failing" /\ tx # "none"
    BY <1>9 DEF UnitRollback, LeaveUnit, Told, DropTx, JInv, IInv, CallInv
  <2>2. Parts(file, call) = {} /\ AbortAnswer \in {"raw", "abort"}
    BY <2>1 DEF JInv, IInv, SetInv, RunningSet, AbortAnswer
  <2> QED
    BY <1>00, <2>1, <2>2, AnswerStep, BufferConstants
<1>10. CASE UnitPoisons
  <2>1. /\ answer' = [answer EXCEPT ![call] = "raw"] /\ UNCHANGED <<file, wrote>>
        /\ pc = "failing"
    BY <1>10 DEF UnitPoisons, LeaveUnit, Told, DropTx
  <2> QED
    BY <1>00, <2>1, AnswerStep
<1>11. ASSUME GatedCommit, ~UNCHANGED file PROVE Log!Next
  <2>1. file' = file \union staged /\ UNCHANGED <<wrote, answer>> /\ call \notin Sets
    BY <1>11, BufferConstants DEF GatedCommit, CommitTx, DropTx, JInv, IInv, CallInv
  <2>2. \A s \in Sets : Parts(staged, s) = {}
    BY <2>1 DEF JInv, IInv, SetInv, RestingSet
  <2>3. file' \ file = staged
    BY <2>1, CommitAddsPending
  <2>4. Log!AddPlain(file' \ file)
    BY <2>1, <2>2, <2>3 DEF Log!AddPlain, Log!RowsOf, Parts
  <2> QED
    BY <2>1, <2>4, CommitAddsPending DEF Log!Next
<1>12. CASE Crash
  <2>1. /\ answer' = [answer EXCEPT ![call] = "lost"] /\ UNCHANGED <<file, wrote>>
        /\ call # NoCall
    BY <1>12 DEF Crash, FreshHandle, Told
  <2> QED
    BY <1>0, <2>1, AnswerStep
<1>13. ASSUME OutsideCommit, ~UNCHANGED file PROVE Log!Next
  <2> DEFINE r == [seq |-> HighSeq(file) + 1, by |-> Outsider, part |-> 0, target |-> 0]
  <2>1. file' = file \union {r} /\ UNCHANGED <<wrote, answer>>
    BY <1>13 DEF OutsideCommit
  <2>2. HighSeq(file) \in Nat /\ \A q \in file : q.seq \in Nat /\ q.seq <= HighSeq(file)
    BY ViewTops DEF JInv, IInv, View, Row
  <2>3. file' \ file = {r}
    <3>1. r \notin file
      BY <2>2
    <3> QED
      BY <2>1, <3>1
  <2>4. Log!Above({r})
    BY <2>2 DEF Log!Above
  <2>5. \A s \in Sets : Log!RowsOf({r}, s) = {}
    BY BufferConstants DEF Log!RowsOf
  <2>6. Log!AddPlain(file' \ file)
    BY <2>1, <2>3, <2>5 DEF Log!AddPlain
  <2> QED
    BY <2>1, <2>3, <2>4, <2>6 DEF Log!Next
<1>14. ASSUME Next, ~UNCHANGED <<file, wrote, answer>>
       PROVE  \/ \E c \in Calls : BeginSet(c) /\ ~Live
              \/ RaiseBeforeInsert \/ InsertFails \/ CommitRowFails \/ Insert \/ CommitRow
              \/ UnitBeginFails \/ UnitCommit \/ UnitReturn \/ UnitRollback \/ UnitPoisons
              \/ (GatedCommit /\ ~UNCHANGED file) \/ Crash
              \/ (OutsideCommit /\ ~UNCHANGED file)
  BY <1>14 DEF Next, BeginAppend, BeginSet, BodyAppend, Sequence, CheckInsert, UnitBegin,
     BodyRaises, UnitCommitFails, GatedCommit, GatedRollback, ReadThroughCache, Close, Open,
     OutsideCommit, FreshHandle, DropTx
<1> QED
  BY <1>1, <1>2, <1>3, <1>4, <1>5, <1>6, <1>7, <1>8, <1>9, <1>10, <1>11, <1>12, <1>13, <1>14
     DEF vars

\* The buffer, read as the host reads it, is the append-only log WorldLog describes:
\* whatever statements fail, whoever else writes the file and whenever the process
\* dies, a set's rows land in one step before its answer or never, every answer is
\* true, and no row lands below one already read (buffer.py, run_unit and append).
THEOREM BufferIsALog == Spec => ImplementsLog
<1>1. Init => Log!Init
  BY DEF Init, Log!Init
<1>2. JInv /\ [Next]_vars => JInv'
  BY JInvStep
<1>3. JInv /\ [Next]_vars => [Log!Next]_Log!logVars
  BY LogStep
<1> QED
  BY <1>1, <1>2, <1>3, InitJInv, PTL DEF Spec, ImplementsLog, Log!Spec

-----------------------------------------------------------------------------
(* What the handle keeps of the log is the log as a read sees it, as long  *)
(* as SQLite does not itself roll back a commit outside a unit ("lost":    *)
(* the head is then above the log for good, README section 6).             *)
(*                                                                         *)
(* The argument: every step that takes rows out of sight forgets the head  *)
(* and moves the version, or ends in a unit that is about to (a unit in    *)
(* "failing" has nothing but a rollback before it, where no view is        *)
(* served); and every insert moves the version with the head.              *)

ViewInv ==
  /\ cache.at <= logVersion
  /\ handle = "closed" => cache.at < logVersion
  /\ pc \in {"sequenced", "checked"} => head # NoSeq /\ next.seq = head + 1
  /\ ~moved /\ pc # "failing" =>
       /\ head # NoSeq => head = HighSeq(View)
       /\ cache.at = logVersion => cache.rows = View

\* The step takes place where no view is served, or gives up every view,
\* or leaves the log as a read sees it.
Hides ==
  /\ pc' = "failing" /\ UNCHANGED <<cache, logVersion, handle>>
Forgets ==
  /\ head' = NoSeq
  /\ \/ cache' = cache /\ logVersion' \in {logVersion + 1, logVersion + 2} /\ handle' = handle
     \/ cache' = NoCache /\ logVersion' = 0
Shows ==
  /\ View' = View /\ pc # "failing" /\ UNCHANGED <<logVersion, moved, handle>>
  /\ head' = head \/ head' = HeadNow
  /\ \/ cache' = cache
     \/ cache' = [at |-> logVersion, rows |-> View] /\ handle = "open"

\* What a step does to the rows a reader sees, apart from an append's three.
LEMMA ViewKinds ==
  ASSUME IInv, Next, "lost" \notin AutocommitFaults
  PROVE  \/ \E t \in {0} \union {r.seq : r \in View} : Sequence(t)
         \/ CheckInsert \/ Insert \/ OutsideCommit
         \/ pc' \notin {"sequenced", "checked"} /\ (Hides \/ Forgets \/ Shows)
<1> DEFINE Kind == pc' \notin {"sequenced", "checked"} /\ (Hides \/ Forgets \/ Shows)
<1> USE DEF Hides, Forgets, Shows, View, CommitTx, DropTx, Told
<1> USE DEF connVars, unitVars, viewVars, callVars
<1>1. ASSUME NEW c \in Calls, BeginAppend(c) \/ BeginSet(c) PROVE Kind
  BY <1>1 DEF BeginAppend, BeginSet, Idle, IInv, CallInv
<1>2. CASE BodyAppend \/ UnitBegin \/ BodyRaises
  BY <1>2 DEF BodyAppend, UnitBegin, BodyRaises
<1>3. CASE Raise /\ pc # "failing" /\ UNCHANGED <<file, staged, moved, handle, viewVars>>
  <2>1. pc' = "failing" \/ pc' = "idle"
    BY <1>3 DEF Raise
  <2> QED
    BY <1>3, <2>1
<1>4. CASE CommitRow
  BY <1>4 DEF CommitRow
<1>5. CASE UnitBeginFails \/ UnitReturn
  <2>1. pc' = "idle" /\ pc # "failing" /\ UNCHANGED <<file, staged, moved, handle, viewVars>>
    BY <1>5 DEF UnitBeginFails, UnitReturn, LeaveUnit
  <2> QED
    BY <2>1
<1>9. CASE UnitCommit
  <2>1. /\ pc' \in {"failing", "committed"} /\ pc = "body" /\ View' = View
        /\ UNCHANGED <<moved, handle, viewVars>>
    BY <1>9 DEF UnitCommit
  <2> QED
    BY <2>1
<1>10. CASE UnitCommitFails
  BY <1>10 DEF UnitCommitFails
<1>11. CASE RaiseBeforeInsert \/ InsertFails \/ CommitRowFails
  BY <1>3, <1>11 DEF RaiseBeforeInsert, InsertFails, CommitRowFails
<1>6. CASE UnitRollback \/ UnitPoisons
  BY <1>6 DEF UnitRollback, UnitPoisons, LeaveUnit, ForgetView
<1>7. CASE GatedCommit \/ GatedRollback \/ ReadThroughCache
  BY <1>7 DEF GatedCommit, GatedRollback, ReadThroughCache, Borrowed, Idle, ForgetView,
     IInv, CallInv, TypeOK
<1>8. CASE Close \/ Crash \/ Open
  BY <1>8 DEF Close, Crash, Open, FreshHandle, Idle, IInv, CallInv
<1> QED
  BY <1>1, <1>2, <1>3, <1>4, <1>5, <1>6, <1>7, <1>8, <1>9, <1>10, <1>11 DEF Next

\* One row above all others is the last.
LEMMA NewTop ==
  ASSUME NEW rows, NEW row, row.seq \in Nat, \A r \in rows : r.seq \in Nat /\ r.seq < row.seq
  PROVE  HighSeq(rows \union {row}) = row.seq
<1>1. HasTop(rows \union {row})
  BY DEF HasTop
<1>2. /\ HighSeq(rows \union {row}) \in {0} \union {r.seq : r \in rows \union {row}}
      /\ \A r \in rows \union {row} : r.seq <= HighSeq(rows \union {row})
  BY <1>1 DEF HasTop, HighSeq
<1> QED
  BY <1>2

\* A cache keyed by the log version is never older than that version's rows.
LEMMA ViewStep ==
  ASSUME JInv, ViewInv, [Next]_vars, "lost" \notin AutocommitFaults
  PROVE  ViewInv'
<1>0. /\ \A r \in View : r.seq \in Nat /\ r.seq <= HighSeq(View)
      /\ cache.at \in Int /\ logVersion \in Nat /\ head \in Nat \union {NoSeq}
      /\ HeadNow \in Nat /\ handle \in {"open", "closed"} /\ moved \in BOOLEAN
  <2>1. View \subseteq Row /\ HasTop(View) /\ TypeOK
    BY ViewTops DEF JInv, IInv
  <2>2. \A r \in View : r.seq \in Nat
    BY <2>1 DEF Row
  <2> QED
    BY <2>1, <2>2, HighSeqIsTop, ViewTops DEF JInv, IInv, TypeOK
<1>1. ASSUME NEW t \in {0} \union {r.seq : r \in View}, Sequence(t) PROVE ViewInv'
  <2>1. /\ head' = HeadNow /\ next'.seq = HeadNow + 1 /\ View' = View
        /\ UNCHANGED <<moved, handle, logVersion, cache>> /\ pc # "failing"
    BY <1>1 DEF Sequence, View
  <2> QED
    BY <1>0, <2>1 DEF ViewInv, HeadNow, NoSeq
<1>2. CASE CheckInsert
  BY <1>2 DEF ViewInv, View, CheckInsert, connVars, viewVars, callVars
<1>3. CASE Insert
  <2>0. UNCHANGED <<moved, handle, file, cache>> /\ pc = "checked"
    BY <1>3 DEF Insert
  <2>1. CASE Clashes
    <3>1. pc' \notin {"sequenced", "checked"} /\ UNCHANGED <<staged, head, logVersion>>
      BY <1>3, <2>1 DEF Insert, Raise, Told
    <3> QED
      BY <2>0, <3>1 DEF ViewInv, View
  <2>2. CASE ~Clashes
    <3>1. /\ View' = View \union {NewRow} /\ NewRow.seq = next.seq /\ next.seq \in Nat
          /\ head' = IF head # NoSeq /\ next.seq > head THEN next.seq ELSE head
          /\ logVersion' = logVersion + 1 /\ pc' \notin {"sequenced", "checked"}
      BY <1>3, <2>0, <2>2, InsertOutcomes DEF Insert, View, NewRow, JInv, IInv, TypeOK
    <3>2. head # NoSeq /\ next.seq = head + 1 /\ head' = next.seq
      BY <1>0, <2>0, <3>1 DEF ViewInv
    <3>3. ~moved => HighSeq(View') = next.seq
      <4>1. SUFFICES ASSUME ~moved PROVE HighSeq(View') = next.seq
        OBVIOUS
      <4>2. head = HighSeq(View)
        BY <2>0, <3>2, <4>1 DEF ViewInv
      <4>3. \A r \in View : r.seq \in Nat /\ r.seq < NewRow.seq
        BY <1>0, <3>1, <3>2, <4>2
      <4>4. HighSeq(View \union {NewRow}) = NewRow.seq
        BY <3>1, <4>3, NewTop
      <4> QED
        BY <3>1, <4>4
    <3> QED
      BY <1>0, <2>0, <3>1, <3>2, <3>3 DEF ViewInv
  <2> QED
    BY <2>1, <2>2
<1>4. CASE OutsideCommit
  <2>1. /\ handle = "open" => moved'
        /\ UNCHANGED <<handle, pc, next, head, logVersion, cache>>
    BY <1>4 DEF OutsideCommit, viewVars, callVars
  <2>2. handle = "closed" => head = NoSeq /\ cache.at < logVersion
    BY DEF JInv, HeadInv, ViewInv
  <2> QED
    BY <1>0, <2>1, <2>2 DEF ViewInv
<1>5. CASE pc' \notin {"sequenced", "checked"} /\ Hides
  BY <1>5 DEF ViewInv, Hides
<1>6. CASE pc' \notin {"sequenced", "checked"} /\ Forgets
  BY <1>0, <1>6 DEF ViewInv, Forgets, NoCache
<1>7. CASE pc' \notin {"sequenced", "checked"} /\ Shows
  <2>1. head' # NoSeq /\ ~moved => head' = HighSeq(View)
    BY <1>7 DEF ViewInv, Shows, HeadNow
  <2>2. CASE cache' = cache
    BY <1>7, <2>1, <2>2 DEF ViewInv, Shows
  <2>3. CASE cache' = [at |-> logVersion, rows |-> View] /\ handle = "open"
    BY <1>0, <1>7, <2>1, <2>3 DEF ViewInv, Shows
  <2> QED
    BY <1>7, <2>2, <2>3 DEF Shows
<1>8. CASE UNCHANGED vars
  BY <1>8 DEF ViewInv, View, vars, connVars, viewVars, callVars
<1> QED
  BY <1>1, <1>2, <1>3, <1>4, <1>5, <1>6, <1>7, <1>8, ViewKinds DEF JInv

-----------------------------------------------------------------------------
(* The theorem.                                                            *)

\* Where nothing but a busy lock can refuse a commit outside a unit, the head the
\* buffer tracks is the last row a read sees and a derived cache it would serve holds
\* exactly those rows, through rollbacks, aborted sets and rows left pending (head,
\* log_version, _forget_view).
THEOREM ViewsStayCurrent ==
  "lost" \notin AutocommitFaults => (Spec => []ViewsAreCurrent)
<1> SUFFICES ASSUME "lost" \notin AutocommitFaults PROVE Spec => []ViewsAreCurrent
  OBVIOUS
<1>1. Init => JInv /\ ViewInv
  BY InitJInv DEF Init, ViewInv, NoCache
<1>2. JInv /\ ViewInv /\ [Next]_vars => JInv' /\ ViewInv'
  BY JInvStep, ViewStep
<1>3. JInv /\ ViewInv => ViewsAreCurrent
  BY DEF JInv, IInv, CallInv, ViewInv, ViewsAreCurrent, HeadIsLastRow, CacheIsCurrent, CacheServes, Borrowed, Idle
<1> QED
  BY <1>1, <1>2, <1>3, PTL DEF Spec

=============================================================================
