------------------------------ MODULE WorldLog ------------------------------
(***************************************************************************)
(* What a world's file promises to the host that writes it, with nothing   *)
(* of how: an append-only set of numbered rows.  A plain append adds its   *)
(* row at some point; a set (commit_set, ingest_structured(atomic=True))   *)
(* adds all its rows in one step or none ever; and the answer a set gets   *)
(* tells the host which of the two happened.  PatternBuffer.tla is shown   *)
(* to implement this module.                                               *)
(***************************************************************************)
EXTENDS Integers

CONSTANTS
  Calls,      \* the host's write calls
  Sets        \* those of them that are atomic sets

VARIABLES
  log,        \* the committed rows
  wrote,      \* how many rows each call has handed over so far
  answer      \* what each call was told

logVars == <<log, wrote, answer>>

RowsOf(rows, c) == {r \in rows : r.by = c}

\* The rows are all that call c handed over.
WholeIn(rows, c) == {r.part : r \in RowsOf(rows, c)} = 1..wrote[c]

Init ==
  /\ log = {}
  /\ wrote = [c \in Calls |-> 0]
  /\ answer = [c \in Calls |-> "none"]

\* A call hands over one more row; nobody can see it yet.
Write(c) ==
  /\ answer[c] = "none"
  /\ RowsOf(log, c) = {}
  /\ wrote' = [wrote EXCEPT ![c] = @ + 1]
  /\ UNCHANGED <<log, answer>>

\* Every row a step adds is numbered above every row already in the log.
Above(rows) == \A r \in rows, q \in log : r.seq > q.seq

\* A set becomes visible, whole and once.
AddSet(c, rows) ==
  /\ answer[c] = "none"
  /\ RowsOf(log, c) = {}
  /\ RowsOf(rows, c) = rows
  /\ WholeIn(rows, c)
  /\ log' = log \union rows
  /\ UNCHANGED <<wrote, answer>>

\* Rows of plain appends (or of other connections) become visible.  A plain
\* append that was told "raised" may still land: its failed commit stays
\* pending and the next commit carries it.
AddPlain(rows) ==
  /\ \A c \in Sets : RowsOf(rows, c) = {}
  /\ log' = log \union rows
  /\ UNCHANGED <<wrote, answer>>

\* A set is told "ok" only when it is durable, "abort" only when it is not
\* (and, since AddSet needs an unanswered call, never will be).
Answer(c, told) ==
  /\ answer[c] = "none"
  /\ c \in Sets /\ told = "ok" => WholeIn(log, c)
  /\ c \in Sets /\ told = "abort" => RowsOf(log, c) = {}
  /\ answer' = [answer EXCEPT ![c] = told]
  /\ UNCHANGED <<log, wrote>>

\* The last row of a plain append is committed and answered in one step.
AddAndAnswer(c, rows) ==
  /\ c \notin Sets
  /\ answer[c] = "none"
  /\ \A s \in Sets : RowsOf(rows, s) = {}
  /\ WholeIn(log \union rows, c)
  /\ log' = log \union rows
  /\ answer' = [answer EXCEPT ![c] = "ok"]
  /\ UNCHANGED wrote

\* The step that adds `log' \ log`, whoever takes it.
Next ==
  LET rows == log' \ log IN
  /\ log \subseteq log'
  /\ Above(rows)
  /\ \/ \E c \in Calls : Write(c)
     \/ \E c \in Sets : AddSet(c, rows)
     \/ AddPlain(rows)
     \/ \E c \in Calls : AddAndAnswer(c, rows)
     \/ \E c \in Calls, told \in {"ok", "abort", "raised", "raw", "lost"} :
          Answer(c, told)

Spec == Init /\ [][Next]_logVars

=============================================================================
