------------------------------ MODULE Resolver -------------------------------
(***************************************************************************)
(* Resolver (thunks.py, World.resolve): the lazy world.                    *)
(*                                                                         *)
(* A thunk is an unresolved row on a key.  Resolving the key serves what   *)
(* stands (a spent thunk's memo, a concrete value), or asks the model and  *)
(* appends the invention: generated rows, then a `resolved_by` marker that *)
(* spends the thunk and names them.  A key nobody planted, declared open   *)
(* to invention, is planted and forced in one atomic unit; a perceived     *)
(* resolve does all of it, and the mirror into the observer's frame, in    *)
(* one unit; a plain resolve of a standing thunk commits row by row.       *)
(*                                                                         *)
(* The model, an append or the mirror may raise, and the process may die,  *)
(* at any step.                                                            *)
(***************************************************************************)
EXTENDS Integers, Sequences, FiniteSets

CONSTANTS
  Keys,      \* (entity, aspect) pairs, in canon
  Minting,   \* those whose aspect mints items (contents, attire)
  Contents,  \* those whose aspect is contents
  Declared,  \* those declared resolvable_for their entity's kind
  MaxItems,  \* bound: items of one invention
  MaxHost,   \* bound: rows the host writes
  MaxRows,   \* bound: rows of the log
  MaxCalls   \* bound: resolve calls

ASSUME ResolverConstants ==
  /\ Keys # {} /\ Contents \subseteq Minting /\ Minting \subseteq Keys /\ Declared \subseteq Keys
  /\ MaxItems \in Nat /\ MaxHost \in Nat /\ MaxRows \in Nat /\ MaxCalls \in Nat

Policies == {"invent_under_canon", "observe_or_unknown", "deny"}
NoUnit == -1

VARIABLES
  log,     \* the rows, by seq
  begun,   \* the length of the log at the open unit's BEGIN, or NoUnit
  call,    \* the resolve call that runs
  calls,   \* history: how many were made
  served,  \* history: what was answered for each thunk, by its seq
  shown    \* history: the rows perceived resolves answered

vars == <<log, begun, call, calls, served, shown>>

\* A row: a thunk (its policy; `by` the call that planted it, 0 for the host),
\* an item generated for thunk `of` by call `by`, its marker (`memo`, the items),
\* a concrete value seen by the host, or a mirror of row `of`.
Row(kind, key) ==
  [kind |-> kind, key |-> key, of |-> 0, by |-> 0, memo |-> {}, policy |-> "none"]

NoCall == [pc |-> "idle", key |-> CHOOSE k \in Keys : TRUE, thunk |-> 0,
           left |-> 0, made |-> {}, perceive |-> FALSE]

Init ==
  /\ log = <<>> /\ begun = NoUnit
  /\ call = NoCall /\ calls = 0
  /\ served = [t \in 1..MaxRows |-> {}] /\ shown = {}

-----------------------------------------------------------------------------
(* Reads of the log.                                                       *)

Latest(S) == IF S = {} THEN 0 ELSE CHOOSE i \in S : \A j \in S : j <= i

\* _find_thunk_row()
Thunk(k) == Latest({i \in 1..Len(log) : log[i].kind = "thunk" /\ log[i].key = k})

\* A wrong form: no thunk is ever spent.
NoMarker(t) == {i \in 1..Len(log) : i = t /\ FALSE}

\* _resolved_marker()
Marker(t) == {i \in 1..Len(log) : log[i].kind = "mark" /\ log[i].of = t}
Memo(t) == log[CHOOSE i \in Marker(t) : \A j \in Marker(t) : i <= j].memo

\* The concrete rows on the key; where there is one the fold serves one of them
\* (rank and valid time say which), never the placeholder.  What a minting
\* aspect generates stands on the minted items' keys, not on its own.
Concrete(k) ==
  {i \in 1..Len(log) :
     /\ log[i].key = k
     /\ \/ log[i].kind = "seen"
        \/ log[i].kind = "item" /\ k \notin Minting}

\* _may_plant(), in a world whose policy invents under canon
MayPlant(k) ==
  /\ k \in Declared
  /\ ~(k \in Contents /\ \E i \in 1..Len(log) : log[i].kind = "item" /\ log[i].key = k)

-----------------------------------------------------------------------------
(* The unit of work (PatternBuffer models it; here it holds or reverts).   *)

Durable == IF begun = NoUnit THEN log ELSE SubSeq(log, 1, begun)

Append1(row) == Len(log) < MaxRows /\ log' = Append(log, row)

Returns(answer) ==
  /\ call' = NoCall /\ begun' = NoUnit
  /\ served' = IF call.thunk = 0 THEN served
               ELSE [served EXCEPT ![call.thunk] = @ \union {answer}]
  /\ shown' = IF call.perceive THEN shown \union answer ELSE shown

Raises ==
  /\ log' = Durable /\ begun' = NoUnit /\ call' = NoCall
  /\ UNCHANGED <<calls, served, shown>>

-----------------------------------------------------------------------------
(* The host between resolves.                                              *)

HostMayWrite ==
  /\ call.pc = "idle"
  /\ Cardinality({i \in 1..Len(log) : log[i].kind \in {"thunk", "seen"} /\ log[i].by = 0})
       < MaxHost

Plant(k, policy) ==
  /\ HostMayWrite
  /\ Append1([Row("thunk", k) EXCEPT !.policy = policy])
  /\ UNCHANGED <<begun, call, calls, served, shown>>

Observe(k) ==
  /\ HostMayWrite
  /\ Append1(Row("seen", k))
  /\ UNCHANGED <<begun, call, calls, served, shown>>

-----------------------------------------------------------------------------
(* resolve_planted(), and _resolve_perceived() around it.                  *)

Resolve(k, perceive) ==
  /\ call.pc = "idle" /\ calls < MaxCalls /\ calls' = calls + 1
  /\ call' = [NoCall EXCEPT !.pc = "asked", !.key = k, !.perceive = perceive]
  /\ begun' = IF perceive THEN Len(log) ELSE NoUnit
  /\ UNCHANGED <<log, served, shown>>

\* What stands is the answer; a perceived one is mirrored first.
Stands(thunk, rows) ==
  /\ call' = [call EXCEPT !.pc = "done", !.thunk = thunk, !.made = rows]
  /\ UNCHANGED <<log, begun, calls, served, shown>>

ServeMemo ==
  /\ call.pc = "asked" /\ Thunk(call.key) # 0 /\ Marker(Thunk(call.key)) # {}
  /\ Stands(Thunk(call.key), Memo(Thunk(call.key)))

Open ==  \* neither a memo nor a concrete value answers
  /\ call.pc = "asked" /\ Concrete(call.key) = {}
  /\ Thunk(call.key) # 0 => Marker(Thunk(call.key)) = {}

ServeConcrete ==
  /\ call.pc = "asked"
  /\ Thunk(call.key) # 0 => Marker(Thunk(call.key)) = {}
  /\ \E i \in Concrete(call.key) : Stands(0, {i})

ServeNothing ==
  /\ Open
  /\ IF Thunk(call.key) = 0 THEN ~MayPlant(call.key)
     ELSE log[Thunk(call.key)].policy = "observe_or_unknown"
  /\ Stands(0, {})

Denied ==
  /\ Open /\ Thunk(call.key) # 0 /\ log[Thunk(call.key)].policy = "deny"
  /\ Raises

\* A wrong form: the placeholder is planted outside any unit.
PlantAndForceBare ==
  /\ Open /\ Thunk(call.key) = 0 /\ MayPlant(call.key)
  /\ Append1([Row("thunk", call.key) EXCEPT !.policy = "invent_under_canon", !.by = calls])
  /\ call' = [call EXCEPT !.pc = "model", !.thunk = Len(log')]
  /\ UNCHANGED <<begun, calls, served, shown>>

\* _plant_and_force(): a unit of its own, or joined to the perceiving one.
PlantAndForce ==
  /\ Open /\ Thunk(call.key) = 0 /\ MayPlant(call.key)
  /\ Append1([Row("thunk", call.key) EXCEPT !.policy = "invent_under_canon", !.by = calls])
  /\ call' = [call EXCEPT !.pc = "model", !.thunk = Len(log')]
  /\ begun' = IF begun = NoUnit THEN Len(log) ELSE begun
  /\ UNCHANGED <<calls, served, shown>>

ForceThunk ==
  /\ Open /\ Thunk(call.key) # 0
  /\ log[Thunk(call.key)].policy = "invent_under_canon"
  /\ call' = [call EXCEPT !.pc = "model", !.thunk = Thunk(call.key)]
  /\ UNCHANGED <<log, begun, calls, served, shown>>

-----------------------------------------------------------------------------
(* _invent()                                                               *)

ModelAnswers ==
  /\ call.pc = "model"
  /\ \E n \in 0..MaxItems : call' = [call EXCEPT !.pc = "write", !.left = n]
  /\ UNCHANGED <<log, begun, calls, served, shown>>

Item == [Row("item", call.key) EXCEPT !.of = call.thunk, !.by = calls]

\* One item: a literal row, or a minted item's kind, name, edge and looks.
AppendItem ==
  /\ call.pc = "write" /\ call.left > 0
  /\ Append1(Item)
  /\ call' = [call EXCEPT !.left = @ - 1, !.made = @ \union {Len(log')}]
  /\ UNCHANGED <<begun, calls, served, shown>>

Mark ==
  /\ call.pc = "write" /\ call.left = 0
  /\ Append1([Row("mark", call.key) EXCEPT !.of = call.thunk, !.by = calls,
                                           !.memo = call.made])
  /\ call' = [call EXCEPT !.pc = "done"]
  /\ UNCHANGED <<begun, calls, served, shown>>

-----------------------------------------------------------------------------
(* The end of the call.                                                    *)

Mirrored(i) == \E j \in 1..Len(log) : log[j].kind = "mirror" /\ log[j].of = i

\* _mirror(): the rows the observer's frame does not hold, through the gate.
MirrorOne ==
  /\ call.pc = "done" /\ call.perceive
  /\ \E i \in call.made :
       ~Mirrored(i) /\ Append1([Row("mirror", call.key) EXCEPT !.of = i])
  /\ UNCHANGED <<begun, call, calls, served, shown>>

Return ==
  /\ call.pc = "done"
  /\ call.perceive => \A i \in call.made : Mirrored(i)
  /\ Returns(call.made)
  /\ UNCHANGED <<log, calls>>

\* The model, an append, a malformed item or the mirror raises; or the process
\* dies: a unit's rows are gone, rows committed one by one are not.
Fail == call.pc # "idle" /\ Raises

-----------------------------------------------------------------------------
Next ==
  \/ \E k \in Keys :
       \/ \E policy \in Policies : Plant(k, policy)
       \/ Observe(k)
       \/ \E perceive \in BOOLEAN : Resolve(k, perceive)
  \/ ServeMemo \/ ServeConcrete \/ ServeNothing \/ Denied
  \/ PlantAndForce \/ ForceThunk \/ ModelAnswers \/ AppendItem \/ Mark
  \/ MirrorOne \/ Return \/ Fail

Spec == Init /\ [][Next]_vars

-----------------------------------------------------------------------------
(* What a world relies on.                                                 *)

TypeOK ==
  /\ log \in Seq([kind : {"thunk", "item", "mark", "seen", "mirror"}, key : Keys,
                  of : 0..MaxRows, by : 0..MaxCalls, memo : SUBSET (1..MaxRows),
                  policy : Policies \union {"none"}])
  /\ Len(log) <= MaxRows
  /\ begun \in {NoUnit} \union 0..Len(log)
  /\ call \in [pc : {"idle", "asked", "model", "write", "done"}, key : Keys,
               thunk : 0..MaxRows, left : 0..MaxItems, made : SUBSET (1..MaxRows),
               perceive : BOOLEAN]
  /\ calls \in 0..MaxCalls
  /\ served \in [1..MaxRows -> SUBSET SUBSET (1..MaxRows)]
  /\ shown \subseteq 1..MaxRows

\* A failure anywhere leaves neither the placeholder a resolve planted nor any
\* row of it: a durable placeholder is a spent one.
PlantsAreSpent ==
  \A t \in 1..Len(Durable) :
    Durable[t].kind = "thunk" /\ Durable[t].by # 0 =>
      \E i \in 1..Len(Durable) : Durable[i].kind = "mark" /\ Durable[i].of = t

\* A spent thunk serves its memo, for ever, identically: all answers for a thunk
\* are one answer, its rows durable and generated for it.
OneAnswerPerThunk ==
  \A t \in 1..MaxRows :
    /\ Cardinality(served[t]) <= 1
    /\ \A rows \in served[t] : \A i \in rows :
         i <= Len(Durable) /\ Durable[i].kind = "item" /\ Durable[i].of = t

\* The marker names every row its force generated, and closes the thunk: none
\* is generated for it afterwards, by any call.
MemoIsWhole ==
  \A m \in 1..Len(log) : log[m].kind = "mark" =>
    LET items == {i \in 1..Len(log) : log[i].kind = "item" /\ log[i].of = log[m].of} IN
    /\ {i \in items : log[i].by = log[m].by} = log[m].memo
    /\ \A i \in items : i < m

\* What a perceived resolve answered is in the observer's frame, and however
\* often it is asked no row is there twice.
PerceivedOnce ==
  LET mirrors(i) == {j \in 1..Len(log) : log[j].kind = "mirror" /\ log[j].of = i} IN
  /\ \A i \in 1..Len(log) : Cardinality(mirrors(i)) <= 1
  /\ \A i \in shown : mirrors(i) \intersect 1..Len(Durable) # {}

\* What one force leaves is whole: no placeholder of its own survives a failure, the
\* marker names all it made, and an observer's frame has all of that, once.
ForcesAreWhole == TypeOK /\ PlantsAreSpent /\ MemoIsWhole /\ PerceivedOnce

-----------------------------------------------------------------------------
(* Stated by the docs and not kept by the code (see README, section 6).    *)

\* "Forcing evaluates exactly once; the memo is the fold" (thunks.py:5): the
\* generated rows of a thunk all come from one force.
ForcedOnce ==
  \A i, j \in 1..Len(Durable) :
    Durable[i].kind = "item" /\ Durable[j].kind = "item" /\ Durable[i].of = Durable[j].of
      => Durable[i].by = Durable[j].by

=============================================================================
