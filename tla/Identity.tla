------------------------------- MODULE Identity -------------------------------
(***************************************************************************)
(* Identity (IdentityRegistry; the gate's raw identity items): which ids   *)
(* name one thing, which are kept apart, which are facets of one another,  *)
(* and under which id a merged thing is served.                            *)
(*                                                                         *)
(* Nothing of it is stored.  A merge, a separation, a correlation and a    *)
(* proposal are rows of the log, and every answer is read from the rows    *)
(* that stand: the operators below take the log they read, a prefix of it  *)
(* for a read as of an earlier row.  The verbs decide on the whole log and *)
(* append several rows, each committed on its own, so the process may die  *)
(* between two of them.                                                    *)
(*                                                                         *)
(* One frame, canon, and the private frames only as a mark that an id owns *)
(* one.  Left out: valid time (every decision here ignores it), evidence   *)
(* rows (nothing reads them), declared contradictions of other attributes, *)
(* names equal to a kind, a person's roles (a second kind of a person is   *)
(* stored as a role, not as a kind), and retype.                           *)
(***************************************************************************)
EXTENDS Integers, Sequences, FiniteSets, FiniteSetsExt, SequencesExt

CONSTANTS
  Ids,          \* numbers, in the order of the id strings
  Words,        \* Words[t]: the content words of the name t
  Descriptions, \* the names that are a sentence or "my brother"
  Starts,       \* logs a run begins with
  Offers,       \* rows a host or an extractor may say
  Withdrawn,    \* attributes of the rows a run retracts
  MaxCalls,     \* bound: calls
  MaxCrashes    \* bound: calls cut short

VARIABLES
  log,     \* the rows, by seq
  from,    \* history: where the last call began
  said,    \* history: <<seq, a, b>>, that a is distinct_from b, as it was said
  calls,
  crashes

vars == <<log, from, said, calls, crashes>>

NoId == 0
\* Rows between two ids, rows about one id, rows about a merge or a row.
Edges == {"same_as", "maybe_same_as", "distinct_from", "aka", "in", "near"}
Names == {"name", "alias"}
Labels == Names \union {"kind"}
Records == {"event", "caused_by", "decided_by", "representative", "retracts"}
Deciders == {"host", "statement", "engine"}

ASSUME IdentityConstants ==
  /\ Ids \subseteq Nat \ {NoId}
  /\ Descriptions \subseteq DOMAIN Words
  /\ MaxCalls \in Nat /\ MaxCrashes \in Nat

\* `of` is an id or, in a record, a seq; `by` says who decided the row.
Row(attr, of, val, by) == [attr |-> attr, of |-> of, val |-> val, by |-> by]

Init ==
  /\ log \in Starts
  /\ from = Len(log) /\ said = {} /\ calls = 0 /\ crashes = 0

-----------------------------------------------------------------------------
(* Reading a log.                                                          *)

Said(L, attrs) == {i \in DOMAIN L : L[i].attr \in attrs}
Retracted(L) == {L[i].of : i \in Said(L, {"retracts"})}
Rows(L, attrs) == Said(L, attrs) \ Retracted(L)
Undone(L) == Said(L, {"same_as"}) \cap Retracted(L)

\* The ids reached from x along edges; no path is longer than there are ids.
Component(edges, x) ==
  FoldSet(LAMBDA i, C : C \union UNION {e \in edges : e \cap C # {}}, {x}, Ids)
Ends(L, i) == {L[i].of, L[i].val}
Closure(L, x) == Component({Ends(L, i) : i \in Rows(L, {"same_as"})}, x)
Group(L, x) == Component({Ends(L, i) : i \in Rows(L, {"same_as", "aka"})}, x)

Joins(L, i, A, B) ==
  \/ L[i].of \in A /\ L[i].val \in B
  \/ L[i].of \in B /\ L[i].val \in A
Between(L, attrs, A, B) == \E i \in Rows(L, attrs) : Joins(L, i, A, B)

Relating(L, attrs, a, b) == Between(L, attrs, Closure(L, a), Closure(L, b))
Vetoed(L, a, b) == Relating(L, {"in", "distinct_from"}, a, b)
Correlated(L, a, b) == Closure(L, b) \cap Group(L, a) # {}
GroupsDistinct(L, a, b) ==
  Between(L, {"distinct_from"}, Group(L, a), Group(L, b))
\* A wrong form: a retracted merge settles only the two ids it joined.
SettledApartByIds(L, a, b) == \E i \in Undone(L) : Ends(L, i) = {a, b}
SettledApart(L, a, b) ==
  \E i \in Undone(L) : Joins(L, i, Closure(L, a), Closure(L, b))
HasProposal(L, a, b) == Relating(L, {"maybe_same_as"}, a, b)

-----------------------------------------------------------------------------
(* The id a closure is served under.                                       *)

FirstSeen(L, x) ==
  Min({i \in Rows(L, Edges \union Labels) :
         L[i].of = x \/ (L[i].attr \in Edges /\ L[i].val = x)} \union {Len(L) + 1})
Elect(L, C) ==
  CHOOSE x \in C : \A y \in C \ {x} :
    \/ FirstSeen(L, x) < FirstSeen(L, y)
    \/ FirstSeen(L, x) = FirstSeen(L, y) /\ x < y

\* A wrong form: a link a retraction hides is no link.
EdgeStandsIfLinked(L, event) ==
  LET causes == {c \in Rows(L, {"caused_by"}) : L[c].val = event}
  IN causes = {} \/ \E c \in causes : L[c].of \in Rows(L, {"same_as"})

\* A merge's edge, or the link to it, when hidden still marks the event as one
\* that had an edge; an event no row was caused by is a re-point.
EdgeStands(L, event) ==
  LET causes == {c \in Said(L, {"caused_by"}) : L[c].val = event}
  IN causes = {} \/ \E c \in causes :
       c \notin Retracted(L) /\ L[c].of \in Rows(L, {"same_as"})

Honoured(L) ==
  {r \in Rows(L, {"representative"}) :
     /\ L[r].of \in Rows(L, {"event"})
     /\ \E d \in Rows(L, {"decided_by"}) : L[d].of = L[r].of /\ L[d].by = "host"
     /\ EdgeStands(L, L[r].of)}

Resolve(L, x) ==
  LET C == Closure(L, x)
      named == {r \in Honoured(L) : L[r].val \in C}
  IN IF C = {x} THEN x
     ELSE IF named # {} THEN L[Max(named)].val
     ELSE Elect(L, C)

-----------------------------------------------------------------------------
(* What the engine may merge on its own.                                   *)

Called(L, x, attrs) == {L[i].val : i \in {j \in Rows(L, attrs) : L[j].of \in Closure(L, x)}}
Kinds(L, x) == Called(L, x, {"kind"})
KindsClash(L, a, b) == Cardinality(Kinds(L, a) \union Kinds(L, b)) > 1
OwnsFrame(L, x) == \E i \in Rows(L, {"knows"}) : L[i].of \in Closure(L, x)

\* A shared proper name, or a shared alias of several words on equal kinds.
NamedAlike(L, a, b) ==
  LET Anchors(x) == Called(L, x, Names)
  IN \E t \in (Anchors(a) \cap Anchors(b)) \ Descriptions :
       \/ t \in Called(L, a, {"name"}) \union Called(L, b, {"name"})
       \/ /\ Kinds(L, a) # {} /\ Kinds(L, b) # {}
          /\ Cardinality(Words[t]) >= 2

Settled(L, a, b) ==
  \/ Vetoed(L, a, b)
  \/ Correlated(L, a, b)
  \/ GroupsDistinct(L, a, b)
  \/ SettledApart(L, a, b)

Open(L, a, b) ==
  /\ Resolve(L, a) # Resolve(L, b)
  /\ ~Settled(L, a, b)

Unopposed(L, a, b) ==
  /\ Open(L, a, b)
  /\ ~Relating(L, {"near"}, a, b)
  /\ ~KindsClash(L, a, b)
  /\ ~OwnsFrame(L, a) /\ ~OwnsFrame(L, b)

Mergeable(L, a, b) == Unopposed(L, a, b) /\ NamedAlike(L, a, b)

NameWords(L, x) ==
  UNION {Words[t] : t \in Called(L, x, Names) \ Descriptions}
AnchorSubsumed(L, a, b) ==
  LET A == NameWords(L, a)  B == NameWords(L, b)
  IN A # {} /\ B # {} /\ (A \subseteq B \/ B \subseteq A)

-----------------------------------------------------------------------------
(* The rows a call appends, given the log it finds.                        *)

MergeRows(L, a, b, by, representative) ==
  IF Vetoed(L, a, b) THEN <<>>
  ELSE LET event == Len(L) + 1
       IN <<Row("event", event, NoId, by), Row("same_as", a, b, by),
            Row("caused_by", event + 1, event, by),
            Row("decided_by", event, NoId, by)>>
          \o (IF representative = NoId THEN <<>>
              ELSE <<Row("representative", event, representative, by)>>)

RepointRows(L, representative) ==
  LET event == Len(L) + 1
  IN <<Row("event", event, NoId, "host"), Row("decided_by", event, NoId, "host"),
       Row("representative", event, representative, "host")>>

\* representative: NoId, or a member of either closure (ValueError otherwise).
GuardedMerge(L, a, b, by, representative) ==
  IF Resolve(L, a) # Resolve(L, b) THEN MergeRows(L, a, b, by, representative)
  ELSE IF representative # NoId THEN RepointRows(L, representative)
  ELSE <<>>

Confirm(L, a, b, representative) ==
  IF Resolve(L, a) = Resolve(L, b) \/ HasProposal(L, a, b)
    THEN GuardedMerge(L, a, b, "host", representative)
    ELSE <<>>

Reject(L, a, b) ==
  IF \/ Resolve(L, a) = Resolve(L, b)
     \/ Correlated(L, a, b)
     \/ Relating(L, {"distinct_from"}, a, b)
    THEN <<>>
    ELSE <<Row("distinct_from", Resolve(L, a), Resolve(L, b), "verb")>>

Correlate(L, a, b) ==
  IF \/ Relating(L, {"distinct_from"}, a, b)
     \/ Correlated(L, a, b)
     \/ GroupsDistinct(L, a, b)
    THEN <<>>
    ELSE <<Row("aka", a, b, "verb")>>

Merged(L, a, b) == L \o MergeRows(L, a, b, "engine", NoId)
Proposals(L) == SetToSortSeq(Rows(L, {"maybe_same_as"}), <)

Promote(L) ==
  FoldLeft(LAMBDA M, p : IF Mergeable(M, L[p].of, L[p].val)
                           THEN Merged(M, L[p].of, L[p].val) ELSE M,
           L, Proposals(L))

\* <<first row of the text, a, b>>: the representatives one text names, in the
\* order reconcile meets them; they are those the pass began with.
Pairs(L) ==
  LET anchors == Rows(L, Names)
      of(t) == {i \in anchors : L[i].val = t}
      pairs == UNION {{<<Min(of(t)), Resolve(L, L[i].of), Resolve(L, L[j].of)>> :
                         i \in of(t), j \in of(t)} : t \in {L[i].val : i \in anchors}}
      Before(p, q) == \/ p[1] < q[1]
                      \/ p[1] = q[1] /\ p[2] < q[2]
                      \/ p[1] = q[1] /\ p[2] = q[2] /\ p[3] < q[3]
  IN SetToSortSeq({p \in pairs : p[2] < p[3]}, Before)

ReconcilePair(L, a, b) ==
  IF Mergeable(L, a, b) THEN Merged(L, a, b)
  ELSE IF Open(L, a, b) /\ ~HasProposal(L, a, b)
    THEN Append(L, Row("maybe_same_as", a, b, "engine"))
  ELSE L
Reconcile(L) ==
  Promote(FoldLeft(LAMBDA M, p : ReconcilePair(M, p[2], p[3]), L, Pairs(L)))

\* The proposals are those the pass began with; a pair of representatives is
\* looked at once.
AdjudicateStep(state, p, L) ==
  LET M == state.log
      a == Resolve(M, L[p].of)
      b == Resolve(M, L[p].val)
  IN IF a = b \/ {a, b} \in state.seen THEN state
     ELSE [log |-> IF Unopposed(M, a, b) /\ AnchorSubsumed(M, a, b)
                     THEN Merged(M, a, b) ELSE M,
           seen |-> state.seen \union {{a, b}}]
Adjudicate(L) ==
  FoldLeft(LAMBDA s, p : AdjudicateStep(s, p, L), [log |-> L, seen |-> {}],
           Proposals(L)).log

\* The gate stores an item under the ids' representatives; a raw same_as is a
\* guarded merge of the ids as given; an edge to itself in a family is skipped.
Item(L, item) ==
  LET of == Resolve(L, item.of)
      val == IF item.attr \in Edges THEN Resolve(L, item.val) ELSE item.val
  IN IF item.attr = "same_as" THEN GuardedMerge(L, item.of, item.val, "statement", NoId)
     ELSE IF item.attr \in {"in", "near"} /\ of = val THEN <<>>
     ELSE IF item.attr = "knows" THEN <<item>>
     ELSE <<[item EXCEPT !.of = of, !.val = val]>>

-----------------------------------------------------------------------------
(* A call appends its rows one commit at a time; a crash leaves the first. *)

Write(rows, words) ==
  /\ calls < MaxCalls /\ rows # <<>>
  /\ \E n \in 1..Len(rows) :
       /\ n = Len(rows) \/ crashes < MaxCrashes
       /\ log' = log \o SubSeq(rows, 1, n)
       /\ crashes' = IF n = Len(rows) THEN crashes ELSE crashes + 1
  /\ from' = Len(log)
  /\ said' = said \union words
  /\ calls' = calls + 1
Call(rows) == Write(rows, {})

New(L) == SubSeq(L, Len(log) + 1, Len(L))
Twos == {p \in Ids \X Ids : p[1] < p[2]}
Either(a, b) == {NoId} \union Closure(log, a) \union Closure(log, b)

Ingest ==
  \E item \in Offers :
    Write(Item(log, item),
          IF item.attr = "distinct_from" THEN {<<Len(log) + 1, item.of, item.val>>} ELSE {})
HostMerges ==
  \E p \in Twos : \E r \in Either(p[1], p[2]) :
    Call(GuardedMerge(log, p[1], p[2], "host", r))
HostConfirms ==
  \E p \in Twos : \E r \in Either(p[1], p[2]) : Call(Confirm(log, p[1], p[2], r))
HostRejects == \E p \in Twos : Call(Reject(log, p[1], p[2]))
HostCorrelates == \E p \in Twos : Call(Correlate(log, p[1], p[2]))
HostRetracts ==
  \E i \in Rows(log, Withdrawn) : Call(<<Row("retracts", i, NoId, "host")>>)
HostReconciles == Call(New(Reconcile(log)))
HostAdjudicates == Call(New(Adjudicate(log)))

Next == Ingest \/ HostMerges \/ HostConfirms \/ HostRejects \/ HostCorrelates
          \/ HostRetracts \/ HostReconciles \/ HostAdjudicates

Spec == Init /\ [][Next]_vars

-----------------------------------------------------------------------------
(* The diagnostics a host reads.                                           *)

\* identity_conflicts: a row the merge would veto, inside one closure.
IdentityConflicts(L) ==
  {i \in Rows(L, {"in", "distinct_from"}) :
     LET C == Closure(L, L[i].of) IN Cardinality(C) > 1 /\ L[i].val \in C}

\* correlation_conflicts, as the pairs of representatives it lists: joined by
\* one aka row, or by a path of them over representatives.
CorrelationConflicts(L) ==
  LET pair(i) == {Resolve(L, L[i].of), Resolve(L, L[i].val)}
      akas == Rows(L, {"aka"})
      direct == {pair(i) : i \in {j \in akas :
                             Relating(L, {"distinct_from"}, L[j].of, L[j].val)}}
      hops == {pair(i) : i \in akas}
      apart == {i \in Rows(L, {"distinct_from"}) : Cardinality(pair(i)) = 2}
  IN direct \union {pair(i) : i \in {j \in apart :
       Resolve(L, L[j].val) \in Component(hops, Resolve(L, L[j].of))}}

\* A wrong form: the code forgets that an alias counts on equal kinds only.
DeclinedKindless(L, a, b) ==
  LET anchors(x) == Called(L, x, Names)
      evidence == (anchors(a) \cap anchors(b)) \ Descriptions
      proper == Called(L, a, {"name"}) \union Called(L, b, {"name"})
  IN \/ Relating(L, {"in", "near"}, a, b)
     \/ Correlated(L, a, b) \/ GroupsDistinct(L, a, b) \/ SettledApart(L, a, b)
     \/ evidence = {} \/ KindsClash(L, a, b)
     \/ evidence \cap proper = {} /\ \A t \in evidence : Cardinality(Words[t]) < 2
     \/ OwnsFrame(L, a) \/ OwnsFrame(L, b)

\* Why the gate did not merge a proposal (its code; FALSE: it would have).
Declined(L, a, b) ==
  LET anchors(x) == Called(L, x, Names)
      evidence == (anchors(a) \cap anchors(b)) \ Descriptions
      proper == Called(L, a, {"name"}) \union Called(L, b, {"name"})
  IN \/ Relating(L, {"in", "near"}, a, b)
     \/ Correlated(L, a, b) \/ GroupsDistinct(L, a, b) \/ SettledApart(L, a, b)
     \/ evidence = {} \/ KindsClash(L, a, b)
     \/ /\ evidence \cap proper = {}
        /\ \/ Kinds(L, a) = {} \/ Kinds(L, b) = {}
           \/ \A t \in evidence : Cardinality(Words[t]) < 2
     \/ OwnsFrame(L, a) \/ OwnsFrame(L, b)

\* name_collisions: two things share a name and nothing says why they are two.
Unlinked(L, a, b) ==
  /\ b \notin Group(L, a) /\ ~Settled(L, a, b)
  /\ ~(HasProposal(L, a, b) /\ Declined(L, a, b))
Collisions(L) ==
  {<<Resolve(L, L[i].of), Resolve(L, L[j].of)>> :
     <<i, j>> \in {p \in Rows(L, Names) \X Rows(L, Names) :
                    L[p[1]].val = L[p[2]].val}}

-----------------------------------------------------------------------------
(* Correctness.                                                            *)

\* Rows are well formed: an edge joins ids, a record is about an earlier row,
\* and who decided is one of the deciders.
TypeOK ==
  /\ \A i \in DOMAIN log :
       /\ log[i].attr \in Edges => Ends(log, i) \subseteq Ids
       /\ log[i].attr \in Records => log[i].of \in 1..i
       /\ log[i].attr = "caused_by" =>
            log[log[i].of].attr = "same_as" /\ log[log[i].val].attr = "event"
       /\ log[i].attr \in {"event", "same_as"} => log[i].by \in Deciders
  /\ from \in 0..Len(log) /\ (\A s \in said : s[1] \in DOMAIN log)
  /\ calls \in 0..MaxCalls /\ crashes \in 0..MaxCrashes

\* The rows the last call wrote, as the logs before and after each.
Steps == from .. Len(log) - 1
At(s) == SubSeq(log, 1, s)
OneThing(L, i) == L[i].val \in Closure(L, L[i].of)

\* No call, host or engine, fuses what a standing distinct_from or containment
\* row keeps apart, whatever was merged into either side since it was written
\* (merge's vetoes).
VetoHolds ==
  \A s \in Steps : \A i \in Rows(At(s), {"in", "distinct_from"}) :
    ~OneThing(At(s), i) => ~OneThing(At(s + 1), i)

\* What a retracted merge had joined, the engine does not join again, directly
\* or through a third id (reconcile, promotion, adjudicate).
SettledApartHolds ==
  \A s \in Steps : \A i \in Undone(At(s)) :
    log[s + 1].by = "engine" /\ ~OneThing(At(s), i) => ~OneThing(At(s + 1), i)

Torn(L) ==
  {i \in Rows(L, {"distinct_from"}) :
     /\ L[i].val \in Group(L, L[i].of)
     /\ L[i].of = L[i].val => Cardinality(Closure(L, L[i].of)) > 1}

\* Neither the engine's merges nor correlate and reject put a distinct_from
\* between facets of one identity, however long the chain of aka and same_as
\* rows that makes them so.
GroupsAgree ==
  \A s \in Steps : log[s + 1].by \in {"engine", "verb"} => Torn(At(s + 1)) \subseteq Torn(At(s))

\* A merged thing is served under the last id its host named, as long as every
\* row of that call stands, and under no name once one of them is withdrawn;
\* a call's rows are consecutive (resolve, the honoured designations).
NameHolds ==
  LET standing == {r \in Said(log, {"representative"}) :
                     log[r].of .. r \cap Retracted(log) = {}}
  IN \A x \in Ids :
       LET C == Closure(log, x)
           named == {r \in standing : log[r].val \in C}
       IN C # {x} => Resolve(log, x) = IF named # {} THEN log[Max(named)].val
                                       ELSE Elect(log, C)

\* A distinct_from inside one identity, from whatever route, shows in one of
\* the two diagnostics, and each lists no other pair.
ConflictsAreListed ==
  LET pair(i) == {Resolve(log, log[i].of), Resolve(log, log[i].val)}
      torn == Torn(log)
      fused == torn \cap IdentityConflicts(log)
  IN /\ {pair(i) : i \in torn \ fused} \subseteq CorrelationConflicts(log)
     /\ CorrelationConflicts(log) \subseteq {pair(i) : i \in torn}
     /\ \A i \in torn \ fused : ~OneThing(log, i)

\* What is to be kept apart stays apart, or the host is shown where it did not: neither
\* a veto nor a retracted merge is undone by a later merge, and what an author's own
\* words tear is listed.
ApartHolds == TypeOK /\ VetoHolds /\ SettledApartHolds /\ ConflictsAreListed

\* What is one is one in the canon: no merge or link of the engine's tears a group, and
\* a group is served under the name it was given.
OneIsOne == GroupsAgree /\ NameHolds

\* After reconcile no two things that share a name are left for it
\* (name_collisions' "unlinked"): each pair is settled, or proposed to the host with the reason
\* why the engine did not merge it; and a second pass has nothing to do.
ReconcileSettles ==
  LET L == Reconcile(log)
  IN /\ \A p \in Collisions(L) :
          p[1] # p[2] => ~Unlinked(L, p[1], p[2])
     /\ Reconcile(L) = L

\* "definitively not the same. A hard merge veto" (LEXICON, distinct_from): two
\* ids an author said are distinct cannot be merged, while the row stands and
\* whenever they are two.
\* The code does not keep this (README, section 6).
SeparationHolds ==
  \A s \in said :
    s[1] \notin Retracted(log) /\ s[3] \notin Closure(log, s[2]) =>
      Vetoed(log, s[2], s[3])

=============================================================================
