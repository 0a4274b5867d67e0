--------------------------------- MODULE Bind ---------------------------------
(***************************************************************************)
(* A turn's mentions are bound to things that exist at the turn's time, or *)
(* given ids no one ever used (bind.py): by id, by name, by the one thing  *)
(* of its kind; what exists only later is reported and never taken.        *)
(* Binding writes nothing; the host writes the rows that were admitted.    *)
(*                                                                         *)
(* Words are sequences of tokens.  How a string is cut into tokens, which  *)
(* plurals are told apart and which suffixed ids follow an id are          *)
(* constants of the model.                                                 *)
(***************************************************************************)
EXTENDS Refer, Projector

CONSTANTS
  Slug,      \* [Ids -> Seq(tokens)]: an id read as words
  Tokens,    \* the tokens of a text or a kind
  Variants,  \* [Ids -> Seq(Ids)]: an id and its suffixed forms, in order
  Plurals,   \* <<plural, singular>> pairs of tokens
  Titles, Articles \* tokens

ASSUME BindConstants ==
  /\ DOMAIN Slug = Ids /\ DOMAIN Variants = Ids /\ Texts \subseteq DOMAIN Tokens
  /\ \A x \in Ids : Variants[x] # <<>> /\ Variants[x][1] = x /\ Slug[x] # <<>>

VARIABLE
  minted     \* what turns were given: <<turn, raw id, minted id>>

-----------------------------------------------------------------------------
(* Words (names.py).                                                       *)

\* name_key(): leading titles dropped while a token is left.
NameKey(words) ==
  LET titled == {n \in 1..(Len(words) - 1) : \A k \in 1..n : words[k] \in Titles}
  IN SubSeq(words, Max({0} \union titled) + 1, Len(words))

TokensMatch(a, b) == a = b \/ <<a, b>> \in Plurals \/ <<b, a>> \in Plurals
KeysMatch(a, b) == Len(a) = Len(b) /\ \A k \in DOMAIN a : TokensMatch(a[k], b[k])
HasRun(words, run) ==
  \E k \in 1..(Len(words) - Len(run) + 1) : KeysMatch(SubSeq(words, k, k + Len(run) - 1), run)

\* surface_matches()
Surfaces(key, name) ==
  \/ KeysMatch(name, key)
  \/ (\E k \in DOMAIN key : key[k] \notin Articles) /\ HasRun(name, key)

-----------------------------------------------------------------------------
(* What there is, and what it is called.                                   *)

Namespace(x) ==
  CASE x \in PersonIds -> "person" [] x \in PlaceIds -> "place" [] x \in EventIds -> "event"
    [] OTHER -> "obj"
Bindable(x) == x \in Ids \ EventIds
Compatible(x, y) == Bindable(x) /\ Bindable(y) /\ (x \in PersonIds <=> y \in PersonIds)

\* _first_valid(): the engine's own rows are no evidence of existence.
Bookkeeping == {"retracts", "source", "same_as", "learned_alias"}
Stated(frame) == {i \in 1..LogHead : Visible(i, LogHead) /\ log[i].frame = frame}
Evidence(x, frame) ==
  {i \in Stated(frame) : log[i].e \in ClosureNow(x) /\ log[i].attr \notin Bookkeeping}
Ever(x, frame) == Evidence(x, frame) # {}
Exists(x, turn) == \E i \in Evidence(x, turn.frame) : log[i].at <= turn.t

\* _names(), _kind(): as the rows say it, of all of time or of the turn's.
Names(x, rows) ==
  ({NameKey(Tokens[log[i].v]) :
      i \in {j \in rows : /\ log[j].attr \in {"name", "alias", "learned_alias"}
                          /\ log[j].v \in Texts /\ log[j].e \in ClosureNow(x)}}
     \union {NameKey(Slug[y]) : y \in ClosureNow(x)}) \ {<<>>}
IsOfKind(x, words, rows) ==
  \E f \in {FoldKey(rows, x, "kind")} : Concretely(f) /\ KeysMatch(Tokens[log[f.winner].v], words)

\* _candidates(): the scope, the roster, and whoever is named in a namespace.
Candidates(turn) ==
  LET q == Query(turn.frame, LogHead, turn.t)
      named == {log[i].e : i \in {j \in q.rows : log[j].attr \in {"name", "alias"} /\ log[j].e \in Ids}}
      listed == turn.include \union {x \in named : Namespace(x) \in turn.widen}
  IN {x \in Scope({r \in turn.scope : Exists(r, turn)}, q)
              \union {Now(x) : x \in {y \in listed : Exists(y, turn)}} : Bindable(x)}

\* _future(): whoever was described and is only later.
Described(x, frame) ==
  \E i \in Stated(frame) : /\ log[i].attr \in {"name", "alias", "kind"} /\ Bindable(log[i].e)
                           /\ Now(log[i].e) = x
Future(turn) == {x \in Things : Described(x, turn.frame) /\ ~Exists(x, turn)}

-----------------------------------------------------------------------------
(* One decision per raw id.                                                *)

Sides(row) == IF row.v \in Ids THEN <<row.e, row.v>> ELSE <<row.e>>
Raws(turn) == FlattenSeq([k \in DOMAIN turn.rows |-> Sides(turn.rows[k])])
Called(raw, turn) ==
  UNION {turn.rows[k].names : k \in {j \in DOMAIN turn.rows : turn.rows[j].e = raw}}
CalledBy(raw, turn) ==
  ({NameKey(Slug[raw])} \union {NameKey(Tokens[text]) : text \in Called(raw, turn)}) \ {<<>>}

\* _match(): by name, else by kind.
Match(raw, turn, pool, rows) ==
  LET fit == {x \in pool : Compatible(raw, x)}
      named == {x \in fit : \E key \in CalledBy(raw, turn), name \in Names(x, rows) : Surfaces(key, name)}
  IN IF named # {} THEN named ELSE {x \in fit : IsOfKind(x, Slug[raw], rows)}
MatchNow(raw, turn) ==
  Match(raw, turn, Candidates(turn), VisibleRows(turn.frame, LogHead, turn.t))
MatchLater(raw, turn) == Match(raw, turn, Future(turn), Stated(turn.frame))

Side(outcome, ids) == [outcome |-> outcome, ids |-> ids]
ById(raw, turn) ==
  IF ~Exists(raw, turn) THEN Side("future_only", {Now(raw)})
  ELSE Side(IF Now(raw) \in Candidates(turn) THEN "bound" ELSE "out_of_scope", {Now(raw)})
\* A wrong form: who is only later is not looked for by words.
ByWordsOfNow(raw, turn) ==
  IF MatchNow(raw, turn) # {}
  THEN Side(IF Cardinality(MatchNow(raw, turn)) = 1 THEN "bound" ELSE "ambiguous", MatchNow(raw, turn))
  ELSE Side(IF Namespace(raw) \in turn.mint THEN "minted" ELSE "unknown", {})

ByWords(raw, turn) ==
  IF MatchNow(raw, turn) # {}
  THEN Side(IF Cardinality(MatchNow(raw, turn)) = 1 THEN "bound" ELSE "ambiguous", MatchNow(raw, turn))
  ELSE IF MatchLater(raw, turn) # {} THEN Side("future_only", MatchLater(raw, turn))
  ELSE Side(IF Namespace(raw) \in turn.mint THEN "minted" ELSE "unknown", {})

Decide(raw, turn) ==
  IF raw \notin Ids THEN Side("malformed", {})
  ELSE IF ~Bindable(raw) THEN Side("kept", {raw})
  ELSE IF Ever(raw, turn.frame) THEN ById(raw, turn) ELSE ByWords(raw, turn)

\* _allocate(): clear of every id the log ever named and of this call's mints.
Taken == UNION {{log[i].e, log[i].v} : i \in 1..LogHead}
Clear(raw, taken) ==
  Variants[raw][Min({n \in DOMAIN Variants[raw] : Variants[raw][n] \notin taken})]
Mint(mints, raw) ==
  IF \E m \in mints : m[1] = raw THEN mints
  ELSE mints \union {<<raw, Clear(raw, Taken \union {m[2] : m \in mints})>>}
Minting(turn) == SelectSeq(Raws(turn), LAMBDA raw : Decide(raw, turn).outcome = "minted")
Mints(turn) == FoldLeft(Mint, {}, Minting(turn))

\* A bound: the turns the model has suffixed ids enough for.
Turns ==
  {turn \in world.turns : \A raw \in Range(Minting(turn)) :
     Cardinality(Range(Minting(turn))) <= Cardinality(Range(Variants[raw]) \ Taken)}

-----------------------------------------------------------------------------
(* A turn.                                                                 *)

\* A row is admitted when its sides are, and then names what they resolved to.
Resolved(raw, turn, mints) ==
  Decide(raw, turn).ids \union {m[2] : m \in {n \in mints : n[1] = raw}}
IsAdmitted(row, turn) ==
  \A k \in DOMAIN Sides(row) : Decide(Sides(row)[k], turn).outcome \in {"bound", "minted", "kept"}
Rewritten(row, turn, mints) ==
  Row(CHOOSE x \in Resolved(row.e, turn, mints) : TRUE, row.attr,
      IF row.v \in Ids THEN CHOOSE x \in Resolved(row.v, turn, mints) : TRUE ELSE row.v,
      turn.t, turn.frame)
Admitted(turn) == SelectSeq(turn.rows, LAMBDA row : IsAdmitted(row, turn))
Bound(turn) == [k \in DOMAIN Admitted(turn) |-> Rewritten(Admitted(turn)[k], turn, Mints(turn))]

\* The host binds a turn and writes what was admitted.
Play(turn) ==
  \E rows \in {Bound(turn)} : \E mints \in {Mints(turn)} :
    /\ rows # <<>> /\ LogHead + Len(rows) <= world.max
    /\ log' = log \o [k \in DOMAIN rows |-> WithRep(rows[k], Rep(LogHead))]
    /\ minted' = minted \union {<<turn, m[1], m[2]>> :
                                  m \in {n \in mints : \E k \in DOMAIN rows : n[2] \in {rows[k].e, rows[k].v}}}
    /\ UNCHANGED <<hard, world, taught>>

BindInit == ReferInit /\ minted = {}
BindNext ==
  \/ ReferNext /\ UNCHANGED minted
  \/ \E turn \in Turns : Play(turn)
BindSpec == BindInit /\ [][BindNext]_<<log, hard, world, taught, minted>>

-----------------------------------------------------------------------------
(* What bind promises.                                                     *)

\* What a turn is bound to exists at its time, is the one id of its thing, and binds
\* to itself: bind's own output, bound again, is unchanged (PLAY-BIND-V1).
BoundIsThere ==
  \A turn \in world.turns : \A raw \in Range(Raws(turn)) :
    \A side \in {Decide(raw, turn)} :
      /\ side.outcome \in {"bound", "ambiguous"} => \A x \in side.ids :
           Now(x) = x /\ Exists(x, turn) /\ Decide(x, turn) = Side("bound", {x})
      /\ side.outcome = "future_only" => \A x \in side.ids :
           ~Exists(x, turn) /\ Decide(x, turn) = Side("future_only", {x})

\* A minted id is one nothing ever had, and two of a turn are two.
MintsAreNew ==
  \A turn \in Turns : \A mints \in {Mints(turn)} : \A m \in mints :
    /\ \A i \in 1..LogHead : m[2] \notin {log[i].e, log[i].v}
    /\ \A n \in mints : m[2] = n[2] => m = n

\* What was minted for a word is met again, not minted a second time: while the turn's
\* scope holds it, and, where it was described, from before its time too.  (An id that
\* is all titles is not met by its words once it is suffixed: king_2 reads as 2.)
MetAgain ==
  \A m \in minted : \A turn \in {t \in world.turns : t.frame = m[1].frame} :
    /\ m[2] \in Range(Raws(turn))
    /\ \E k \in DOMAIN Slug[m[2]] : Slug[m[2]][k] \notin Titles \union Articles
    /\ Now(m[3]) \in Candidates(turn) \union Future(turn)
    => Decide(m[2], turn).outcome # "minted"

\* What exists for bind by a time is what a read of that time or an earlier one serves:
\* neither a word learned for a thing nor any row about rows brings it into being.
ExistsIfServed ==
  \A turn \in world.turns : \A x \in {y \in Things : Bindable(y)} :
    Exists(x, turn)
      <=> \E t \in 0..turn.t : Winners(x, Query(turn.frame, LogHead, t)) # {}

\* What bind decides: an id of a thing that is there, a new one, or neither.
BindHolds == ExistsIfServed /\ BoundIsThere /\ MintsAreNew /\ MetAgain

\* Words are learned and bound for good: a lesson answers and is no name, a turn's
\* output binds to itself, and nothing is given twice.
WordsHold == ReferHolds /\ BindHolds
=============================================================================
