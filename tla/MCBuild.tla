-------------------------------- MODULE MCBuild --------------------------------
(***************************************************************************)
(* Six sentences in two chapters: a dog called rex, a captain who first    *)
(* comes in as a stranger, a lamp told of in both chapters, an anna who is *)
(* a person here and a ship there.                                         *)
(***************************************************************************)
EXTENDS Build

MCChapter == <<1, 1, 1, 1, 2, 2>>
MCText == <<{"stranger"}, {"rex", "captain"}, {"rex"}, {"stranger", "captain"}, {"rex"}, {"captain"}>>
MCBreaks == {1, 5}
MCFits == {<<n, n>> : n \in {"rex", "captain", "stranger", "anna", "lamp"}}

Entry(type, name, anchor, fixture) ==
  [type |-> type, names |-> <<name>>, anchor |-> anchor, fixture |-> fixture]
Persona(of, name, intro, reveal) == [of |-> of, name |-> name, intro |-> intro, reveal |-> reveal]
Cast(personas, namesakes) ==
  [entries |-> <<Entry("person", "captain", 2, FALSE), Entry("animal", "rex", 3, FALSE),
                 Entry("person", "rex", 5, FALSE)>>,
   personas |-> personas, namesakes |-> namesakes]
MCManifests ==
  {Cast(<<Persona(1, "stranger", 1, 4)>>, {{2, 3}}),
   Cast(<<Persona(1, "stranger", 4, 4)>>, {}), Cast(<<Persona(1, "rex", 1, 4)>>, {})}

Captain == <<"person", "captain", 1>>
Dog == <<"person", "rex", 1>>
Rex == <<"person", "rex", 2>>
Stranger == <<"person", "stranger", 1>>
New(n) == <<"new", "", n>>
Letter == <<"doc", "letter", 1>>

Line(cites, ids) ==
  [ids |-> ids, source |-> NoId, cause |-> NoId, cites |-> cites, attribute |-> "in",
   t |-> FALSE, vf |-> {}]
Said(cites, ids, source) == [Line(cites, ids) EXCEPT !.source = source, !.attribute = "mood"]
Caused(cites, ids, cause) == [Line(cites, ids) EXCEPT !.cause = cause, !.attribute = "mood"]
Timeless(cites, ids) == [Line(cites, ids) EXCEPT !.t = TRUE]
At(n, cites, ids) == [Line(cites, ids) EXCEPT !.vf = {n}]
Fixed(cites, ids, attribute) == [Line(cites, ids) EXCEPT !.attribute = attribute]
Escape(n, name, type) ==
  [handle |-> New(n), pick |-> FALSE, name |-> name, type |-> type, among |-> {}, choice |-> NoId]
Pick(n, name, among, choice) ==
  [handle |-> New(n), pick |-> TRUE, name |-> name, type |-> "", among |-> among, choice |-> choice]
Out(lines, decls) == [lines |-> lines, decls |-> decls]

MCAnswers ==
  <<{Out({Line(1, {Captain}), Line(2, {Captain, New(0)}), Said(1, {Stranger}, Letter),
          Timeless(1, {Stranger}), Line(3, {New(2), Dog})},
         {Escape(0, "lamp", "object"), Escape(1, "anna", "person"),
          Pick(2, "he", {Captain, Dog}, Captain)}),
     Out({Line(2, {Dog, New(3)})}, {}),
     Out({Line(3, {New(0)}), Fixed(1, {Stranger}, "fixed")}, {Pick(0, "he", {Captain}, Captain)})},
    {}, {},
    {Out({At(1, 1, {Stranger}), Line(2, {Captain}), Fixed(1, {Stranger, New(7)}, "fixture"),
          Line(1, {New(1)}), Said(1, {Dog}, Captain)}, {Escape(1, "anna", "sailor")})},
    {Out({Caused(1, {New(0), Rex}, Rex), Line(2, {New(1), New(2)}), Said(2, {Rex}, New(1))},
         {Escape(0, "lamp", "object"), Escape(1, "anna", "object"), Escape(2, "anna", "person")})},
    {}>>
=============================================================================
