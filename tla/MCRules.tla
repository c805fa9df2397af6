------------------------------- MODULE MCRules -------------------------------
(* Every catalogue of up to four documents, every start; and small inputs of *)
(* every pure function, the damaged ones the stores may hold included.       *)
EXTENDS Rules

CONSTANTS d1, d2, d3, d4

\* Which order does not matter: every renaming of the ids is a start state too.
FileOrder == SetToSeq(Ids)

UpTo(set, n) == UNION {[1..k -> set] : k \in 0..n}

Of(kind, inputs) == {[kind |-> kind] @@ input : input \in inputs}

Texts4 == UpTo({"a", "b"}, 4)

DiffCases == [kind : {"diff"}, old : Texts4, new : Texts4]

DropCases == [kind : {"drop"}, order : {<<1, 2, 3, 4>>}, dragged : 1..4, target : 1..4,
              before : BOOLEAN]

Items == [type : {"list"}, depth : 0..2, style : {"ordered", "unordered"}]
         \cup {[type |-> "text", depth |-> 0, style |-> "unordered"]}

ListCases ==
  {[kind |-> "lists",
    blocks |-> [k \in DOMAIN items |-> items[k] @@ [id |-> k]]] : items \in UpTo(Items, 4)}

Axes(ids_) == {[k \in DOMAIN ids_ |-> [id |-> ids_[k], deleted |-> k \in gone]] :
                 gone \in SUBSET DOMAIN ids_}

Fragment == [row : {"r1", "r2"}, column : {"c"}, text : {<<>>, <<"a", "b">>}]

Tables == [rows : Axes(<<"r1">>) \cup Axes(<<"r1", "r2">>), columns : Axes(<<"c">>),
           cells : UpTo(Fragment, 3)]

TableCases == [kind : {"table"}, table : Tables, values : {{<<>>, <<"x">>}}, new : {"new"}]

\* Two blocks, one of no height or with a gap before the next, or a third.
Box(k, top, height) == [id |-> k, top |-> top, height |-> height, left |-> 1, width |-> 3]

Layouts == UNION {{<<Box(1, 2, h), Box(2, 2 + h + gap, l)>>,
                   <<Box(1, 0, h), Box(2, h + gap, l), Box(3, h + gap + l, 2)>>} :
                  h \in {0, 3, 7}, gap \in {0, 2}, l \in {1, 5}}

Strokes == UpTo([block : 1..4, points : {<<[ratio |-> 1, x |-> 0]>>,
                                         <<[ratio |-> 3, x |-> 2], [ratio |-> 0, x |-> 4]>>}], 3)

PlaceCases == [kind : {"places"}, boxes : Layouts, segments : Strokes]

Presences == [id : {"m1", "m2", NoParent}, document : {d1, d2, NoParent}]

MemberCases == [kind : {"members"}, presences : UpTo(Presences, 3), known : {<<"m1", "m2", "m3">>},
                me : {"m1"}, document : {d1, NoParent}]

Held == {<<>>} \cup {<<[id |-> "b1", file |-> f]>> : f \in {"f1", NoParent}}
        \cup {<<[id |-> "b1", file |-> f], [id |-> "b2", file |-> g]>> : f, g \in {"f1", "f2"}}

FileRows == {<<[id |-> "f1", origin |-> o, at |-> a], [id |-> "f2", origin |-> "document", at |-> 2]>> :
               o \in {"document", "chat"}, a \in 1..3}

FileCases == [kind : {"files"}, live : {<<d1, d2>>},
              roots : [{d1, d2} -> Held] \cup [{d2} -> Held], files : FileRows,
              messages : {<<>>, <<[id |-> "c1", file |-> NoParent, at |-> 1],
                                  [id |-> "c2", file |-> "f3", at |-> 2]>>}]

Seen == [block : {"b1", "b2", NoParent}, updatedAt : {1, 3}]

OccupantCases ==
  {[kind |-> "occupants", now |-> 4, ttl |-> 1,
    others |-> [k \in DOMAIN seen |-> seen[k] @@ [nickname |-> k]]] : seen \in UpTo(Seen, 3)}

\* A URL with the brackets and the punctuation of its sentence around it.
TextCases == [kind : {"text"}, text : UpTo({"https://", "a", " ", ".", "(", ")"}, 5)]

Said == {<<"a">>, <<"https://", "a">>, <<"https://", "a", " ", "https://", "(", "a", ")", ".">>}

LinkCases ==
  {[kind |-> "links", messages |-> [k \in DOMAIN said |-> said[k] @@ [id |-> k]]] :
     said \in UpTo([text : Said, link : {"d1", NoParent}, at : 1..2], 2)}

\* Letters g and o, the final k that is a g once a vowel follows, and the
\* final x that is a k and a g.
Jamo == {"g", "o", "k", "x"}
Splits == [k |-> <<"g">>, x |-> <<"k", "g">>]

Words == {{<<"g", "o">>}, {<<"o", "k">>, <<"g">>}, {<<"g", "o", "g", "o">>},
          {<<"o", "k", "g", "o">>}, {<<"o", "x">>}}

MenuCases ==
  {[kind |-> "menu", splits |-> Splits, letters |-> Jamo, query |-> q,
    items |-> [k \in 1..2 |-> [id |-> k, names |-> n[k], keywords |-> w[k]]]] :
     q \in UpTo(Jamo, 2), n, w \in [1..2 -> Words]}

HighlightCases == [kind : {"highlight"}, length : 0..4,
                   view : [scrollTop : 0..4, height : 1..3], row : [top : 0..6, height : 1..4]]

Markers == ("#" :> "heading") @@ ("-" :> "list") @@ ("[" :> "checklist")

PasteCases == [kind : {"paste"}, text : UpTo({"CR", "LF", "#", "-", "a"}, 5), types : {Markers}]

\* What a list or a table may have lost, and one content for every other type.
Full == [text |-> <<"a">>, level |-> 2, style |-> "ordered", depth |-> 1, checked |-> TRUE,
         file |-> "f", target |-> "t", table |-> Missing]

Bare == [text |-> Missing, level |-> Missing, style |-> Missing, depth |-> Missing,
         checked |-> Missing, file |-> Missing, target |-> Missing, table |-> Missing]

Fragmented == [rows |-> <<[id |-> "r1", deleted |-> TRUE], [id |-> "r2", deleted |-> TRUE]>>,
               columns |-> <<[id |-> "c", deleted |-> FALSE], [id |-> "c", deleted |-> FALSE]>>,
               cells |-> <<[row |-> "r1", column |-> "c", text |-> <<"a">>],
                           [row |-> "r2", column |-> "c", text |-> <<"b">>],
                           [row |-> "r1", column |-> "c", text |-> <<"d">>]>>]

Contents == {Full, Bare} \cup {[Full EXCEPT !.depth = d] : d \in {-1, 9}}
            \cup {[Full EXCEPT !.table = Fragmented]}

Types == {"text", "heading", "list", "checklist", "divider", "file", "doc-link", "table", "other"}

Stored == {Null} \cup [id : {"b1", "b2", Missing}, type : Types, content : Contents]

SnapshotCases == [kind : {"snapshot"}, blocks : UpTo(Stored, 2)]

Inputs ==
  UNION {DiffCases, DropCases, ListCases, TableCases, PlaceCases, MemberCases, FileCases,
         OccupantCases, SnapshotCases, TextCases, LinkCases, MenuCases, HighlightCases,
         PasteCases}
=============================================================================
