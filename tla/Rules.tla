-------------------------------- MODULE Rules --------------------------------
(***************************************************************************)
(* The pure functions of lib/, each against a definition of what it should *)
(* return that is not its loop.  A behavior is one input: a catalogue,     *)
(* which subtreeIds walks pass by pass, or one of Cases.                   *)
(***************************************************************************)
EXTENDS SubtreeWalk

CONSTANTS
  Cases,   \* the inputs, each with the `kind' of function it is for
  Null, Missing, MAX_LIST_DEPTH, \* see Snapshots
  Steps    \* what a ratio of a block is counted in

VARIABLE case

NoCase == [kind |-> "walk"]

S == INSTANCE Snapshots
B == INSTANCE BlockRules
A == INSTANCE Anchors
L == INSTANCE Listings WITH None <- NoParent

RulesInit ==
  \/ Init /\ case = NoCase
  \/ /\ case \in Cases
     /\ \E d \in Ids : ids = <<d>> /\ d = Order[1]
                       /\ documents = [x \in {d} |-> [parent |-> NoParent]]
     /\ i = 2

RulesNext == Pass /\ UNCHANGED case

RulesSpec ==
  RulesInit /\ [][RulesNext]_<<vars, case>> /\ WF_<<vars, case>>(RulesNext)

-----------------------------------------------------------------------------
(* Text and order *)

Replaced(e) == e.to - e.from + Len(e.value)

\* The edit of diffRange makes the new text, and none that does is smaller.
DiffIsLeast(old, new) ==
  LET e == S!diffRange(old, new)
  IN /\ S!Splice(old, e) = new
     /\ \A from \in 0..Len(old) : \A to \in from..Len(old) :
          (/\ Len(new) + (to - from) >= Len(old)
           /\ S!Upto(new, from) = S!Upto(old, from)
           /\ S!After(new, Len(new) - (Len(old) - to)) = S!After(old, to)
           /\ from <= Len(new) - (Len(old) - to))
          => to - from >= e.to - e.from

Beside(order, dragged, target, before) ==
  LET rest == SelectSeq(order, LAMBDA x : x # dragged)
      at == SelectInSeq(rest, LAMBDA x : x = target)
  IN InsertAt(rest, IF before THEN at ELSE at + 1, dragged)

\* A drop goes right beside its target, and is one exactly when that moves it.
DropsBeside(order, dragged, target, before) ==
  LET after == B!dropDestination(order, dragged, target, before, -1)
      rest == SelectSeq(order, LAMBDA x : x # dragged)
      moved == IF dragged = target THEN order ELSE Beside(order, dragged, target, before)
  IN IF after = -1 THEN moved = order
     ELSE /\ moved # order
          /\ moved = InsertAt(rest, SelectInSeq(rest, LAMBDA x : x = after) + 1, dragged)

\* An item's number: one more than the ordered items of its depth above it,
\* back to the last block that ends their run.
NumberOf(blocks, k) ==
  LET Ends(j) == \/ blocks[j].type # "list"
                 \/ blocks[j].depth < blocks[k].depth
                 \/ blocks[j].depth = blocks[k].depth /\ blocks[j].style # "ordered"
      start == Max({0} \cup {j \in 1..(k - 1) : Ends(j)})
  IN IF blocks[k].type # "list" THEN 0
     ELSE IF blocks[k].style # "ordered" THEN 0
     ELSE 1 + Cardinality({j \in (start + 1)..(k - 1) : blocks[j].depth = blocks[k].depth})

\* Indenting goes one deeper, never more than one below the item above, and
\* whatever was indented can come back out.
IndentsByOne(blocks, k) ==
  LET To(bs, direction) ==
        B!indentedDepth(bs, bs[k].id, direction, MAX_LIST_DEPTH, -1)
      deeper == To(blocks, "in")
      above == IF k > 1 /\ blocks[k - 1].type = "list" THEN blocks[k - 1].depth ELSE -1
  IN IF blocks[k].type # "list" THEN deeper = -1 /\ To(blocks, "out") = -1
     ELSE IF deeper = -1
       THEN blocks[k].depth >= above + 1 \/ blocks[k].depth >= MAX_LIST_DEPTH
       ELSE /\ deeper = blocks[k].depth + 1
            /\ deeper <= above + 1 /\ deeper <= MAX_LIST_DEPTH
            /\ To([blocks EXCEPT ![k].depth = deeper], "out") = blocks[k].depth

ListsAgree(blocks) ==
  \A k \in DOMAIN blocks :
    B!orderedListNumbers(blocks)[k] = NumberOf(blocks, k) /\ IndentsByOne(blocks, k)

-----------------------------------------------------------------------------
(* Tables *)

Shown(table) == S!readTable(table)

Texts(table, keys) == [key \in keys |-> S!CellText(table.cells, key[1], key[2])]

\* However a cell is fragmented, an edit of what it shows is that edit, and
\* touches no other cell.
EditsWhatIsShown(table, row, column, e) ==
  LET after == Shown(S!editTableCell(table, row, column, e.from, e.to, e.value))
      key == <<row, column>>
  IN IF key \notin DOMAIN Shown(table).cells THEN after = Shown(table)
     ELSE after = [Shown(table) EXCEPT !.cells[key] = S!Splice(@, e)]

\* A row is added beside one that is shown, with empty cells, and a shown one
\* is deleted; nothing else changes, and the last one stays.
AxesChangeByOne(table, axis, old, before, new) ==
  LET shown == Shown(table)
      at == SelectInSeq(shown[axis], LAMBDA x : x = old)
      more == S!insertTableAxis(table, axis, old, before, new)
      less == Shown(S!deleteTableAxis(table, axis, old))
      Kept(cells) == \A key \in DOMAIN cells \cap DOMAIN shown.cells :
                       cells[key] = shown.cells[key]
  IN /\ IF at = 0 THEN more = S!Refuses
        ELSE /\ Shown(more)[axis] = InsertAt(shown[axis], IF before THEN at ELSE at + 1, new)
             /\ Shown(more)[S!Other(axis)] = shown[S!Other(axis)]
             /\ Kept(Shown(more).cells)
             /\ \A key \in DOMAIN Shown(more).cells \ DOMAIN shown.cells :
                  Shown(more).cells[key] = <<>>
     /\ less[axis] = IF Len(shown[axis]) = 1 THEN shown[axis]
                     ELSE SelectSeq(shown[axis], LAMBDA x : x # old)
     /\ Kept(less.cells)

\* Patches made from the table as it is after the edits bring what the cells
\* showed before them to what they show now.
PatchesFollow(before, edits) ==
  LET Apply(cells, e) == [cells EXCEPT ![e.index].text = S!Splice(@, e)]
      after == FoldLeft(Apply, before, edits)
      keys == {<<before[k].row, before[k].column>> : k \in DOMAIN before}
      Patch(texts, p) == [texts EXCEPT ![<<p.row, p.column>>] = S!Splice(@, p.patch)]
  IN FoldLeft(Patch, Texts([cells |-> before], keys), S!tableCellPatches(after, edits))
       = Texts([cells |-> after], keys)

\* The edits of one text by one transaction, values among `values'.
EditsOf(cells, values) ==
  UNION {{[index |-> k, from |-> r[1], to |-> r[2], value |-> v] : v \in values,
          r \in {p \in (0..Len(cells[k].text)) \X (0..Len(cells[k].text)) : p[1] <= p[2]}}
         : k \in DOMAIN cells}

TablesAgree(table, values, new) ==
  /\ \A row \in {a.id : a \in Range(table.rows)}, column \in {a.id : a \in Range(table.columns)} :
       /\ \A from, to \in 0..Len(S!CellText(table.cells, row, column)), v \in values :
            from <= to => EditsWhatIsShown(table, row, column, [from |-> from, to |-> to, value |-> v])
       /\ \A before \in BOOLEAN :
            /\ AxesChangeByOne(table, "rows", row, before, new)
            /\ AxesChangeByOne(table, "columns", column, before, new)
  /\ \A e \in EditsOf(table.cells, values) :
       \A f \in EditsOf([table.cells EXCEPT ![e.index].text = S!Splice(@, e)], values) :
         PatchesFollow(table.cells, <<e, f>>)

-----------------------------------------------------------------------------
(* Places *)

\* The place of the document nearest to y that is content, from above.
Content(boxes, y) ==
  LET reached == {k \in DOMAIN boxes : y < A!Bottom(boxes[k])}
  IN IF reached = {} THEN A!Bottom(Last(boxes)) ELSE Max({y, boxes[Min(reached)].top})

Distance(a, b) == IF a <= b THEN b - a ELSE a - b

\* A place comes back within half a step of its block, and never before an
\* earlier one.
ComesBack(boxes, y) ==
  LET Back(place) == A!scrollTopFor(boxes, A!anchorAt(boxes, place, Steps), Steps)
      box == boxes[A!BoxOf(boxes, A!anchorAt(boxes, y, Steps).block)]
  IN /\ 2 * Distance(Back(y), Content(boxes, y) * Steps) <= box.height
     /\ Back(y) <= Back(y + 1)

\* Every point on a block that is there is drawn, in order, and a run ends
\* where a block is gone and nowhere else.
BreaksAtGoneBlocks(boxes, segments) ==
  LET runs == A!markPixelSegments(boxes, segments, Steps)
      There(k) == A!BoxOf(boxes, segments[k].block) # 0
      Point(k, n) == A!inkPixelsFor(boxes,
        [block |-> segments[k].block, ratio |-> segments[k].points[n].ratio,
         x |-> segments[k].points[n].x], Steps)
      Pixels(k) == IF There(k) THEN [n \in DOMAIN segments[k].points |-> Point(k, n)] ELSE <<>>
  IN /\ FlattenSeq(runs) = FlattenSeq([k \in DOMAIN segments |-> Pixels(k)])
     /\ <<>> \notin Range(runs)
     /\ Len(runs) = Cardinality({k \in DOMAIN segments :
                                   There(k) /\ (k = 1 \/ ~There(k - 1))})

PlacesAgree(boxes, segments) ==
  /\ \A y \in -1..(A!Bottom(Last(boxes)) + 1) : ComesBack(boxes, y)
  /\ BreaksAtGoneBlocks(boxes, segments)

-----------------------------------------------------------------------------
(* Lists *)

Listed == [k \in DOMAIN Order |-> [id |-> Order[k],
             parent |-> IF Order[k] \in DOMAIN documents THEN documents[Order[k]].parent
                        ELSE NoParent]]

Catalogue == SelectSeq(Listed, LAMBDA d : d.id \in DOMAIN documents)

Root(d) == documents[d].parent \notin DOMAIN documents

\* Every document under a root is drawn, once, right below its parent's other
\* descendants, unless something above it is collapsed; one on a cycle is not.
TreeIsDrawn(collapsed) ==
  LET rows == L!treeRows(Catalogue, collapsed)
      Below(d, a) == d # a /\ d \in subtreeIds(documents, a)
      drawn == {d \in DOMAIN documents :
                  /\ Root(d) \/ \E r \in DOMAIN documents : Root(r) /\ Below(d, r)
                  /\ ~ \E a \in collapsed \cap DOMAIN documents : Below(d, a)}
      Above(k) == Max({j \in 1..(k - 1) : rows[j].depth < rows[k].depth})
  IN /\ {rows[k].id : k \in DOMAIN rows} = drawn /\ Len(rows) = Cardinality(drawn)
     /\ \A k \in DOMAIN rows :
          /\ rows[k].hasChildren <=> childrenOf(documents, rows[k].id) # {}
          /\ IF rows[k].depth = 0 THEN Root(rows[k].id)
             ELSE /\ rows[Above(k)].id = documents[rows[k].id].parent
                  /\ rows[Above(k)].depth = rows[k].depth - 1

\* Nobody is listed twice, nobody who left as present, and a member is missing
\* from the header and the tree's dots only while on a page with no document.
EverybodyIsFound(presences, known, me, document) ==
  LET connected == L!rosterFrom(presences)
      header == L!withOffline(connected, known, me, document)
      dots == L!occupantsByDocument(connected, me)
      online == {p.id : p \in {q \in Range(presences) : q.id # NoParent}}
      Last1(m) == presences[Max({k \in DOMAIN presences : presences[k].id = m})]
  IN /\ IsInjective([k \in DOMAIN header |-> header[k].id])
     /\ IsInjective([k \in DOMAIN connected |-> connected[k].id])
     /\ \A k \in DOMAIN header : header[k].online <=> header[k].id \in online
     /\ me \in online => header[1].id = me
     /\ \A d \in DOMAIN dots : \A p \in Range(dots[d]) : p = Last1(p.id) /\ p.document = d
     /\ \A m \in Range(known) \cup online :
          \/ m \in {header[k].id : k \in DOMAIN header}
          \/ \E d \in DOMAIN dots : m \in {p.id : p \in Range(dots[d])}
          \/ Last1(m).document = NoParent

\* A file is listed for the first live block that holds it, and only while one
\* does; a chat's file always; newest first.
FilesAreListed(live, roots, files, messages) ==
  LET list == L!workspaceFiles(live, roots, files, messages)
      Held(f, d) == \E b \in Range(roots[d]) : b.file = f
      holding(f) == {k \in DOMAIN live : live[k] \in DOMAIN roots /\ Held(f, live[k])}
      shown == {f \in Range(files) : f.origin = "document" /\ holding(f.id) # {}}
      sent == {m \in Range(messages) : m.file # NoParent}
  IN /\ Len(list) = Cardinality(shown) + Cardinality(sent)
     /\ \A m \in sent : \E l \in Range(list) : l.file = m.file /\ l.source = m.id
     /\ \A f \in shown : \E l \in Range(list) :
          /\ l.file = f.id /\ l.at = f.at
          /\ l.source.document = live[Min(holding(f.id))]
          /\ [id |-> l.source.block, file |-> f.id] \in Range(roots[l.source.document])
     /\ \A j, k \in DOMAIN list : j < k => list[j].at >= list[k].at

\* A block is somebody's while the first of those last seen there is fresh.
OccupantsAreFresh(others, now, ttl) ==
  LET map == L!occupantsByBlock(others, now, ttl)
      Fresh(p) == p.block # NoParent /\ p.updatedAt + ttl >= now
  IN /\ DOMAIN map = {p.block : p \in {q \in Range(others) : Fresh(q)}}
     /\ \A b \in DOMAIN map : \E k \in DOMAIN others :
          /\ others[k].nickname = map[b] /\ others[k].block = b /\ Fresh(others[k])
          /\ \A j \in 1..(k - 1) : others[j].block = b => ~Fresh(others[j])

\* Looking again matters exactly when somebody else is somewhere.
RechecksTell(others, later, now, ttl) ==
  LET map == L!occupantsByBlock(others, now, ttl)
      next == L!occupantsByBlock(others, later, ttl)
  IN /\ L!sameOccupants(map, next) <=> map = next
     /\ L!sameOccupants(next, map) <=> map = next

-----------------------------------------------------------------------------
(* Links, menus and pastes *)

\* No character of a message is lost, every URL is cut out of it up to the
\* punctuation of its sentence, and none keeps a bracket it did not open.
UrlsAreCut(text) ==
  LET parts == L!splitUrls(text)
      ofs == [k \in DOMAIN parts |-> parts[k].of]
      before(k) == Len(FlattenSeq(SubSeq(ofs, 1, k - 1)))
      Loose == L!Punctuation \cup {")"}
      IsUrl(k) == parts[k].kind = "url"
  IN /\ FlattenSeq(ofs) = text /\ <<>> \notin Range(ofs)
     /\ \A k \in 1..(Len(parts) - 1) : IsUrl(k) \/ IsUrl(k + 1)
     /\ \A k \in {j \in DOMAIN parts : IsUrl(j)} :
          LET from == before(k) + 1 to == before(k + 1) url == ofs[k]
          IN /\ url[1] = L!Scheme /\ " " \notin Range(url)
             /\ from < Len(text) /\ text[from + 1] # " "
             /\ Last(url) \notin L!Punctuation
             /\ Last(url) = ")" => L!CountOf(url, ")") <= L!CountOf(url, "(")
             /\ (to < Len(text) /\ text[to + 1] = ")") =>
                  L!CountOf(url, ")") >= L!CountOf(url, "(")
             /\ \A j \in (to + 1)..Len(text) :
                  text[j] \in Loose \/ \E i_ \in (to + 1)..j : text[i_] = " "
     /\ \A j \in 1..(Len(text) - 1) : (text[j] = L!Scheme /\ text[j + 1] # " ") =>
          \E k \in DOMAIN parts : IsUrl(k) /\ j \in (before(k) + 1)..before(k + 1)

\* Every link and URL of the conversation is listed, newest first and those of
\* one moment as they were sent.
LinksAreListed(messages) ==
  LET list == L!sharedLinks(messages)
      Urls(m) == SelectSeq(L!splitUrls(m.text), LAMBDA p : p.kind = "url")
      Sent(m) == (IF m.link = NoParent THEN <<>> ELSE <<m.link>>)
                 \o [k \in DOMAIN Urls(m) |-> Urls(m)[k].of]
      Place(id_) == SelectInSeq(messages, LAMBDA m : m.id = id_)
  IN /\ \A m \in Range(messages) :
          LET own == SelectSeq(list, LAMBDA l : l.message = m.id)
          IN [k \in DOMAIN own |-> own[k].to] = Sent(m)
     /\ \A j, k \in DOMAIN list : j < k =>
          \/ list[j].at > list[k].at
          \/ list[j].at = list[k].at /\ Place(list[j].message) <= Place(list[k].message)

\* Typing on never brings an item back, an item is there at every stage of
\* composing one of its words, and what the query names is highlighted first.
MenuNarrows(items, query, splits, letters) ==
  LET Menu(q) == Range(L!slashMenuItems(items, q, splits))
      Begins(words, q) == \E w \in words, n \in L!needles(q, splits) : IsPrefix(n, w)
      menu == L!slashMenuItems(items, query, splits)
  IN /\ IsInjective(menu)
     /\ \A c \in letters : Menu(Append(query, c)) \subseteq Menu(query)
     /\ \A item \in Range(items) : \A w \in item.names \cup item.keywords :
          /\ IsPrefix(query, w) => item \in Menu(query)
          /\ \A final \in DOMAIN splits :
               IsPrefix(query \o splits[final], w) => item \in Menu(Append(query, final))
     /\ (\E item \in Range(items) : query # <<>> /\ Begins(item.names, query))
          => Begins(menu[1].names, query)

\* The arrows go round the menu, and one scroll shows the row, or its first
\* line when it is taller than the menu.
HighlightIsSeen(length, view, row) ==
  LET Move(k, delta) == L!moveHighlight(k, delta, length)
      settled == [view EXCEPT !.scrollTop = L!scrollTopForHighlight(view, row)]
      end == settled.scrollTop + view.height
  IN /\ \A k \in 0..(length - 1) : /\ Move(k, 1) \in 0..(length - 1)
                                   /\ Move(Move(k, 1), -1) = k /\ Move(Move(k, -1), 1) = k
     /\ L!scrollTopForHighlight(settled, row) = settled.scrollTop
     /\ settled.scrollTop <= row.top /\ row.top < end
     /\ row.height <= view.height => row.top + row.height <= end

\* Every line of a paste becomes a block, what typing its marker makes, and
\* nothing of the text is lost but a newline at its end.
PastesEveryLine(text, types) ==
  LET blocks == L!parsePaste(text, types)
      Marker(type) == CHOOSE c \in DOMAIN types : types[c] = type
      Raw(b) == IF b.type = "text" THEN b.text ELSE <<Marker(b.type)>> \o b.text
      pasted == FlattenSeq([k \in DOMAIN blocks |->
                              (IF k = 1 THEN <<>> ELSE <<"LF">>) \o Raw(blocks[k])])
      One(k) == text[k] = "LF" /\ k > 1 /\ text[k - 1] = "CR"
      unix == FlattenSeq([k \in DOMAIN text |->
                 IF One(k) THEN <<>> ELSE IF text[k] = "CR" THEN <<"LF">> ELSE <<text[k]>>])
  IN /\ Len(blocks) >= 1
     /\ pasted = IF unix # <<>> /\ Last(unix) = "LF" THEN Front(unix) ELSE unix
     /\ \A b \in Range(blocks) : /\ "LF" \notin Range(b.text)
                                 /\ b.type = "text" => b.text = <<>> \/ b.text[1] \notin DOMAIN types

-----------------------------------------------------------------------------
(* Properties *)

\* Each function returns what its definition by properties says: the least
\* edit, the drop beside its target, the numbers of nested lists, the edits and
\* patches of fragmented table cells (table.ts), the place that comes back from
\* its anchor (anchor.ts), the lists drawn from several stores, the links of a
\* text (links.ts), the items of a menu (slash-menu.ts), the blocks of a paste
\* (paste.ts).
RulesAgree ==
  CASE case.kind = "walk" -> (i = 1 /\ id = Catalogue[1].id) =>
         \A collapsed \in SUBSET DOMAIN documents : TreeIsDrawn(collapsed)
    [] case.kind = "diff" -> DiffIsLeast(case.old, case.new)
    [] case.kind = "drop" -> DropsBeside(case.order, case.dragged, case.target, case.before)
    [] case.kind = "lists" -> ListsAgree(case.blocks)
    [] case.kind = "table" -> TablesAgree(case.table, case.values, case.new)
    [] case.kind = "places" -> PlacesAgree(case.boxes, case.segments)
    [] case.kind = "members" ->
         EverybodyIsFound(case.presences, case.known, case.me, case.document)
    [] case.kind = "files" -> FilesAreListed(case.live, case.roots, case.files, case.messages)
    [] case.kind = "occupants" ->
         /\ OccupantsAreFresh(case.others, case.now, case.ttl)
         /\ \A later \in case.now..(case.now + 2) :
              RechecksTell(case.others, later, case.now, case.ttl)
    [] case.kind = "text" -> UrlsAreCut(case.text)
    [] case.kind = "links" -> LinksAreListed(case.messages)
    [] case.kind = "menu" -> MenuNarrows(case.items, case.query, case.splits, case.letters)
    [] case.kind = "highlight" -> HighlightIsSeen(case.length, case.view, case.row)
    [] case.kind = "paste" -> PastesEveryLine(case.text, case.types)
    [] case.kind = "snapshot" -> TRUE

\* version-history.md, a restore: what replaceBlocks writes of a revision reads
\* back as the preview of that revision showed it, whatever the snapshot held:
\* ids missing or used twice, fields lost or left behind, depths out of range,
\* cells in fragments.
RestoreReadsBack ==
  case.kind = "snapshot" =>
    LET preview == S!readRevisionBlocks(case.blocks)
    IN S!readBlocks(S!Restored(preview)) = preview
=============================================================================
