------------------------------ MODULE Listings ------------------------------
(***************************************************************************)
(* The lists the app draws from several stores at once: the rows of the    *)
(* document tree (lib/documents/tree.ts), the members in the header and    *)
(* the tree (lib/presence/roster.ts), the occupant of each block           *)
(* (lib/presence/occupancy.ts), the workspace's files                      *)
(* (lib/files/workspace-files.ts) and the links of the chat                *)
(* (lib/chat/links.ts); the items of the / menu (lib/blocks/slash-menu.ts) *)
(* and the blocks a paste becomes (lib/blocks/paste.ts).                   *)
(***************************************************************************)
EXTENDS Integers, Sequences, FiniteSetsExt, SequencesExt

CONSTANT None \* the null, or a field that is missing

IdsOf(list) == {list[i].id : i \in DOMAIN list}

childrenOf(documents, id) == SelectSeq(documents, LAMBDA d : d.parent = id)

\* A document with its own below it, unless it is collapsed.  Only documents
\* under a root are walked, so a cycle of parents is never entered.
RECURSIVE Walk(_, _, _, _)
Walk(documents, collapsed, document, depth) ==
  LET children == childrenOf(documents, document.id)
  IN <<[id |-> document.id, depth |-> depth, hasChildren |-> children # <<>>]>>
     \o IF document.id \in collapsed THEN <<>>
        ELSE FlattenSeq([k \in DOMAIN children |->
                           Walk(documents, collapsed, children[k], depth + 1)])

treeRows(documents, collapsed) ==
  LET roots == SelectSeq(documents, LAMBDA d : \/ d.parent = None
                                               \/ d.parent \notin IdsOf(documents))
  IN FlattenSeq([k \in DOMAIN roots |-> Walk(documents, collapsed, roots[k], 0)])

-----------------------------------------------------------------------------
(* Members: a presence is [id, document], None on a page that has none.     *)

\* A Map set over and over: each id where it came first, as it came last.
rosterFrom(presences) ==
  LET usable == SelectSeq(presences, LAMBDA p : p.id # None)
      Set(list, p) ==
        LET at == SelectInSeq(list, LAMBDA q : q.id = p.id)
        IN IF at = 0 THEN Append(list, p) ELSE [list EXCEPT ![at] = p]
  IN FoldLeft(Set, <<>>, usable)

\* The viewer, the others in the document, then the members who are away.
withOffline(connected, known, memberId, document) ==
  LET me == SelectSeq(connected, LAMBDA m : m.id = memberId)
      here == SelectSeq(connected, LAMBDA m : /\ m.id # memberId
                                              /\ document # None
                                              /\ m.document = document)
      away == SelectSeq(known, LAMBDA id : id \notin IdsOf(connected))
      Entry(id, online) == [id |-> id, online |-> online]
  IN [k \in DOMAIN (me \o here) |-> Entry((me \o here)[k].id, TRUE)]
     \o [k \in DOMAIN away |-> Entry(away[k], FALSE)]

\* Per document, who else is in it.
occupantsByDocument(connected, exceptId) ==
  LET elsewhere == SelectSeq(connected, LAMBDA m : m.id # exceptId /\ m.document # None)
  IN [d \in {elsewhere[k].document : k \in DOMAIN elsewhere} |->
        SelectSeq(elsewhere, LAMBDA m : m.document = d)]

\* Per block, the first of the others who is there and not silent too long.
occupantsByBlock(others, now, ttl) ==
  LET Fresh(p) == p.block # None /\ now - p.updatedAt <= ttl
      there == SelectSeq(others, Fresh)
  IN [b \in {there[k].block : k \in DOMAIN there} |->
        SelectSeq(there, LAMBDA p : p.block = b)[1].nickname]

\* Whether a second look at the same presences found anything new.
sameOccupants(a, b) ==
  /\ Cardinality(DOMAIN a) = Cardinality(DOMAIN b)
  /\ \A block \in DOMAIN a : block \in DOMAIN b /\ b[block] = a[block]

-----------------------------------------------------------------------------
(* Files *)

\* roots: per document its blocks, [id, file], None for what holds no file;
\* a document whose root cannot be read has none.
Blocks(documents, roots) ==
  FlattenSeq([k \in DOMAIN documents |->
    LET id == documents[k]
        blocks == IF id \in DOMAIN roots THEN roots[id] ELSE <<>>
    IN [j \in DOMAIN blocks |->
          [document |-> id, block |-> blocks[j].id, file |-> blocks[j].file]]])

\* Where each file is: its first live block.
placesOf(documents, roots) ==
  LET blocks == SelectSeq(Blocks(documents, roots), LAMBDA b : b.file # None)
  IN [f \in {blocks[k].file : k \in DOMAIN blocks} |->
        LET at == blocks[SelectInSeq(blocks, LAMBDA b : b.file = f)]
        IN [document |-> at.document, block |-> at.block]]

\* Newest first; of two uploaded together, the document's before the chat's.
workspaceFiles(documents, roots, files, messages) ==
  LET places == placesOf(documents, roots)
      placed == SelectSeq(files, LAMBDA f : f.origin = "document" /\ f.id \in DOMAIN places)
      sent == SelectSeq(messages, LAMBDA m : m.file # None)
      listed == [k \in DOMAIN placed |->
                   [file |-> placed[k].id, at |-> placed[k].at,
                    source |-> places[placed[k].id]]]
                \o [k \in DOMAIN sent |->
                      [file |-> sent[k].file, at |-> sent[k].at, source |-> sent[k].id]]
      Later(i, j) == listed[i].at > listed[j].at \/ (listed[i].at = listed[j].at /\ i < j)
      order == SetToSortSeq(DOMAIN listed, Later)
  IN [k \in DOMAIN order |-> listed[order[k]]]
-----------------------------------------------------------------------------
(* Links: a text is a sequence of characters, the scheme of a URL being one. *)

Scheme == "https://"
Punctuation == {".", "?", "]"}

CountOf(text, char) == Len(SelectSeq(text, LAMBDA c : c = char))

RECURSIVE trimUrl(_)
trimUrl(url) ==
  IF \/ Last(url) \in Punctuation
     \/ Last(url) = ")" /\ CountOf(url, ")") > CountOf(url, "(")
  THEN trimUrl(Front(url)) ELSE url

\* Where the URL that starts at k ends: before the next space.
RunEnd(text, k) == Min({Len(text)} \cup {j - 1 : j \in {i \in k..Len(text) : text[i] = " "}})

RECURSIVE splitUrls(_)
splitUrls(text) ==
  LET starts == {k \in DOMAIN text : text[k] = Scheme /\ RunEnd(text, k) > k}
      k == Min(starts)
      url == trimUrl(SubSeq(text, k, RunEnd(text, k)))
      Run(t) == IF t = <<>> THEN <<>> ELSE <<[kind |-> "text", of |-> t]>>
  IN IF starts = {} THEN Run(text)
     ELSE Run(SubSeq(text, 1, k - 1)) \o <<[kind |-> "url", of |-> url]>>
          \o splitUrls(SubSeq(text, k + Len(url), Len(text)))

\* Newest first; of one message its link first, then its URLs in order.
sharedLinks(messages) ==
  LET Of(m) ==
        LET urls == SelectSeq(splitUrls(m.text), LAMBDA p : p.kind = "url")
        IN (IF m.link = None THEN <<>> ELSE <<[message |-> m.id, at |-> m.at, to |-> m.link]>>)
           \o [j \in DOMAIN urls |-> [message |-> m.id, at |-> m.at, to |-> urls[j].of]]
      all == FlattenSeq([j \in DOMAIN messages |-> Of(messages[j])])
      Later(i, j) == all[i].at > all[j].at \/ (all[i].at = all[j].at /\ i < j)
      order == SetToSortSeq(DOMAIN all, Later)
  IN [j \in DOMAIN order |-> all[order[j]]]

-----------------------------------------------------------------------------
(* The / menu: words are sequences of jamo; `splits' maps a final consonant *)
(* to what it reads as once a vowel follows, a final and an initial or only *)
(* an initial.                                                              *)

needles(query, splits) ==
  {query} \cup IF query # <<>> /\ Last(query) \in DOMAIN splits
               THEN {Front(query) \o splits[Last(query)]} ELSE {}

slashMenuItems(items, query, splits) ==
  LET Matches(words) == \E w \in words, n \in needles(query, splits) : IsPrefix(n, w)
      Named(item) == Matches(item.names)
  IN IF query = <<>> THEN items
     ELSE SelectSeq(items, Named)
          \o SelectSeq(items, LAMBDA item : ~Named(item) /\ Matches(item.keywords))

moveHighlight(current, delta, length) ==
  IF length = 0 THEN 0 ELSE (current + delta + length) % length

\* The menu's new scrollTop, the old one when the row is already visible.
scrollTopForHighlight(view, row) ==
  LET overshoot == row.top + row.height - (view.scrollTop + view.height)
  IN IF row.top < view.scrollTop THEN row.top
     ELSE IF overshoot <= 0 THEN view.scrollTop
     ELSE Min({view.scrollTop + overshoot, row.top})

-----------------------------------------------------------------------------
(* A paste: a marker is one character with its space, `types' what typing   *)
(* each of them makes of a block.                                           *)

Lines(text) ==
  LET Second(k) == k > 1 /\ text[k] = "LF" /\ text[k - 1] = "CR"
      Read(lines, k) ==
        IF Second(k) THEN lines
        ELSE IF text[k] \in {"CR", "LF"} THEN Append(lines, <<>>)
        ELSE [lines EXCEPT ![Len(lines)] = Append(@, text[k])]
  IN FoldLeftDomain(Read, <<<<>>>>, text)

lineToBlock(line, types) ==
  IF line # <<>> /\ line[1] \in DOMAIN types
  THEN [type |-> types[line[1]], text |-> Tail(line)]
  ELSE [type |-> "text", text |-> line]

\* A block per line, one newline at the end left aside.
parsePaste(text, types) ==
  LET lines == Lines(text)
      kept == IF Len(lines) > 1 /\ Last(lines) = <<>> THEN Front(lines) ELSE lines
  IN [k \in DOMAIN kept |-> lineToBlock(kept[k], types)]
=============================================================================
