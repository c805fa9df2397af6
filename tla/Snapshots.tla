------------------------------ MODULE Snapshots ------------------------------
(***************************************************************************)
(* Between what a document or a revision holds and the blocks the app      *)
(* reads: lib/blocks/document.ts, lib/blocks/revision-snapshot.ts, and the *)
(* way replaceBlocks of use-block-document.ts writes a snapshot back.      *)
(* A stored block is Null or has an id, a type and any of the fields a     *)
(* block may hold, each possibly Missing: a lost conversion leaves fields  *)
(* of other types behind and nothing checks what is on the network.        *)
(***************************************************************************)
EXTENDS Tables

CONSTANTS
  Null,          \* an entry of the list that is no block
  Missing,       \* the undefined of an optional field
  MAX_LIST_DEPTH

\* The types whose text is all a reader of them needs.
Plain == {"text", "quote", "code"}

\* The types with a file behind them, image standing for image and pdf.
Filed == {"file", "image"}

Linking == {"doc-link", "block-link"}

Or(value, fallback) == IF value = Missing THEN fallback ELSE value

listDepth(value) ==
  IF value \notin Int THEN 0 ELSE Min({Max({0, value}), MAX_LIST_DEPTH})

\* The readable text, whichever the holder: a missing one reads as none.
textOf(content) == Or(content.text, <<>>)

Whole(content) == Or(content.table, [rows |-> <<>>, columns |-> <<>>, cells |-> <<>>])

\* The strict shape the UI reads; a type outside the union is dropped.
readBlock(stored) ==
  LET id == stored.id
      type == stored.type
      content == stored.content
  IN CASE type = "table" -> <<[id |-> id, type |-> type, table |-> readTable(Whole(content))]>>
       [] type \in Plain -> <<[id |-> id, type |-> type, text |-> textOf(content)]>>
       [] type = "heading" -> <<[id |-> id, type |-> type, level |-> Or(content.level, 1),
                                 text |-> textOf(content)]>>
       [] type = "list" -> <<[id |-> id, type |-> type, style |-> Or(content.style, "unordered"),
                              depth |-> listDepth(content.depth), text |-> textOf(content)]>>
       [] type = "checklist" -> <<[id |-> id, type |-> type, checked |-> content.checked = TRUE,
                                   text |-> textOf(content)]>>
       [] type = "divider" -> <<[id |-> id, type |-> type]>>
       [] type \in Filed -> <<[id |-> id, type |-> type, file |-> Or(content.file, "")]>>
       [] type \in Linking -> <<[id |-> id, type |-> type, target |-> Or(content.target, "")]>>
       [] OTHER -> <<>>

readBlocks(blocks) ==
  FlattenSeq([i \in DOMAIN blocks |-> IF blocks[i] = Null THEN <<>> ELSE readBlock(blocks[i])])

-----------------------------------------------------------------------------
(* Reading a revision: revision-snapshot.ts *)

\* Mutant: an id that is taken twice is kept twice.
hasUsableIdEach(blocks) == SelectSeq(blocks, LAMBDA block : block.id # Missing)

\* The blocks an id can address: the first of each id, none without one.
hasUsableId(blocks) ==
  LET Usable(i) == /\ blocks[i].id # Missing
                   /\ \A j \in 1..(i - 1) : blocks[j].id # blocks[i].id
      kept == SelectSeq([i \in DOMAIN blocks |-> i], Usable)
  IN [k \in DOMAIN kept |-> blocks[kept[k]]]

\* flattenNodes joins a text's nodes to the sequence a text is here.
readRevisionBlocks(snapshot) == hasUsableId(readBlocks(snapshot))

-----------------------------------------------------------------------------
(* Writing blocks: toStoredBlock, and the fill that follows *)

NoContent ==
  [text |-> Missing, level |-> Missing, style |-> Missing, depth |-> Missing,
   checked |-> Missing, file |-> Missing, target |-> Missing, table |-> Missing]

\* Texts are empty nodes: characters enter them after the insertion.
toStoredBlock(block) ==
  LET Content ==
        CASE block.type = "table" -> [NoContent EXCEPT !.table = storeTable(block.table)]
          [] block.type \in Plain -> [NoContent EXCEPT !.text = <<>>]
          [] block.type = "heading" -> [NoContent EXCEPT !.text = <<>>, !.level = block.level]
          [] block.type = "list" -> [NoContent EXCEPT !.text = <<>>, !.style = block.style,
                                                      !.depth = block.depth]
          [] block.type = "checklist" -> [NoContent EXCEPT !.text = <<>>, !.checked = block.checked]
          [] block.type \in Filed -> [NoContent EXCEPT !.file = block.file]
          [] block.type \in Linking -> [NoContent EXCEPT !.target = block.target]
          [] OTHER -> NoContent
  IN [id |-> block.id, type |-> block.type, content |-> Content]

\* The second update of replaceBlocks: each block's text goes to the first
\* stored block with its id, as editBlockText and tableOf find it.
Fill(stored, block) ==
  LET at == SelectInSeq(stored, LAMBDA s : s.id = block.id)
  IN CASE block.type = "table" ->
            [stored EXCEPT ![at].content.table = fillTable(@, block.table)]
       [] "text" \in DOMAIN block /\ block.text # <<>> ->
            [stored EXCEPT ![at].content.text = block.text \o @]
       [] OTHER -> stored

\* replaceBlocks: what the document holds after a restore.
Restored(blocks) ==
  FoldLeft(Fill, [i \in DOMAIN blocks |-> toStoredBlock(blocks[i])], blocks)
=============================================================================
