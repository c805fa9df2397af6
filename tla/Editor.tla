------------------------------- MODULE Editor -------------------------------
(***************************************************************************)
(* One browser editing a block document: editor.tsx, text-block.tsx,       *)
(* use-block-document.ts, use-file-upload.ts and lib/blocks/operations.ts. *)
(* Four copies of the text live here: the document (Yorkie's replica),     *)
(* React's `blocks' state, each row's textarea, and each row's record of   *)
(* what the document holds.  Nothing but the handlers below keeps them     *)
(* equal, while peers edit, a composition is open, or an upload is away.   *)
(* A block is text, list (every type Enter continues) or file (every block *)
(* without text: divider, table, embed, link).                             *)
(***************************************************************************)
EXTENDS BlockRules

CONSTANTS
  MaxIds,       \* bounds the blocks that are ever made
  MaxLen,       \* bounds a text
  MaxDepth,     \* MAX_LIST_DEPTH
  MaxUndo,      \* Yorkie's MaxUndoRedoStackDepth
  MaxLocal,     \* bounds what this browser does
  MaxPeer,      \* bounds what peers do
  MaxDone       \* bounds both together

VARIABLES
  doc,       \* the blocks of the document
  blocks,    \* React's state: the blocks as they were last read
  shown,     \* the blocks of the last commit, which the handlers close over
  rows,      \* each mounted text row's textarea and its lastSyncedRef
  heard,     \* the rows whose handler is registered
  remount,   \* whether restoreCount was raised since the last commit
  composing, \* the open composition, or NotComposing
  history,   \* Yorkie's stacks, and undoFloorRef
  job,       \* the file picker, upload or dialog that is open, or NoJob
  fileAnchor,\* fileAnchorRef: where the files that are picked go, or None
  made,      \* how many block ids exist
  done       \* how much this browser and its peers have done

vars == <<doc, blocks, shown, rows, heard, remount, composing, history, job,
          fileAnchor, made, done>>

screen == <<shown, rows, heard, remount, composing>>

NoJob == [kind |-> "none", anchor |-> None]

Block(id, type, text) == [id |-> id, type |-> type, depth |-> 0, text |-> text]

NotComposing == [id |-> None, before |-> <<>>, from |-> 0, to |-> 0, queue |-> <<>>]

\* A marker that converts a plain block, the slash of the menu (both matter
\* only when they are all of the text), and any other character typed here.
Marker == "#"
Slash == "/"
Typed(text) == IF text = <<>> THEN {Marker, Slash, "l"} ELSE {"l"}

-----------------------------------------------------------------------------
(* lib/blocks/operations.ts *)

Ids(bs) == {bs[i].id : i \in DOMAIN bs}

Place(bs, id) == indexOf(orderOf(bs), id)

textOf(bs, id) == bs[Place(bs, id)].text

insertBlockAfter(bs, afterId, block) ==
  InsertAt(bs, (IF afterId = None THEN 0 ELSE Place(bs, afterId)) + 1, block)

appendBlock(bs, block) == Append(bs, block)

removeBlock(bs, id) == RemoveAt(bs, Place(bs, id))

moveBlockAfter(bs, afterId, id) ==
  insertBlockAfter(removeBlock(bs, id), afterId, bs[Place(bs, id)])

editBlockText(bs, id, edit) ==
  [bs EXCEPT ![Place(bs, id)].text = Splice(@, edit)]

changeBlockType(bs, id, type, depth) ==
  [bs EXCEPT ![Place(bs, id)].type = type,
             ![Place(bs, id)].depth = IF type = "list" THEN depth ELSE 0]

Emptied(text) == [from |-> 0, to |-> Len(text), value |-> <<>>]

-----------------------------------------------------------------------------
(* What Yorkie records of a local update, and the rows *)

Push(stack, x) ==
  Append(IF Len(stack) = MaxUndo THEN Tail(stack) ELSE stack, x)

Recorded(h) == [h EXCEPT !.undo = Push(@, "session"), !.redo = <<>>]

TextRows(bs) == {b \in ToSet(bs) : isTextBearing(b)}

\* Mutant: the record of what the document holds does not advance.
PatchedUnsynced(id, edit) ==
  /\ rows' = IF composing.id = id THEN rows
             ELSE [rows EXCEPT ![id].el = Splice(@, edit)]
  /\ composing' = IF composing.id = id
                  THEN [composing EXCEPT !.queue = Append(@, edit)]
                  ELSE composing

\* patchRange outside a composition; inside one the edit waits.
Patched(id, edit) ==
  /\ rows' = IF composing.id = id THEN rows
             ELSE LET text == Splice(rows[id].el, edit)
                  IN [rows EXCEPT ![id] = [el |-> text, synced |-> text]]
  /\ composing' = IF composing.id = id
                  THEN [composing EXCEPT !.queue = Append(@, edit)]
                  ELSE composing

NotPatched == UNCHANGED <<rows, composing>>

\* patchBlockText
PatchBlockText(id, edit) ==
  IF id \in heard THEN Patched(id, edit) ELSE NotPatched

\* ensureTrailingEmptyBlock, on the document an action leaves; `n' ids exist.
NeedsTrailing(bs) ==
  bs = <<>> \/ (bs # <<>> /\ (Last(bs).type # "text" \/ Last(bs).text # <<>>))

Trailed(bs, n) ==
  IF NeedsTrailing(bs) THEN appendBlock(bs, Block(n + 1, "text", <<>>)) ELSE bs

\* An update whose mutation is `bs', then what the caller appends: `n' is what
\* `made' is before the trailing block.  applyEdit reads the blocks again.
Apply(bs, n) ==
  /\ n <= MaxIds
  /\ doc' = bs /\ blocks' = bs /\ made' = n
  /\ history' = Recorded(history)

ApplyTrailed(bs, n) ==
  /\ made' = IF NeedsTrailing(bs) THEN n + 1 ELSE n
  /\ made' <= MaxIds
  /\ doc' = Trailed(bs, n) /\ blocks' = Trailed(bs, n)
  /\ history' = IF NeedsTrailing(bs) THEN Recorded(Recorded(history))
                ELSE Recorded(history)

\* commitLocal of `text' over `synced', then onTextCommitted.  A block a peer
\* removed takes nothing, and the baseline stays put; nor does a range the
\* document's text does not have.
Reaches(id, synced, text) ==
  /\ id \in Ids(doc) /\ synced # text
  /\ diffRange(synced, text).to <= Len(textOf(doc, id))

Sent(id, synced, text) == editBlockText(doc, id, diffRange(synced, text))

CommitLocal(id, synced, text) ==
  LET after == IF Reaches(id, synced, text) THEN Sent(id, synced, text) ELSE doc
      sent == IF Reaches(id, synced, text) THEN Recorded(history) ELSE history
  IN /\ made' = IF NeedsTrailing(after) THEN made + 1 ELSE made
     /\ made' <= MaxIds
     /\ doc' = Trailed(after, made)
     /\ blocks' = IF NeedsTrailing(after) THEN Trailed(after, made) ELSE blocks
     /\ history' = IF NeedsTrailing(after) THEN Recorded(sent) ELSE sent
     /\ rows' = [rows EXCEPT ![id] =
          [el |-> text,
           synced |-> IF Reaches(id, synced, text) THEN text ELSE synced]]

Local ==
  /\ done.local < MaxLocal /\ done.local + done.peer < MaxDone
  /\ done' = [done EXCEPT !.local = @ + 1]

\* A key or a click, which ends the composition of a row before it.
Idle == Local /\ composing = NotComposing /\ ~remount

TypeOf(id) == shown[Place(shown, id)].type

-----------------------------------------------------------------------------
(* Typing *)

Retyped(text) ==
  {[from |-> k, to |-> k, value |-> <<c>>] : k \in 0..Len(text), c \in Typed(text)}
    \cup {[from |-> k - 1, to |-> k, value |-> <<>>] : k \in 1..Len(text)}

\* handleMarkdownShortcut, and what the row does whether it landed or not.
MarkdownShortcut(id) ==
  /\ IF id \in Ids(doc)
     THEN Apply(changeBlockType(
                  editBlockText(doc, id, Emptied(textOf(doc, id))), id, "list", 0),
                made)
     ELSE UNCHANGED <<doc, blocks, history, made>>
  /\ rows' = [rows EXCEPT ![id] = [el |-> <<>>, synced |-> <<>>]]

\* onInput
Type(id) ==
  /\ Idle
  /\ \E key \in Retyped(rows[id].el) :
       LET text == Splice(rows[id].el, key)
       IN /\ Len(text) <= MaxLen
          /\ \/ /\ TypeOf(id) = "text" /\ text = <<Marker>>
                /\ MarkdownShortcut(id)
             \/ /\ ~(TypeOf(id) = "text" /\ text = <<Marker>>)
                /\ CommitLocal(id, rows[id].synced, text)
  /\ UNCHANGED <<shown, heard, remount, composing, job, fileAnchor>>

\* onCompositionStart, over the selection from..to.
StartComposition(id) ==
  /\ Idle
  /\ \E from, to \in 0..Len(rows[id].el) :
       /\ from <= to
       /\ composing' = [id |-> id, before |-> rows[id].el, from |-> from, to |-> to,
                        queue |-> <<>>]
  /\ UNCHANGED <<doc, blocks, shown, rows, heard, remount, history, job, fileAnchor, made>>

\* The input method shows its candidate: where it began or, by exception,
\* somewhere else.
Compose ==
  /\ composing # NotComposing
  /\ \E at \in {[from |-> composing.from, to |-> composing.to]}
                 \cup {[from |-> k, to |-> k] :
                          k \in 0..Len(composing.before)} :
       LET text == Splice(composing.before,
                          [from |-> at.from, to |-> at.to, value |-> <<"l">>])
       IN /\ Len(text) <= MaxLen
          /\ rows' = [rows EXCEPT ![composing.id].el = text]
  /\ UNCHANGED <<doc, blocks, shown, heard, remount, composing, history, job,
                 fileAnchor, made, done>>

\* onCompositionEnd
EndComposition ==
  /\ composing # NotComposing
  /\ LET id == composing.id
         row == Flushed(rows[id], composing)
     IN CommitLocal(id, row.synced, row.el)
  /\ composing' = NotComposing
  /\ UNCHANGED <<shown, heard, remount, job, fileAnchor, done>>

-----------------------------------------------------------------------------
(* The handlers of editor.tsx *)

\* Mutant: the text is read from React's state.
SplitOfState(id) ==
  /\ Idle /\ id \in Ids(doc) /\ id \in Ids(blocks)
  /\ \E pos \in 0..Lesser(Len(rows[id].el), Len(textOf(blocks, id))) :
       LET cut == [from |-> pos, to |-> Len(textOf(doc, id)), value |-> <<>>]
           block == Block(made + 1, TypeOf(id), After(textOf(blocks, id), pos))
       IN /\ Apply(insertBlockAfter(editBlockText(doc, id, cut), id, block), made + 1)
          /\ PatchBlockText(id, cut)
  /\ UNCHANGED <<shown, heard, remount, job, fileAnchor>>

\* handleSplit, the caret at `pos'.
Split(id) ==
  /\ Idle /\ id \in Ids(doc)
  /\ \E pos \in 0..Len(rows[id].el) :
       LET live == textOf(doc, id)
           new == made + 1
           cut == [from |-> pos, to |-> Len(live), value |-> <<>>]
           block == [Block(new, TypeOf(id), After(live, pos))
                       EXCEPT !.depth = shown[Place(shown, id)].depth]
       IN \/ /\ live = <<>> /\ TypeOf(id) \in Continuing
             /\ Apply(changeBlockType(doc, id, "text", 0), made)
             /\ NotPatched
          \/ /\ ~(live = <<>> /\ TypeOf(id) \in Continuing)
             /\ Apply(insertBlockAfter(editBlockText(doc, id, cut), id, block), new)
             /\ PatchBlockText(id, cut)
  /\ UNCHANGED <<shown, heard, remount, job, fileAnchor>>

\* handleMergeWithPrevious
Merge(id) ==
  LET previous == idBeforeInOrder(orderOf(shown), id)
  IN /\ Idle /\ previous # None /\ TypeOf(previous) \in TextBearing
     /\ {previous, id} \subseteq Ids(doc)
     /\ LET end == Len(textOf(doc, previous))
            gained == [from |-> end, to |-> end, value |-> textOf(doc, id)]
        IN /\ end + Len(textOf(doc, id)) <= MaxLen
           /\ Apply(removeBlock(editBlockText(doc, previous, gained), id), made)
           /\ PatchBlockText(previous, gained)
     /\ UNCHANGED <<shown, heard, remount, job, fileAnchor>>

\* handlePaste of two lines, the second a list item.
Paste(id) ==
  /\ Idle /\ id \in Ids(doc)
  /\ LET live == textOf(doc, id)
         first == [from |-> 0, to |-> Len(live), value |-> <<"l">>]
         pasted == editBlockText(changeBlockType(doc, id, "text", 0), id, first)
     IN /\ Apply(insertBlockAfter(pasted, id, Block(made + 1, "list", <<"l">>)),
                 made + 1)
        /\ PatchBlockText(id, first)
  /\ UNCHANGED <<shown, heard, remount, job, fileAnchor>>

\* handlePaste of the address of a block into an empty row: a link above it.
PasteAddress(id) ==
  LET above == idBeforeInOrder(orderOf(shown), id)
  IN /\ Idle /\ rows[id].el = <<>>
     /\ above = None \/ above \in Ids(doc)
     /\ Apply(insertBlockAfter(doc, above, Block(made + 1, "file", <<>>)), made + 1)
  /\ UNCHANGED <<screen, job, fileAnchor>>

\* chooseSlashItem empties the block, then handleSlashSelect: a conversion, a
\* block without text above, or a dialog that remembers the block.
ChooseSlashItem(id) ==
  LET emptied == IF Reaches(id, rows[id].synced, <<>>)
                 THEN Sent(id, rows[id].synced, <<>>) ELSE doc
      sent == IF emptied = doc THEN history ELSE Recorded(history)
      above == idBeforeInOrder(orderOf(shown), id)
  IN /\ Idle /\ rows[id].el = <<Slash>> /\ id \in Ids(doc)
     /\ rows' = [rows EXCEPT ![id] = [el |-> <<>>, synced |-> <<>>]]
     /\ \/ \E type \in {"text", "list"} :
             /\ doc' = changeBlockType(emptied, id, type, shown[Place(shown, id)].depth)
             /\ blocks' = doc' /\ history' = Recorded(sent)
             /\ UNCHANGED <<made, job, fileAnchor>>
        \/ /\ above = None \/ above \in Ids(doc)
           /\ made < MaxIds /\ made' = made + 1
           /\ doc' = insertBlockAfter(emptied, above, Block(made', "file", <<>>))
           /\ blocks' = doc' /\ history' = Recorded(sent)
           /\ UNCHANGED <<job, fileAnchor>>
        \/ /\ job = NoJob
           /\ \/ /\ job' = [kind |-> "link", anchor |-> id]
                 /\ UNCHANGED fileAnchor
              \/ /\ job' = [kind |-> "menu picker", anchor |-> None]
                 /\ fileAnchor' = id
           /\ doc' = emptied /\ history' = sent
           /\ UNCHANGED <<blocks, made>>
     /\ UNCHANGED <<shown, heard, remount, composing>>

\* handleToggleChecklist, handleIndent
Indent(id) ==
  /\ Idle /\ id \in Ids(doc) /\ TypeOf(id) = "list"
  /\ \E direction \in {"in", "out"} :
       LET depth == indentedDepth(shown, id, direction, MaxDepth, MaxDepth + 1)
       IN /\ depth # MaxDepth + 1
          /\ Apply(changeBlockType(doc, id, "list", depth), made)
  /\ UNCHANGED <<screen, job, fileAnchor>>

\* onKeyDown: Enter picks from the open menu or splits, Backspace at the start
\* merges, Tab indents.
KeyDown(id) == ChooseSlashItem(id) \/ Split(id) \/ Merge(id) \/ Indent(id)

\* handleDrop of a block
Drop ==
  LET order == orderOf(shown)
  IN /\ Idle
     /\ \E dragged, target \in Ids(shown), before \in BOOLEAN :
          LET to == dropDestination(order, dragged, target, before, MaxIds + 1)
          IN /\ to # MaxIds + 1 /\ dragged \in Ids(doc)
             /\ to = None \/ to \in Ids(doc)
             /\ Apply(moveBlockAfter(doc, to, dragged), made)
     /\ UNCHANGED <<screen, job, fileAnchor>>

\* handleDeleteBlock, which only blocks without text offer
DeleteBlock(id) ==
  /\ Idle /\ id \in Ids(doc) /\ TypeOf(id) = "file"
  /\ ApplyTrailed(removeBlock(doc, id), made)
  /\ UNCHANGED <<screen, job, fileAnchor>>

\* focusEndOfDocument, when it has to make the block it lands in
ClickBelow ==
  /\ Idle /\ NeedsTrailing(doc) /\ shown # <<>>
  /\ ~isTextBearing(Last(shown))
  /\ Apply(Trailed(doc, made), made + 1)
  /\ UNCHANGED <<screen, job, fileAnchor>>

\* The file input: the button's picker, a drop of files, files picked, or a
\* picker that is cancelled, of which the input says nothing.
AddFile ==
  /\ Idle /\ job = NoJob
  /\ job' = [kind |-> "button picker", anchor |-> None]
  /\ UNCHANGED <<screen, doc, blocks, history, fileAnchor, made>>

DropFiles ==
  /\ Idle /\ job = NoJob
  /\ \E anchor \in Ids(shown) \cup {None} :
       job' = [kind |-> "upload", anchor |-> anchor]
  /\ UNCHANGED <<screen, doc, blocks, history, fileAnchor, made>>

Picker == job.kind \in {"menu picker", "button picker"}

PickFiles ==
  /\ Picker
  /\ job' = [kind |-> "upload", anchor |-> fileAnchor] /\ fileAnchor' = None
  /\ UNCHANGED <<screen, doc, blocks, history, made, done>>

CancelPicker ==
  /\ Picker /\ job' = NoJob
  /\ UNCHANGED <<screen, doc, blocks, history, fileAnchor, made, done>>

\* uploadFiles when the bytes are stored: a file whose anchor is gone goes to
\* the end.
FinishUpload ==
  LET file == Block(made + 1, "file", <<>>)
  IN /\ job.kind = "upload" /\ job' = NoJob
     /\ ApplyTrailed(IF job.anchor \in Ids(doc)
                     THEN insertBlockAfter(doc, job.anchor, file)
                     ELSE appendBlock(doc, file), made + 1)
     /\ UNCHANGED <<screen, fileAnchor, done>>

\* createPage and insertDocLink: a link whose anchor is gone goes nowhere.
FinishLink ==
  LET file == Block(made + 1, "file", <<>>)
  IN /\ job.kind = "link" /\ job' = NoJob
     /\ \/ /\ job.anchor \in Ids(doc)
           /\ Apply(insertBlockAfter(doc, job.anchor, file), made + 1)
        \/ /\ job.anchor \notin Ids(doc)
           /\ UNCHANGED <<doc, blocks, made, history>>
     /\ UNCHANGED <<screen, fileAnchor, done>>

\* The dialog is cancelled.
CancelLink ==
  /\ job.kind = "link" /\ job' = NoJob
  /\ UNCHANGED <<screen, doc, blocks, history, fileAnchor, made, done>>

\* An upload is refused or lost, which its error line says and no block.
FailUpload ==
  /\ job.kind = "upload" /\ job' = NoJob
  /\ UNCHANGED <<screen, doc, blocks, history, fileAnchor, made, done>>

\* replaceBlocks: two updates, a read, and rows that are mounted anew.
ReplaceBlocks(version) ==
  /\ Idle
  /\ doc' = version /\ blocks' = version /\ remount' = TRUE
  /\ history' = Recorded(Recorded(history))
  /\ UNCHANGED <<shown, rows, heard, composing, job, fileAnchor, made>>

-----------------------------------------------------------------------------
(* The subscription: what a peer did, or an undo of this browser, arrives. *)

\* An edit of a text goes to its row, or to the state when no row hears it;
\* every other operation has the state read again.
Subscribed(id, edit) ==
  IF id \in heard THEN Patched(id, edit) /\ UNCHANGED blocks
                  ELSE NotPatched /\ blocks' = doc'

Reread == NotPatched /\ blocks' = doc'

\* Ids a change may bring in: a new one, or one that an undo brings back.
Incoming ==
  {id \in 1..made : id \notin Ids(doc) \cup DOMAIN rows}
    \cup (IF made < MaxIds THEN {made + 1} ELSE {})

PeerEdit(b) ==
  /\ \E from, to \in 0..Len(b.text), value \in {<<>>, <<"p">>} :
       LET edit == [from |-> from, to |-> to, value |-> value]
       IN /\ from <= to /\ to - from <= 1 /\ to - from + Len(value) > 0
          /\ Len(Splice(b.text, edit)) <= MaxLen
          /\ doc' = editBlockText(doc, b.id, edit)
          /\ Subscribed(b.id, edit)
  /\ UNCHANGED made

PeerInsert ==
  /\ \E id \in Incoming, afterId \in Ids(doc) \cup {None}, text \in {<<>>, <<"p">>} :
       /\ doc' = insertBlockAfter(doc, afterId, Block(id, "text", text))
       /\ made' = Max({id, made})
  /\ Reread

PeerRestructure(id) ==
  /\ \/ doc' = removeBlock(doc, id)
     \/ \E afterId \in (Ids(doc) \cup {None}) \ {id} :
          doc' = moveBlockAfter(doc, afterId, id)
     \/ /\ isTextBearing(doc[Place(doc, id)])
        /\ \E type \in {"text", "list"} : doc' = changeBlockType(doc, id, type, 0)
  /\ Reread
  /\ UNCHANGED made

Change ==
  /\ ~remount
  /\ \/ \E b \in TextRows(doc) : PeerEdit(b)
     \/ PeerInsert
     \/ \E id \in Ids(doc) : PeerRestructure(id)

Remote ==
  /\ done.peer < MaxPeer /\ done.local + done.peer < MaxDone
  /\ done' = [done EXCEPT !.peer = @ + 1]

Peer ==
  /\ Remote
  /\ Change
  /\ UNCHANGED <<shown, heard, remount, history, job, fileAnchor>>

\* Mutant: the floor is not looked at.
UndoUnfloored ==
  /\ Local
  /\ history.undo # <<>>
  /\ history' = [history EXCEPT !.undo = Front(@),
                               !.redo = Push(@, Last(history.undo))]
  /\ Change
  /\ UNCHANGED <<shown, heard, remount, job, fileAnchor>>

\* history("undo"), floored; and history("redo").
Undo ==
  /\ Local
  /\ Len(history.undo) > history.floor
  /\ history' = [history EXCEPT !.undo = Front(@),
                               !.redo = Push(@, Last(history.undo))]
  /\ Change
  /\ UNCHANGED <<shown, heard, remount, job, fileAnchor>>

Redo ==
  /\ Local
  /\ history.redo # <<>>
  /\ history' = [history EXCEPT !.redo = Front(@),
                               !.undo = Push(@, "session")]
  /\ Change
  /\ UNCHANGED <<shown, heard, remount, job, fileAnchor>>

-----------------------------------------------------------------------------
(* React *)

Shape(bs) == [i \in DOMAIN bs |-> [bs[i] EXCEPT !.text = <<>>]]

Mounting == {b.id : b \in TextRows(blocks)}

\* The state is rendered: rows are kept by id and restoreCount, and a new one
\* reads its text once.  The effects that register the handlers run with the
\* commit, and no other task between a restore and its commit.
Commit ==
  /\ remount \/ shown # Shape(blocks)
  /\ shown' = Shape(blocks) /\ remount' = FALSE
  /\ rows' = [id \in Mounting |->
       IF id \in DOMAIN rows /\ ~remount THEN rows[id]
       ELSE [el |-> textOf(blocks, id), synced |-> textOf(blocks, id)]]
  /\ heard' = Mounting
  /\ composing' = IF composing.id \in DOMAIN rows'
                  THEN composing ELSE NotComposing
  /\ UNCHANGED <<doc, blocks, history, job, fileAnchor, made, done>>

InitialText == {<<Block(1, "text", <<"a">>), Block(2, "text", <<>>)>>,
                <<Block(1, "list", <<>>), Block(2, "file", <<>>)>>}

Version == <<Block(2, "text", <<"a">>), Block(1, "text", <<>>)>>

\* The document when the subscription has been set up: changes of another
\* view of it may lie on the undo stack, below the floor.
Init ==
  /\ doc \in InitialText /\ blocks = doc
  /\ shown = <<>> /\ rows = <<>> /\ heard = {} /\ remount = FALSE
  /\ composing = NotComposing /\ job = NoJob /\ fileAnchor = None /\ made = 2
  /\ \E undo \in {<<>>, <<"earlier">>} :
       history = [undo |-> undo, redo |-> <<>>, floor |-> Len(undo)]
  /\ done = [local |-> 0, peer |-> 0]

Next ==
  \/ \E id \in DOMAIN rows :
       \/ Type(id) \/ StartComposition(id) \/ KeyDown(id)
       \/ Paste(id) \/ PasteAddress(id)
  \/ Compose \/ EndComposition \/ Drop \/ ClickBelow
  \/ AddFile \/ DropFiles \/ PickFiles \/ CancelPicker
  \/ FinishUpload \/ FailUpload \/ FinishLink \/ CancelLink
  \/ \E id \in Ids(shown) : DeleteBlock(id)
  \/ ReplaceBlocks(Version)
  \/ Peer \/ Undo \/ Redo
  \/ Commit

Spec == Init /\ [][Next]_vars

\* replaceBlocks of a peer who restores a version of the open document: the
\* array is set, then its texts are filled in.  In the case most favourable to
\* this editor the first has its state read again, with the texts already there;
\* the rows that the array keeps hear the second.
PeerReplaces(version) ==
  /\ Remote
  /\ composing = NotComposing
  /\ doc' = version /\ blocks' = version
  /\ rows' = [id \in DOMAIN rows |->
       IF id \in heard \cap {b.id : b \in TextRows(version)}
       THEN LET filled == textOf(version, id) \o rows[id].el
            IN [el |-> filled, synced |-> filled]
       ELSE rows[id]]
  /\ UNCHANGED <<shown, heard, remount, composing, history, job, fileAnchor, made>>

SpecWithPeers == Init /\ [][Next \/ PeerReplaces(Version)]_vars

-----------------------------------------------------------------------------
(* Properties *)

\* What a row will hold once its composition is over and its queue applied.
Queue(id) == IF composing.id = id THEN composing.queue
             ELSE <<>>

\* Every block of the document is on the screen with the document's text, or
\* will be by the next commit: a mounted row holds it, up to the edits that
\* wait for its composition, and React's state holds it for the others.
ShowsTheDocument ==
  /\ orderOf(blocks) = orderOf(doc)
  /\ \A b \in TextRows(doc) :
       IF b.id \in DOMAIN rows /\ ~remount
       THEN /\ SpliceAll(rows[b.id].synced, Queue(b.id)) = b.text
            /\ composing = NotComposing => rows[b.id].el = b.text
       ELSE textOf(blocks, b.id) = b.text

CompositionAdds ==
  EndComposition /\ composing.from = composing.to /\ composing.id \in Ids(doc) =>
    LET text == textOf(doc, composing.id)
    IN \E k \in 0..Len(text), value \in {<<>>, <<"l">>} :
         textOf(doc', composing.id)
           = Splice(text, [from |-> k, to |-> k, value |-> value])

\* A composition that began at a caret adds to whatever the document's text has
\* become by then, and removes nothing a peer wrote while it was open (#52).
CompositionKeepsPeers == [][CompositionAdds]_vars

Characters(bs) == ToBag(FlattenSeq([i \in DOMAIN bs |-> bs[i].text]))

KeepsCharacters ==
  (\E id \in DOMAIN rows : Split(id) \/ Merge(id)) \/ FinishUpload \/ FinishLink \/ ClickBelow
    => Characters(doc') = Characters(doc)

\* Enter, Backspace at the start, a finished upload or dialog and a click below
\* the blocks neither lose nor repeat a character of the document, those that
\* peers have typed since the last render included.
TextIsKept == [][KeepsCharacters]_vars

\* No sequence of undo and redo takes back a change that was on the stack when
\* this document was opened, the seed of an empty document above all.
OpeningIsNotUndone == "earlier" \notin ToSet(history.redo)
=============================================================================
