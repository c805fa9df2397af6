----------------------------- MODULE TableView -----------------------------
(***************************************************************************)
(* One table of an open document: table-block.tsx, the cells of            *)
(* text-block.tsx and the part of use-block-document.ts that keeps them.   *)
(* What a cell holds is stored three times, as for any text: in the        *)
(* document, in React's `blocks' and in its textarea; but the document has *)
(* it in fragments (Tables.tla), a cell comes and goes with its row and    *)
(* its column, and a deleted row may come back before the next commit.     *)
(***************************************************************************)
EXTENDS Tables

CONSTANTS
  MaxIds,       \* bounds the rows and columns that are ever made
  MaxLen,       \* bounds a fragment
  MaxLocal,     \* bounds what this browser does
  MaxPeer,      \* bounds what peers, and undo and redo, do
  MaxDone       \* bounds both together

VARIABLES
  table,     \* the table of the document
  block,     \* the table of React's `blocks', as it was last read
  cells,     \* each mounted cell's textarea and its lastSyncedRef
  composing, \* the open composition, or NotComposing
  made,      \* how many row and column ids exist
  done       \* how much this browser and the others have done

vars == <<table, block, cells, composing, made, done>>

NotComposing ==
  [key |-> <<None, None>>, before |-> <<>>, from |-> 0, to |-> 0, queue |-> <<>>]

TextOf(t, key) == CellText(t.cells, key[1], key[2])

Visible(t) == Range(visibleAxis(t.rows)) \X Range(visibleAxis(t.columns))

\* The rows, or the columns, on the screen.
Rendered(axis) == {key[IF axis = "rows" THEN 1 ELSE 2] : key \in DOMAIN cells}

-----------------------------------------------------------------------------
(* This browser *)

Local ==
  /\ done.local < MaxLocal /\ done.local + done.peer < MaxDone
  /\ done' = [done EXCEPT !.local = @ + 1]

\* A key or a click, which ends the composition before it.
Idle == Local /\ composing = NotComposing

\* commitLocal of a cell: one that is deleted takes nothing, and its baseline
\* advances all the same.
CommitLocal(key, synced, text) ==
  LET edit == diffRange(synced, text)
  IN /\ table' = IF synced = text THEN table
                 ELSE editTableCell(table, key[1], key[2], edit.from, edit.to, edit.value)
     /\ cells' = [cells EXCEPT ![key] = [el |-> text, synced |-> text]]

\* onInput
Type(key) ==
  /\ Idle
  /\ LET el == cells[key].el
     IN \/ \E k \in 0..Len(el) :
             /\ Len(el) < MaxLen
             /\ CommitLocal(key, cells[key].synced,
                            Splice(el, [from |-> k, to |-> k, value |-> <<"l">>]))
        \/ \E k \in 1..Len(el) :
             CommitLocal(key, cells[key].synced,
                         Splice(el, [from |-> k - 1, to |-> k, value |-> <<>>]))
  /\ UNCHANGED <<block, composing, made>>

\* onCompositionStart, over the selection from..to.
StartComposition(key) ==
  /\ Idle
  /\ \E from, to \in 0..Len(cells[key].el) :
       /\ from <= to
       /\ composing' = [key |-> key, before |-> cells[key].el, from |-> from, to |-> to,
                        queue |-> <<>>]
  /\ UNCHANGED <<table, block, cells, made>>

\* The input method shows its candidate.
Compose ==
  /\ composing # NotComposing
  /\ cells' = [cells EXCEPT ![composing.key].el =
       Splice(composing.before, [from |-> composing.from, to |-> composing.to,
                                 value |-> <<"l">>])]
  /\ UNCHANGED <<table, block, composing, made, done>>

\* onCompositionEnd
EndComposition ==
  /\ composing # NotComposing
  /\ LET cell == Flushed(cells[composing.key], composing)
     IN CommitLocal(composing.key, cell.synced, cell.el)
  /\ composing' = NotComposing
  /\ UNCHANGED <<block, made, done>>

\* applyEdit, which reads the blocks again whatever came of it.
Applied(t) == table' = t /\ block' = readTable(t)

\* add: a click on a `+' or a menu, or Tab in the last cell.
AddAxis(axis) ==
  /\ Idle
  /\ \E anchor \in Rendered(axis), before \in BOOLEAN :
       LET inserted == insertTableAxis(table, axis, anchor, before, made + 1)
       IN \/ /\ inserted # Refuses /\ made < MaxIds /\ made' = made + 1
             /\ Applied(inserted)
          \/ inserted = Refuses /\ Applied(table) /\ UNCHANGED made
  /\ UNCHANGED <<cells, composing>>

\* removeAxis, which the only row or column on the screen does not offer.
RemoveAxis(axis) ==
  /\ Idle /\ Cardinality(Rendered(axis)) > 1
  /\ \E id \in Rendered(axis) : Applied(deleteTableAxis(table, axis, id))
  /\ UNCHANGED <<cells, composing, made>>

-----------------------------------------------------------------------------
(* The subscription: what a peer did, or an undo or a redo, arrives. *)

\* applyRemote of a cell, in the textareas and the composition `s'.
ApplyRemote(s, key, edit) ==
  IF s.composing.key = key THEN [s EXCEPT !.composing.queue = Append(@, edit)]
  ELSE LET text == Splice(s.cells[key].el, edit)
       IN [s EXCEPT !.cells[key] = [el |-> text, synced |-> text]]

\* The edits of an event, each where tableCellPatches puts it.
Patched(s, patches) ==
  LET Patch(state, p) ==
        IF <<p.row, p.column>> \in DOMAIN cells
        THEN ApplyRemote(state, <<p.row, p.column>>, p.patch) ELSE state
  IN FoldLeft(Patch, s, patches)

\* What a cell will hold once its queue is applied.
Baseline(s, key) ==
  SpliceAll(s.cells[key].synced, IF s.composing.key = key THEN s.composing.queue ELSE <<>>)

\* Then every mounted cell of the table is told its whole text.
Reconciled(s, t) ==
  LET Reconcile(state, key) ==
        LET baseline == Baseline(state, key)
        IN IF baseline = TextOf(t, key) THEN state
           ELSE ApplyRemote(state, key, diffRange(baseline, TextOf(t, key)))
  IN FoldLeft(Reconcile, s, SetToSeq(Visible(t) \cap DOMAIN cells))

\* An event that leaves the table `t': the edits of texts in it, and whether
\* it has any other operation, which has the blocks read again.
Subscribed(t, edits, structural) ==
  LET patches == tableCellPatches(t.cells, edits)
      s == Reconciled(Patched([cells |-> cells, composing |-> composing], patches), t)
      unheard == \E p \in ToSet(patches) : <<p.row, p.column>> \notin DOMAIN cells
  IN /\ table' = t
     /\ cells' = s.cells /\ composing' = s.composing
     /\ block' = IF structural \/ unheard THEN readTable(t) ELSE block

Remote ==
  /\ done.peer < MaxPeer /\ done.local + done.peer < MaxDone
  /\ done' = [done EXCEPT !.peer = @ + 1]

EditText ==
  /\ \E i \in DOMAIN table.cells :
       \E from, to \in 0..Len(table.cells[i].text), value \in {<<>>, <<"p">>} :
         LET edit == [from |-> from, to |-> to, value |-> value]
         IN /\ from <= to /\ to - from <= 1 /\ to - from + Len(value) > 0
            /\ to - from + MaxLen > Len(table.cells[i].text)
            /\ Subscribed([table EXCEPT !.cells[i].text = Splice(@, edit)],
                          <<[index |-> i, from |-> from, to |-> to, value |-> value]>>, FALSE)
  /\ UNCHANGED made

\* Typing into a cell that had no fragment where it was typed.
AddFragment ==
  /\ \E key \in Visible(table) :
       LET added == [EmptyCell(key[1], key[2]) EXCEPT !.text = <<"p">>]
           at == Len(table.cells) + 1
       IN Subscribed([table EXCEPT !.cells = Append(@, added)],
                     <<[index |-> at, from |-> 0, to |-> 0, value |-> <<"p">>]>>, TRUE)
  /\ UNCHANGED made

\* Undone typing of the same.
RemoveFragment ==
  /\ \E i \in DOMAIN table.cells :
       Subscribed([table EXCEPT !.cells = RemoveAt(@, i)], <<>>, TRUE)
  /\ UNCHANGED made

\* A row or column is inserted, with the fragments of those across it that
\* whoever did it saw; deleted, or shown again by an undo; or taken back.
ChangeAxis(axis) ==
  \/ \E at \in 1..(Len(table[axis]) + 1), across \in SUBSET Range(visibleAxis(table[Other(axis)])) :
       LET id == made + 1
           NewCell(other) ==
             IF axis = "rows" THEN EmptyCell(id, other) ELSE EmptyCell(other, id)
       IN /\ made < MaxIds /\ made' = made + 1
          /\ Subscribed([table EXCEPT ![axis] = InsertAt(@, at, Entry(id)),
                           !.cells = @ \o SetToSeq({NewCell(other) : other \in across})],
                        <<>>, TRUE)
  \/ /\ \E i \in DOMAIN table[axis] :
          Subscribed([table EXCEPT ![axis][i].deleted = ~@], <<>>, TRUE)
     /\ UNCHANGED made
  \/ /\ \E i \in DOMAIN table[axis] :
          /\ Len(table[axis]) > 1
          /\ Subscribed([table EXCEPT ![axis] = RemoveAt(@, i)], <<>>, TRUE)
     /\ UNCHANGED made

Elsewhere ==
  /\ Remote
  /\ \/ EditText \/ AddFragment \/ RemoveFragment
     \/ \E axis \in {"rows", "columns"} : ChangeAxis(axis)

-----------------------------------------------------------------------------
(* React *)

\* The state is rendered: cells are kept by row and column, and a new one
\* reads its text once; the effects that register them run with the commit.
Commit ==
  /\ DOMAIN cells # DOMAIN block.cells
  /\ cells' = [key \in DOMAIN block.cells |->
       IF key \in DOMAIN cells THEN cells[key]
       ELSE [el |-> block.cells[key], synced |-> block.cells[key]]]
  /\ composing' = IF composing.key \in DOMAIN cells' THEN composing ELSE NotComposing
  /\ UNCHANGED <<table, block, made, done>>

Fragment(row, column, text) == [EmptyCell(row, column) EXCEPT !.text = text]

\* A new table of two rows and a column; one that two rows were added to at
\* once, with a cell in two fragments and a cell in none.
Initially ==
  {[rows |-> <<Entry(1), Entry(2)>>, columns |-> <<Entry(3)>>,
    cells |-> <<EmptyCell(1, 3), EmptyCell(2, 3)>>],
   [rows |-> <<Entry(1), [Entry(2) EXCEPT !.deleted = TRUE]>>, columns |-> <<Entry(3)>>,
    cells |-> <<Fragment(1, 3, <<"a">>), Fragment(2, 3, <<"b">>), Fragment(1, 3, <<"a">>)>>]}

Init ==
  /\ table \in Initially /\ block = readTable(table)
  /\ cells = <<>> /\ composing = NotComposing /\ made = 3
  /\ done = [local |-> 0, peer |-> 0]

Next ==
  \/ \E key \in DOMAIN cells : Type(key) \/ StartComposition(key)
  \/ Compose \/ EndComposition
  \/ \E axis \in {"rows", "columns"} : AddAxis(axis) \/ RemoveAxis(axis)
  \/ Elsewhere
  \/ Commit

Spec == Init /\ [][Next]_vars

-----------------------------------------------------------------------------
(* Properties *)

\* Every cell of the document's table is on the screen with its text, or will
\* be by the next commit; so is no cell of a deleted row or column.
ShowsTheTable ==
  /\ block.rows = visibleAxis(table.rows) /\ block.columns = visibleAxis(table.columns)
  /\ \A key \in Visible(table) :
       IF key \in DOMAIN cells
       THEN /\ Baseline([cells |-> cells, composing |-> composing], key) = TextOf(table, key)
            /\ composing.key # key => cells[key].el = TextOf(table, key)
       ELSE block.cells[key] = TextOf(table, key)

\* A composition in a cell that began at a caret only adds to what the cell
\* holds when it ends; one in a cell that is gone changes nothing.
CellCompositionAdds ==
  EndComposition /\ composing.from = composing.to =>
    LET key == composing.key
        text == TextOf(table, key)
    IN \E k \in 0..Len(text), value \in {<<>>, <<"l">>} :
         TextOf(table', key) = Splice(text, [from |-> k, to |-> k, value |-> value])
=============================================================================
