------------------------------- MODULE Tables -------------------------------
(***************************************************************************)
(* Tables as the document stores them: lib/blocks/table.ts.  A table is    *)
(* two axes, lists of [id, deleted] that only grow, and a list of text     *)
(* fragments [row, column, text].  Concurrent edits may leave a cell with  *)
(* several fragments, none, or fragments of rows that are deleted, and an  *)
(* axis with every entry deleted.                                          *)
(***************************************************************************)
EXTENDS Integers, BlockRules

\* What an operation that refuses returns: no table has no rows at all.
Refuses == [rows |-> <<>>, columns |-> <<>>, cells |-> <<>>]

Live(axis) == ~axis.deleted

\* [...new Set(ids)]: each id once, in the order of their first entries.
Distinct(axes) ==
  FoldLeft(LAMBDA ids, axis : IF Contains(ids, axis.id) THEN ids ELSE Append(ids, axis.id),
           <<>>, axes)

\* The ids shown; the first stays when everything was deleted.
visibleAxis(axes) ==
  LET live == SelectSeq(axes, Live)
  IN Distinct(IF live # <<>> THEN live ELSE Upto(axes, Min({1, Len(axes)})))

\* The fragments of a cell, as positions of the list of cells.
Fragments(cells, row, column) ==
  SelectSeq([i \in DOMAIN cells |-> i],
            LAMBDA i : cells[i].row = row /\ cells[i].column = column)

CellText(cells, row, column) ==
  FoldLeft(LAMBDA text, i : text \o cells[i].text, <<>>, Fragments(cells, row, column))

readTable(table) ==
  LET rows == visibleAxis(table.rows)
      columns == visibleAxis(table.columns)
  IN [rows |-> rows, columns |-> columns,
      cells |-> [key \in Range(rows) \X Range(columns) |->
                   CellText(table.cells, key[1], key[2])]]

Entry(id) == [id |-> id, deleted |-> FALSE]

EmptyCell(row, column) == [row |-> row, column |-> column, text |-> <<>>]

\* Every cell of a new table has one empty fragment, row by row.
storeTable(block) ==
  [rows |-> [i \in DOMAIN block.rows |-> Entry(block.rows[i])],
   columns |-> [i \in DOMAIN block.columns |-> Entry(block.columns[i])],
   cells |-> FlattenSeq([i \in DOMAIN block.rows |->
               [j \in DOMAIN block.columns |->
                  EmptyCell(block.rows[i], block.columns[j])]])]

-----------------------------------------------------------------------------
(* Editing a cell *)

\* The loop over the fragments of a cell: the first that from..to meets takes
\* the value, the others only lose what is theirs of the range.
EditFragments(cells, fragments, from, to, value) ==
  LET Meet(state, i) ==
        LET length == Len(cells[i].text)
            start == Max({0, from - state.offset})
            end == Min({length, to - state.offset})
            meets == start <= length /\ end >= start
            edit == [from |-> start, to |-> end,
                     value |-> IF state.inserted THEN <<>> ELSE value]
        IN [offset |-> state.offset + length,
            inserted |-> state.inserted \/ meets,
            cells |-> IF meets THEN [state.cells EXCEPT ![i].text = Splice(@, edit)]
                      ELSE state.cells]
  IN FoldLeft(Meet, [offset |-> 0, inserted |-> FALSE, cells |-> cells], fragments).cells

Shows(table, row, column) ==
  /\ Contains(visibleAxis(table.rows), row)
  /\ Contains(visibleAxis(table.columns), column)

editTableCell(table, row, column, from, to, value) ==
  LET fragments == Fragments(table.cells, row, column)
  IN CASE ~Shows(table, row, column) -> table
       [] Shows(table, row, column) /\ fragments = <<>> ->
            [table EXCEPT !.cells =
               Append(@, [EmptyCell(row, column) EXCEPT !.text = value])]
       [] OTHER ->
            [table EXCEPT !.cells = EditFragments(@, fragments, from, to, value)]

\* The texts of a block read elsewhere, into the empty cells of its new table.
fillTable(table, block) ==
  LET FillCell(t, key) ==
        IF block.cells[key] = <<>> THEN t
        ELSE editTableCell(t, key[1], key[2], 0, 0, block.cells[key])
  IN FoldLeft(FillCell, table, SetToSeq(DOMAIN block.cells))

-----------------------------------------------------------------------------
(* Adding and deleting rows and columns *)

Other(axis) == IF axis = "rows" THEN "columns" ELSE "rows"

IndexOf(axes, id) == SelectInSeq(axes, LAMBDA entry : entry.id = id)

\* Mutant: a row added beside the last deleted one leaves that deleted.
insertTableAxisOnly(table, axis, anchor, before, id) ==
  LET at == IndexOf(table[axis], anchor)
  IN IF at = 0 \/ ~Contains(visibleAxis(table[axis]), anchor) THEN Refuses
     ELSE [table EXCEPT ![axis] =
             InsertAt(@, IF before THEN at ELSE at + 1, Entry(id))]

\* The anchor shown for want of any other is undeleted; the new row or column
\* gets an empty fragment for each one across it.
insertTableAxis(table, axis, anchor, before, id) ==
  LET at == IndexOf(table[axis], anchor)
      across == visibleAxis(table[Other(axis)])
      NewCell(other) ==
        IF axis = "rows" THEN EmptyCell(id, other) ELSE EmptyCell(other, id)
  IN IF at = 0 \/ ~Contains(visibleAxis(table[axis]), anchor) THEN Refuses
     ELSE [table EXCEPT
             ![axis] = InsertAt([@ EXCEPT ![at].deleted = FALSE],
                                IF before THEN at ELSE at + 1, Entry(id)),
             !.cells = @ \o [k \in DOMAIN across |-> NewCell(across[k])]]

deleteTableAxis(table, axis, id) ==
  IF Len(visibleAxis(table[axis])) <= 1 THEN table
  ELSE [table EXCEPT ![axis] =
          [k \in DOMAIN @ |-> IF @[k].id = id THEN [@[k] EXCEPT !.deleted = TRUE]
                              ELSE @[k]]]

-----------------------------------------------------------------------------
(* Edits of peers, [index, from, to, value], reported with the table as it  *)
(* is after all of them.                                                   *)

Grown(edit) == Len(edit.value)

Removed(edit) == edit.to - edit.from

\* Each fragment's length before the edits.
LengthsBefore(cells, edits) ==
  FoldRight(LAMBDA edit, lengths :
              [lengths EXCEPT ![edit.index] = @ + Removed(edit) - Grown(edit)],
            edits, [i \in DOMAIN cells |-> Len(cells[i].text)])

\* The same edits as patches of what the cells show, in the same order.
tableCellPatches(cells, edits) ==
  LET Same(i, j) == cells[i].row = cells[j].row /\ cells[i].column = cells[j].column
      Patch(state, edit) ==
        LET target == cells[edit.index]
            offset == FoldFunctionOnSet(+, 0, state.lengths,
                        {i \in 1..(edit.index - 1) : Same(i, edit.index)})
        IN [lengths |-> [state.lengths EXCEPT ![edit.index] =
                           @ + Grown(edit) - Removed(edit)],
            patches |-> Append(state.patches,
              [row |-> target.row, column |-> target.column,
               patch |-> [from |-> offset + edit.from, to |-> offset + edit.to,
                          value |-> edit.value]])]
  IN FoldLeft(Patch, [lengths |-> LengthsBefore(cells, edits), patches |-> <<>>],
              edits).patches
=============================================================================
