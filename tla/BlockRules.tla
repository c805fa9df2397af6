----------------------------- MODULE BlockRules -----------------------------
(***************************************************************************)
(* Questions about the order and the kinds of a document's blocks:         *)
(* lib/blocks/reorder.ts, indent.ts, list-numbering.ts and registry.ts;    *)
(* and the arithmetic of one text and its edits: lib/blocks/text-surface.ts*)
(* and what text-block.tsx does with the edits that come from elsewhere.   *)
(* A block is a record with at least an id, a type and, for a list, a      *)
(* depth and a style.  A text is a sequence; positions count from 0,       *)
(* between its characters.                                                 *)
(***************************************************************************)
EXTENDS Naturals, Sequences, FiniteSetsExt, SequencesExt

\* Stands for the null of the code.
None == 0

TextBearing == {"text", "heading", "list", "checklist", "quote", "code"}

\* The types Enter continues, and leaves for plain text on an empty block.
Continuing == {"list", "checklist", "quote"}

isTextBearing(block) == block.type \in TextBearing

orderOf(blocks) == [i \in DOMAIN blocks |-> blocks[i].id]

indexOf(order, id) == SelectInSeq(order, LAMBDA x : x = id)

idBeforeInOrder(order, id) ==
  LET i == indexOf(order, id) IN IF i <= 1 THEN None ELSE order[i - 1]

idAfterInOrder(order, id) ==
  LET i == indexOf(order, id)
  IN IF i = 0 \/ i = Len(order) THEN None ELSE order[i + 1]

\* NoMove for a drop that moves nothing; None is the front of the document.
dropDestination(order, dragged, target, before, NoMove) ==
  LET afterId == IF before THEN idBeforeInOrder(order, target) ELSE target
  IN IF \/ dragged = target
        \/ afterId = dragged
        \/ afterId = idBeforeInOrder(order, dragged)
     THEN NoMove ELSE afterId

-----------------------------------------------------------------------------
(* Depths and numbers of lists *)

\* One more than the depth of the nearest list above, as the code's -1 is no
\* natural number: 0 when the block right above is no list.
previousListDepth(blocks, id) ==
  LET i == indexOf(orderOf(blocks), id)
  IN IF i > 1 /\ blocks[i - 1].type = "list" THEN blocks[i - 1].depth + 1 ELSE 0

\* NoChange when the key is left alone.
indentedDepth(blocks, id, direction, maxDepth, NoChange) ==
  LET i == indexOf(orderOf(blocks), id)
      depth == blocks[i].depth
      ceiling == Min({previousListDepth(blocks, id), maxDepth})
  IN CASE i = 0 \/ (i > 0 /\ blocks[i].type # "list") -> NoChange
       [] direction = "out" -> IF depth > 0 THEN depth - 1 ELSE NoChange
       [] OTHER -> IF depth + 1 <= ceiling THEN depth + 1 ELSE NoChange

\* The loop's counters, by depth, cut off at each shallower item.
LOCAL Count(state, block) ==
  LET d == block.depth + 1
      kept == [k \in 1..d |->
                 IF k <= Len(state.counters) THEN state.counters[k] ELSE 0]
      counted == [kept EXCEPT ![d] = IF block.style = "ordered" THEN @ + 1 ELSE 0]
  IN IF block.type = "list"
     THEN [counters |-> counted, numbers |-> Append(state.numbers, counted[d])]
     ELSE [counters |-> <<>>, numbers |-> Append(state.numbers, 0)]

orderedListNumbers(blocks) ==
  FoldLeft(Count, [counters |-> <<>>, numbers |-> <<>>], blocks).numbers

-----------------------------------------------------------------------------
(* Texts and their edits *)

Lesser(m, n) == IF m <= n THEN m ELSE n

\* The two ends of a text; a position past the end stands for the end.
Upto(s, n) == SubSeq(s, 1, Lesser(n, Len(s)))

After(s, n) == SubSeq(s, n + 1, Len(s))

\* An edit as Yorkie and the textarea apply it: `value' in place of from..to.
Splice(s, e) == Upto(s, e.from) \o e.value \o After(s, e.to)

SpliceAll(s, edits) == FoldLeft(Splice, s, edits)

\* The smallest edit that turns `old' into `new'.
diffRange(old, new) ==
  LET shorter == Lesser(Len(old), Len(new))
      start == Max({k \in 0..shorter : Upto(old, k) = Upto(new, k)})
      tail == Max({k \in 0..(shorter - start) :
                     After(old, Len(old) - k) = After(new, Len(new) - k)})
  IN [from |-> start, to |-> Len(old) - tail,
      value |-> SubSeq(new, start + 1, Len(new) - tail)]

\* Where a caret lands after an edit beside it; NoCaret when the edit overlaps.
shiftCaret(pos, e, NoCaret) ==
  CASE pos >= e.to -> pos + Len(e.value) - (e.to - e.from)
    [] pos < e.to /\ pos <= e.from -> pos
    [] OTHER -> NoCaret

\* Where the end of an open composition goes when an edit of a peer is applied.
through(pos, e) ==
  CASE pos <= e.from -> pos
    [] pos > e.from /\ pos >= e.to -> pos + Len(e.value) - (e.to - e.from)
    [] OTHER -> e.from + Len(e.value)

\* Whether the textarea still holds what surrounded from..to.
Fits(base, el, from, to) ==
  /\ from + Len(base) - to <= Len(el)
  /\ Upto(el, from) = Upto(base, from)
  /\ After(el, Len(el) - (Len(base) - to)) = After(base, to)

\* Mutant: the place of the composition is not carried over what was queued.
FlushedUncarried(row, c) ==
  LET text == SpliceAll(row.synced, c.queue)
  IN [el |-> Upto(text, c.from)
               \o SubSeq(row.el, c.from + 1,
                         Len(row.el) - (Len(row.synced) - c.to))
               \o After(text, c.to),
      synced |-> row.synced]

\* flushQueuedRemoteEdits: a textarea [el, synced] when the composition `c', of
\* from..to, has closed.
Flushed(row, c) ==
  LET base == row.synced
      range == IF Fits(base, row.el, c.from, c.to)
               THEN [from |-> c.from, to |-> c.to]
               ELSE diffRange(base, row.el)
      composed == SubSeq(row.el, range.from + 1,
                         Len(row.el) - (Len(base) - range.to))
      text == SpliceAll(base, c.queue)
      carried(pos) == FoldLeft(through, pos, c.queue)
  IN IF c.queue = <<>> THEN row
     ELSE [el |-> Splice(text, [from |-> carried(range.from),
                                to |-> carried(range.to),
                                value |-> composed]),
           synced |-> text]
=============================================================================
