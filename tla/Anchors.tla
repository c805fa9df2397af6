------------------------------- MODULE Anchors -------------------------------
(***************************************************************************)
(* Places of a document as they travel: lib/focus/anchor.ts, and the       *)
(* points of lib/focus/ink.ts.  A box is a block's [id, top, height, left, *)
(* width] in a reader's own layout; boxes go from top to bottom, with gaps *)
(* between them.  A place travels as a block and a ratio of its extent,    *)
(* here the ratio's numerator over `steps'; pixels come back over `steps'  *)
(* too.  The rounding of floating point below that is left out.            *)
(***************************************************************************)
EXTENDS Integers, Sequences, FiniteSetsExt, SequencesExt

\* Stands for the null of the code.
Nowhere == <<>>

\* Math.round(min(max(value / extent, 0), 1) * steps).
Rounded(value, extent, steps) ==
  LET inside == Min({Max({value, 0}), extent})
  IN (2 * inside * steps + extent) \div (2 * extent)

BoxOf(boxes, id) == SelectInSeq(boxes, LAMBDA box : box.id = id)

Bottom(box) == box.top + box.height

\* The first box whose bottom the place is above: before it, also in the gap
\* above it, its top; in it, the ratio; past them all, the end of the last.
anchorAt(boxes, y, steps) ==
  LET k == SelectInSeq(boxes, LAMBDA box : y < box.top \/ y < Bottom(box))
  IN CASE boxes = <<>> -> Nowhere
       [] boxes # <<>> /\ k = 0 -> [block |-> Last(boxes).id, ratio |-> steps]
       [] OTHER ->
            [block |-> boxes[k].id,
             ratio |-> IF y < boxes[k].top \/ boxes[k].height = 0 THEN 0
                       ELSE Rounded(y - boxes[k].top, boxes[k].height, steps)]

\* The way back, in steps of a pixel; Nowhere when the block is gone.
scrollTopFor(boxes, anchor, steps) ==
  LET k == BoxOf(boxes, anchor.block)
  IN IF k = 0 THEN Nowhere
     ELSE boxes[k].top * steps + anchor.ratio * boxes[k].height

-----------------------------------------------------------------------------
(* Ink *)

fraction(value, extent, steps) ==
  IF extent <= 0 THEN 0 ELSE Rounded(value, extent, steps)

inkPointAt(boxes, px, py, steps) ==
  LET anchor == anchorAt(boxes, py, steps)
      box == boxes[BoxOf(boxes, anchor.block)]
  IN IF anchor = Nowhere THEN Nowhere
     ELSE [block |-> anchor.block, ratio |-> anchor.ratio,
           x |-> fraction(px - box.left, box.width, steps)]

inkPixelsFor(boxes, point, steps) ==
  LET k == BoxOf(boxes, point.block)
  IN IF k = 0 THEN Nowhere
     ELSE [x |-> boxes[k].left * steps + point.x * boxes[k].width,
           y |-> scrollTopFor(boxes, point, steps)]

\* A mark's segments, [block, points], as the runs of pixels to draw: a run
\* goes on over block boundaries and ends where a block is gone.
markPixelSegments(boxes, segments, steps) ==
  LET Pixels(segment) ==
        SelectSeq([i \in DOMAIN segment.points |->
                     inkPixelsFor(boxes, [block |-> segment.block,
                                          ratio |-> segment.points[i].ratio,
                                          x |-> segment.points[i].x], steps)],
                  LAMBDA pixel : pixel # Nowhere)
      Close(state) == IF state.current = <<>> THEN state.runs
                      ELSE Append(state.runs, state.current)
      Draw(state, segment) ==
        LET pixels == Pixels(segment)
        IN IF pixels = <<>> THEN [runs |-> Close(state), current |-> <<>>]
           ELSE [state EXCEPT !.current = @ \o pixels]
  IN Close(FoldLeft(Draw, [runs |-> <<>>, current |-> <<>>], segments))
=============================================================================
