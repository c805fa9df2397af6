------------------------------- MODULE Windows -------------------------------
(***************************************************************************)
(* The floating windows of one browser: the views of blocks and files      *)
(* (floating-views.tsx, lib/floating/views.ts), the chat window            *)
(* (chat-window.tsx), their frame, drags and stacking order                *)
(* (floating-frame.tsx, use-frame-gesture.ts, window-stack.tsx), and       *)
(* lib/chat/window-frame.ts, where a window may be.  Lengths are pixels;   *)
(* the fraction of one is dropped.  A ratio is a pair, its height over its *)
(* width.                                                                  *)
(***************************************************************************)
EXTENDS Integers, Sequences, FiniteSets, SequencesExt

CONSTANTS
  Refs,          \* what a view can be of
  MaxViews,      \* MAX_VIEWS
  Viewports,     \* the sizes of the browser's window
  Content,       \* the sizes a content is measured at
  Drags,         \* how far a pointer is moved
  MaxActs        \* bounds what the person does

VARIABLES
  viewport,
  views,    \* [ref, frame, base], base Loose until the content is measured
  storage,  \* localStorage: the views and the chat's frame
  chat,     \* whether it is open, and its frame
  order,    \* the windows, back to front
  gesture,  \* the drag under way, and the last frame it made
  dragging, \* the frame a view shows instead of the saved one
  disturbed, \* kept for the properties: views resized or measured mid-drag
  acts

vars == <<viewport, views, storage, chat, order, gesture, dragging, disturbed, acts>>

-----------------------------------------------------------------------------
(* lib/chat/window-frame.ts *)

MIN_WIDTH == 260
MIN_HEIGHT == 220
BAR_HEIGHT == 40
HEADER == 36
MIN_CONTENT_WIDTH == 120
MIN_FIT_WIDTH == 160

Least(a, b) == IF a < b THEN a ELSE b
Most(a, b) == IF a < b THEN b ELSE a
Abs(n) == IF n < 0 THEN -n ELSE n

\* The lower bound wins over an upper bound below it.
between(value, lo, hi) == Least(Most(value, lo), Most(lo, hi))

Loose == [width |-> 0, height |-> 0]
ChatMin == [width |-> MIN_WIDTH, height |-> MIN_HEIGHT]

\* The size before the position, and the bar's strip is nobody's.
clamp(frame, vp, min) ==
  LET usableHeight == vp.height - BAR_HEIGHT
      width == between(frame.width, min.width, vp.width)
      height == between(frame.height, min.height, usableHeight)
  IN [width |-> width, height |-> height,
      x |-> between(frame.x, 0, vp.width - width),
      y |-> between(frame.y, 0, usableHeight - height)]

defaultFrame(vp) ==
  LET width == Most(MIN_WIDTH, vp.width \div 3)
      height == Most(MIN_HEIGHT, vp.height \div 3)
  IN clamp([x |-> vp.width - width, width |-> width,
            y |-> vp.height - BAR_HEIGHT - height, height |-> height],
           vp, ChatMin)

Moved(frame, dx, dy) == [frame EXCEPT !.x = @ + dx, !.y = @ + dy]

\* The moving edge is held between positions; the others stay.
applyGesture(kind, start, dx, dy, vp) ==
  LET right == start.x + start.width
      bottom == start.y + start.height
      left == between(start.x + dx, 0, right - MIN_WIDTH)
  IN CASE kind = "move" -> clamp(Moved(start, dx, dy), vp, ChatMin)
       [] kind = "left" -> [start EXCEPT !.x = left, !.width = right - left]
       [] kind = "right" ->
            [start EXCEPT !.width =
               between(right + dx, start.x + MIN_WIDTH, vp.width) - start.x]
       [] kind = "bottom" ->
            [start EXCEPT !.height =
               between(bottom + dy, start.y + MIN_HEIGHT, vp.height - BAR_HEIGHT) - start.y]

-----------------------------------------------------------------------------
(* A floating view keeps the ratio of its content *)

ratioOf(frame, base) ==
  IF base # Loose THEN <<base.height, base.width>>
  ELSE <<Most(frame.height - HEADER, 1), frame.width>>

withWidth(frame, width, ratio) ==
  [frame EXCEPT !.width = width, !.height = HEADER + (width * ratio[1]) \div ratio[2]]

Widest(width, height, ratio) == Least(width, (height * ratio[2]) \div ratio[1])

fitFloating(frame, base, vp) ==
  LET ratio == ratioOf(frame, base)
      widest == Widest(vp.width, vp.height - BAR_HEIGHT - HEADER, ratio)
  IN clamp(withWidth(frame, Least(frame.width, widest), ratio), vp, Loose)

\* The corner follows whichever axis the pointer moved further along.
applyFloatingGesture(kind, start, dx, dy, vp, base) ==
  LET ratio == ratioOf(start, base)
      contentHeight == start.height - HEADER
      wanted == IF Abs(dx) * contentHeight >= Abs(dy) * start.width
                THEN start.width + dx
                ELSE (start.width * (contentHeight + dy)) \div contentHeight
      widest == Widest(vp.width - start.x,
                       vp.height - BAR_HEIGHT - start.y - HEADER, ratio)
      narrowest == Least(MIN_CONTENT_WIDTH, start.width)
  IN IF kind = "move" THEN clamp(Moved(start, dx, dy), vp, Loose)
     ELSE withWidth(start, Least(Most(wanted, narrowest), widest), ratio)

-----------------------------------------------------------------------------
Chat == "chat"
Keys == Refs \cup {Chat}
MENUS == 40
BASE == MENUS - (MaxViews + 1)

NoFrame == [x |-> 0, y |-> 0, width |-> 0, height |-> 0]
NoGesture == [key |-> "none", kind |-> "none", start |-> NoFrame, last |-> NoFrame]

RefsOf(vs) == {vs[i].ref : i \in DOMAIN vs}
View(ref) == views[CHOOSE i \in DOMAIN views : views[i].ref = ref]

Act == acts < MaxActs /\ acts' = acts + 1

-----------------------------------------------------------------------------
(* lib/floating/views.ts *)

\* What is whole in the storage, each source once, up to the cap.
parseViews(raw) ==
  FoldLeft(LAMBDA vs, v :
             IF v.frame.width > 0 /\ v.ref \notin RefsOf(vs) /\ Len(vs) < MaxViews
             THEN Append(vs, v) ELSE vs, <<>>, raw)

isFull(vs, ref) == Len(vs) >= MaxViews /\ ref \notin RefsOf(vs)

Slot(i, origin, vp) ==
  clamp([x |-> origin.x + 24 * (i + 1), y |-> origin.y + 24 * (i + 1),
         width |-> 320, height |-> 220], vp, Loose)

Taken(vs, frame) ==
  \E i \in DOMAIN vs : vs[i].frame.x = frame.x /\ vs[i].frame.y = frame.y

\* In the first slot that no window sits on.
openView(vs, ref, vp, origin) ==
  LET free == {i \in 0 .. Len(vs) : i = Len(vs) \/ ~Taken(vs, Slot(i, origin, vp))}
      i == CHOOSE i \in free : \A j \in free : i <= j
  IN IF Len(vs) >= MaxViews \/ ref \in RefsOf(vs) THEN vs
     ELSE Append(vs, [ref |-> ref, frame |-> Slot(i, origin, vp), base |-> Loose])

closeView(vs, ref) == SelectSeq(vs, LAMBDA v : v.ref # ref)

moveView(vs, ref, frame) ==
  [i \in DOMAIN vs |-> IF vs[i].ref = ref THEN [vs[i] EXCEPT !.frame = frame] ELSE vs[i]]

fitView(vs, ref, measured, vp) ==
  LET base == [measured EXCEPT !.width = Most(@, MIN_FIT_WIDTH)]
      Sized(frame) == [frame EXCEPT !.width = base.width, !.height = HEADER + base.height]
  IN [i \in DOMAIN vs |->
        IF vs[i].ref # ref THEN vs[i]
        ELSE [ref |-> ref, base |-> base,
              frame |-> fitFloating(Sized(vs[i].frame), base, vp)]]

-----------------------------------------------------------------------------
(* window-stack.tsx *)

Without(key) == SelectSeq(order, LAMBDA k : k # key)
raise(key) == order' = Append(Without(key), key)
drop(key) == order' = Without(key)

ZIndex(key) == BASE + SelectInSeq(order, LAMBDA k : k = key) - 1

-----------------------------------------------------------------------------
(* The views *)

\* update: what changes the list is saved, unless the storage refuses it.
Update(vs) ==
  /\ views' = vs
  /\ storage' \in {storage, [storage EXCEPT !.views = vs]}

\* A drag of a view that has changed under it starts its effect anew.
Rerun ==
  gesture' = IF gesture.key \in RefsOf(views) /\ views' # views
             THEN [gesture EXCEPT !.last = NoFrame] ELSE gesture

Disturbs(keys) == disturbed' = disturbed \cup (keys \cap {gesture.key})

\* Refused at the cap; otherwise in front, as it mounts.
Open(ref) ==
  /\ Act /\ ref \notin RefsOf(views) /\ ~isFull(views, ref)
  /\ \E x \in {0, 200} : Update(openView(views, ref, viewport, [x |-> x, y |-> 0]))
  /\ raise(ref)
  /\ UNCHANGED <<viewport, chat, gesture, dragging, disturbed>>

\* The ✕ or Escape; a drag ends with its window.
Close(ref) ==
  /\ Act /\ ref \in RefsOf(views)
  /\ Update(closeView(views, ref)) /\ drop(ref)
  /\ gesture' = IF gesture.key = ref THEN NoGesture ELSE gesture
  /\ dragging' = [dragging EXCEPT ![ref] = NoFrame]
  /\ disturbed' = disturbed \ {ref}
  /\ UNCHANGED <<viewport, chat>>

\* The content's first render measures it.
Fit(ref) ==
  /\ ref \in RefsOf(views) /\ View(ref).base = Loose
  /\ \E measured \in Content : Update(fitView(views, ref, measured, viewport))
  /\ Rerun /\ Disturbs({ref})
  /\ UNCHANGED <<viewport, chat, order, dragging, acts>>

\* Mutant: the windows are left where they were.
ResizeOnly ==
  /\ Act /\ \E vp \in Viewports \ {viewport} : viewport' = vp
  /\ chat' = [chat EXCEPT !.frame = IF @ = NoFrame THEN @ ELSE clamp(@, viewport', ChatMin)]
  /\ UNCHANGED <<views, storage, order, gesture, dragging, disturbed>>

Resize ==
  /\ Act /\ \E vp \in Viewports \ {viewport} : viewport' = vp
  /\ Update([i \in DOMAIN views |->
               [views[i] EXCEPT !.frame = fitFloating(@, views[i].base, viewport')]])
  /\ dragging' = [ref \in Refs |->
                    IF dragging[ref] = NoFrame THEN NoFrame
                    ELSE fitFloating(dragging[ref], View(ref).base, viewport')]
  /\ chat' = [chat EXCEPT !.frame = IF @ = NoFrame THEN @ ELSE clamp(@, viewport', ChatMin)]
  /\ Rerun /\ Disturbs(Keys)
  /\ UNCHANGED order

-----------------------------------------------------------------------------
(* The chat window *)

\* openWindow, also for a message to land on or a link to attach.
OpenChat ==
  /\ Act
  /\ LET saved == IF storage.chat = NoFrame THEN defaultFrame(viewport) ELSE storage.chat
     IN chat' = [open |-> TRUE,
                 frame |-> IF chat.frame = NoFrame THEN clamp(saved, viewport, ChatMin)
                           ELSE chat.frame]
  /\ raise(Chat)
  /\ UNCHANGED <<viewport, views, storage, gesture, dragging, disturbed>>

CloseChat ==
  /\ Act /\ chat.open /\ chat' = [chat EXCEPT !.open = FALSE] /\ drop(Chat)
  /\ UNCHANGED <<viewport, views, storage, gesture, dragging, disturbed>>

-----------------------------------------------------------------------------
(* Drags: a press raises the window and begins one *)

Shown(key) == IF key = Chat THEN chat.frame
              ELSE IF dragging[key] # NoFrame THEN dragging[key] ELSE View(key).frame

Begin(key, kind) ==
  /\ Act /\ gesture = NoGesture /\ key \in ToSet(order)
  /\ kind \in IF key = Chat THEN {"move", "left", "right", "bottom"} ELSE {"move", "corner"}
  /\ gesture' = [key |-> key, kind |-> kind, start |-> Shown(key), last |-> NoFrame]
  /\ raise(key)
  /\ UNCHANGED <<viewport, views, storage, chat, dragging, disturbed>>

Applied(d) ==
  IF gesture.key = Chat THEN applyGesture(gesture.kind, gesture.start, d[1], d[2], viewport)
  ELSE applyFloatingGesture(gesture.kind, gesture.start, d[1], d[2], viewport,
                            View(gesture.key).base)

PointerMove ==
  /\ Act /\ gesture # NoGesture
  /\ \E d \in Drags :
       /\ gesture' = [gesture EXCEPT !.last = Applied(d)]
       /\ IF gesture.key = Chat
          THEN chat' = [chat EXCEPT !.frame = Applied(d)] /\ UNCHANGED dragging
          ELSE dragging' = [dragging EXCEPT ![gesture.key] = Applied(d)] /\ UNCHANGED chat
  /\ UNCHANGED <<viewport, views, storage, order, disturbed>>

\* onEnd: the frame the drag left is saved, once.
Ended(last) ==
  /\ gesture' = NoGesture
  /\ IF last = NoFrame THEN UNCHANGED <<views, storage, chat, dragging>>
     ELSE IF gesture.key = Chat
       THEN /\ chat' = [chat EXCEPT !.frame = last]
            /\ storage' \in {storage, [storage EXCEPT !.chat = last]}
            /\ UNCHANGED <<views, dragging>>
       ELSE /\ Update(moveView(views, gesture.key, last))
            /\ dragging' = [dragging EXCEPT ![gesture.key] = NoFrame]
            /\ UNCHANGED chat

\* The release counts as a move, unless the pointer is where it was pressed.
PointerUp ==
  /\ Act /\ gesture # NoGesture
  /\ \E d \in Drags \cup {<<0, 0>>} :
       Ended(IF d = <<0, 0>> THEN gesture.last ELSE Applied(d))
  /\ UNCHANGED <<viewport, order, disturbed>>

PointerCancel ==
  /\ Act /\ gesture # NoGesture /\ Ended(gesture.last)
  /\ UNCHANGED <<viewport, order, disturbed>>

\* A press, a focus, or a press inside a PDF.
Raise(key) ==
  /\ Act /\ key \in ToSet(order) /\ raise(key) /\ order' # order
  /\ UNCHANGED <<viewport, views, storage, chat, gesture, dragging, disturbed>>

\* The page loads anew: the views of the storage, fitted to the viewport.
Reload ==
  /\ Act
  /\ views' = LET vs == parseViews(storage.views)
              IN [i \in DOMAIN vs |->
                    [vs[i] EXCEPT !.frame = fitFloating(@, vs[i].base, viewport)]]
  /\ order' = [i \in DOMAIN views' |-> views'[i].ref]
  /\ chat' = [open |-> FALSE, frame |-> NoFrame]
  /\ gesture' = NoGesture /\ dragging' = [ref \in Refs |-> NoFrame] /\ disturbed' = {}
  /\ UNCHANGED <<viewport, storage>>

Init ==
  /\ viewport \in Viewports /\ views = <<>>
  /\ storage = [views |-> <<>>, chat |-> NoFrame]
  /\ chat = [open |-> FALSE, frame |-> NoFrame]
  /\ order = <<>> /\ gesture = NoGesture
  /\ dragging = [ref \in Refs |-> NoFrame] /\ disturbed = {} /\ acts = 0

Next ==
  \/ \E ref \in Refs : Open(ref) \/ Close(ref) \/ Fit(ref)
  \/ Resize \/ OpenChat \/ CloseChat \/ Reload
  \/ \E key \in Keys, kind \in {"move", "corner", "left", "right", "bottom"} : Begin(key, kind)
  \/ PointerMove \/ PointerUp \/ PointerCancel \/ \E key \in Keys : Raise(key)

Spec == Init /\ [][Next]_vars

-----------------------------------------------------------------------------
(* Properties *)

Inside(frame) ==
  /\ frame.x >= 0 /\ frame.y >= 0 /\ frame.width > 0
  /\ frame.x + frame.width <= viewport.width
  /\ frame.y + frame.height <= viewport.height - BAR_HEIGHT

\* No drag, resize, measurement or reload leaves a window where it cannot be
\* reached: each is inside the viewport, clear of the bar that opens the chat,
\* once in the stacking order, and under the menus.  A viewport that shrinks
\* under a running drag is the exception the code does not meet.
WindowsReachable ==
  /\ ToSet(order) = RefsOf(views) \cup (IF chat.open THEN {Chat} ELSE {})
  /\ \A key \in ToSet(order) :
       /\ ZIndex(key) \in BASE .. MENUS - 1
       /\ key \in disturbed \/ Inside(Shown(key))
=============================================================================
