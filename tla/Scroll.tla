------------------------------- MODULE Scroll -------------------------------
(***************************************************************************)
(* The place a share shows, from the presenter's scroller to a follower's: *)
(* use-focus-presence.ts and startSharing of focus-share.tsx, for two      *)
(* readers of one document, each with a layout of their own.  The document *)
(* is the order of its blocks, which others change.  Positions of the      *)
(* presenter are pixels, those of the follower pixels over RATIO_STEPS.    *)
(***************************************************************************)
EXTENDS Anchors

CONSTANTS
  Blocks,
  Opening,     \* the blocks at first
  Heights,     \* of each block in each reader's layout
  Views,       \* the height of each reader's scroller
  Gap,         \* the margin above a block
  RATIO_STEPS,
  MaxEdits, MaxActs \* bound the edits, and what the two readers do

VARIABLES
  doc,           \* the blocks, in their order
  at,            \* ... as each reader shows them
  top,           \* the presenter's scrollTop
  isPresenting,
  lastPublished, \* lastPublishedAnchorRef
  timer,         \* a publication is due
  presenting,    \* in the presenter's presence
  followed,      \* ... as the follower has it
  follow,        \* "no", "running" or "paused"
  target,        \* scrollTarget: where a jump goes
  rendered,      \* the dependencies of the last run of the follower's effect
  commanded,     \* lastScrolledToRef
  scroll,        \* the follower's scrollTop
  unread,        \* kept for the properties: the layout changed since it was read
  apart,         \* ...: the follower's scroller ended above the place
  edits, acts

vars == <<doc, at, top, isPresenting, lastPublished, timer, presenting, followed,
          follow, target, rendered, commanded, scroll, unread, apart, edits, acts>>

shared == <<isPresenting, lastPublished, timer, presenting, unread>>
view == <<followed, follow, target, rendered, commanded, scroll, apart>>

\* readBoxes.
Extent(r, order, i) ==
  MapThenSumSet(LAMBDA j : Heights[r][order[j]] + Gap, 1..i)

readBoxes(r, order) ==
  [i \in DOMAIN order |-> [id |-> order[i], top |-> Extent(r, order, i - 1) + Gap,
                           height |-> Heights[r][order[i]]]]

\* A scroller stops where its content ends.
End(r, order) == Max({0, Extent(r, order, Len(order)) - Views[r]})

Clamped(r, order, y) == Max({0, Min({y, End(r, order)})})

-----------------------------------------------------------------------------
(* The document *)

Insert(block) ==
  /\ block \notin Range(doc)
  /\ \E i \in 1..(Len(doc) + 1) : doc' = InsertAt(doc, i, block)

Delete == Len(doc) > 1 /\ \E i \in DOMAIN doc : doc' = RemoveAt(doc, i)

Edit ==
  /\ edits < MaxEdits /\ edits' = edits + 1
  /\ Delete \/ \E block \in Blocks : Insert(block)
  /\ UNCHANGED <<at, top, shared, view, acts>>

-----------------------------------------------------------------------------
(* The presenter *)

anchor == anchorAt(readBoxes("presenter", at["presenter"]), top, RATIO_STEPS)

Act == acts < MaxActs /\ acts' = acts + 1

startSharing ==
  /\ Act /\ ~isPresenting /\ isPresenting' = TRUE
  /\ presenting' = anchor /\ timer' = TRUE /\ unread' = FALSE
  /\ UNCHANGED <<doc, at, top, lastPublished, view, edits>>

\* The effect's cleanup takes the timer along.
stopSharing ==
  /\ Act /\ isPresenting /\ isPresenting' = FALSE
  /\ presenting' = Nowhere /\ timer' = FALSE /\ lastPublished' = Nowhere
  /\ UNCHANGED <<doc, at, top, unread, view, edits>>

\* onScroll: the event of a scroller that moved; a pending timer is left alone.
Scrolled(y) ==
  /\ top' = y
  /\ timer' = (timer \/ (isPresenting /\ y # top))

\* A scroll, a jump or a search of the presenter's own.
PresenterScroll ==
  /\ Act
  /\ \E y \in 0..End("presenter", at["presenter"]) : y # top /\ Scrolled(y)
  /\ UNCHANGED <<doc, at, isPresenting, lastPublished, presenting, unread, view, edits>>

\* New blocks: the browser holds the position, or holds on to what it shows.
PresenterSync ==
  /\ at["presenter"] # doc /\ at' = [at EXCEPT !["presenter"] = doc]
  /\ LET before == readBoxes("presenter", at["presenter"])
         after == readBoxes("presenter", doc)
         k == BoxOf(after, anchor.block)
         moved == IF k = 0 THEN 0
                  ELSE after[k].top - before[BoxOf(before, anchor.block)].top
     IN \E y \in {top, top + moved} : Scrolled(Clamped("presenter", doc, y))
  /\ unread' = TRUE
  /\ UNCHANGED <<doc, isPresenting, lastPublished, presenting, view, edits, acts>>

publish ==
  /\ timer /\ timer' = FALSE /\ unread' = FALSE
  /\ IF anchor = lastPublished THEN UNCHANGED <<lastPublished, presenting>>
     ELSE lastPublished' = anchor /\ presenting' = anchor
  /\ UNCHANGED <<doc, at, top, isPresenting, view, edits, acts>>

-----------------------------------------------------------------------------
(* The follower *)

\* Presence arrives in order; of several the last one stands.
Deliver ==
  /\ followed # presenting /\ followed' = presenting
  /\ UNCHANGED <<doc, at, top, shared, follow, target, rendered, commanded, scroll,
                 apart, edits, acts>>

\* The buttons are those of the last render.
join ==
  /\ Act /\ follow = "no" /\ rendered.follow = "no" /\ followed # Nowhere
  /\ follow' = "running"
  /\ UNCHANGED <<doc, at, top, shared, followed, target, rendered, commanded, scroll,
                 apart, edits>>

\* A wheel, a touch or a press, with the scroll it makes; the listeners are there
\* while a running follow is rendered.
OwnScroll ==
  /\ Act
  /\ \E y \in 0..End("follower", at["follower"]) : scroll' = y * RATIO_STEPS
  /\ follow' = IF follow = "running" /\ rendered.follow = "running" THEN "paused"
               ELSE follow
  /\ UNCHANGED <<doc, at, top, shared, followed, target, rendered, commanded, apart,
                 edits>>

unfollow ==
  /\ Act /\ rendered.follow # "no" /\ follow' = "no"
  /\ UNCHANGED <<doc, at, top, shared, followed, target, rendered, commanded, scroll,
                 apart, edits>>

\* Where a jump without a block goes.
Start == "start"

\* jumpTo or goToBlock: the follow is paused, the landing waits for the render.
jumpTo ==
  /\ Act /\ \E to \in Range(at["follower"]) \cup {Start} : target' = <<to>>
  /\ follow' = IF follow = "running" THEN "paused" ELSE follow
  /\ UNCHANGED <<doc, at, top, shared, followed, rendered, commanded, scroll, apart,
                 edits>>

\* goBack, or a block's address: nothing is paused.
goTo ==
  /\ Act /\ \E to \in Range(at["follower"]) \cup {Start} : target' = <<to>>
  /\ UNCHANGED <<doc, at, top, shared, followed, follow, rendered, commanded, scroll,
                 apart, edits>>

\* 재개 is offered once the pause is rendered.
resume ==
  /\ Act /\ follow = "paused" /\ rendered.follow = "paused" /\ follow' = "running"
  /\ UNCHANGED <<doc, at, top, shared, followed, target, rendered, commanded, scroll,
                 apart, edits>>

\* The jump lands: its block in the middle of the scroller.
Landed(boxes, order, from) ==
  LET k == IF target = Nowhere THEN 0 ELSE BoxOf(boxes, Head(target))
  IN IF target = <<Start>> THEN 0
     ELSE IF k = 0 THEN from
     ELSE RATIO_STEPS * Clamped("follower", order,
            boxes[k].top - (Views["follower"] - boxes[k].height) \div 2)

\* A pixel of slack.
Near(y, z) == y - z \in -RATIO_STEPS..RATIO_STEPS

Commanded(goal) == commanded # Nowhere /\ Near(goal, Head(commanded))

\* The follower's effect, from where the scroller stands.
Drive(place, boxes, order, from) ==
  LET goal == scrollTopFor(boxes, place, RATIO_STEPS)
      there == Min({goal, RATIO_STEPS * End("follower", order)})
  IN \/ /\ place = Nowhere
        /\ commanded' = Nowhere /\ scroll' = from /\ apart' = FALSE
     \/ /\ place # Nowhere
        /\ \/ BoxOf(boxes, place.block) = 0
           \/ BoxOf(boxes, place.block) # 0 /\ Commanded(goal)
        /\ scroll' = from /\ apart' = (apart \/ from # scroll) /\ UNCHANGED commanded
     \/ /\ place # Nowhere /\ BoxOf(boxes, place.block) # 0
        /\ ~Commanded(goal)
        /\ commanded' = <<goal>> /\ scroll' = there /\ apart' = (there # goal)

\* A render, and what it runs: an ended share is forgotten, the blocks are laid
\* out, a jump lands, and a running follow is driven if its dependencies changed.
FollowerRender ==
  LET driven == IF followed = Nowhere THEN "no" ELSE follow
      place == IF driven = "running" THEN followed ELSE Nowhere
  IN \E order \in {at["follower"], doc} :
       LET deps == [follow |-> driven, place |-> place, blocks |-> order]
           boxes == readBoxes("follower", order)
           held == Min({scroll, RATIO_STEPS * End("follower", order)})
           from == Landed(boxes, order, held)
       IN /\ deps # rendered \/ target # Nowhere \/ driven # follow
          /\ follow' = driven /\ target' = Nowhere /\ rendered' = deps
          /\ at' = [at EXCEPT !["follower"] = order]
          /\ IF deps # rendered THEN Drive(place, boxes, order, from)
             ELSE /\ scroll' = from /\ apart' = (apart \/ from # scroll)
                  /\ UNCHANGED commanded
          /\ UNCHANGED <<doc, top, shared, followed, edits, acts>>

Init ==
  /\ doc = Opening
  /\ at = [r \in {"presenter", "follower"} |-> doc]
  /\ top = 0 /\ isPresenting = FALSE /\ lastPublished = Nowhere /\ timer = FALSE
  /\ presenting = Nowhere /\ followed = Nowhere /\ follow = "no" /\ target = Nowhere
  /\ rendered = [follow |-> "no", place |-> Nowhere, blocks |-> doc]
  /\ commanded = Nowhere /\ scroll = 0 /\ unread = FALSE /\ apart = FALSE
  /\ edits = 0 /\ acts = 0

Next ==
  \/ Edit \/ startSharing \/ stopSharing \/ PresenterScroll \/ PresenterSync \/ publish
  \/ Deliver \/ join \/ unfollow \/ OwnScroll \/ jumpTo \/ goTo \/ resume \/ FollowerRender

Spec == Init /\ [][Next]_vars

-----------------------------------------------------------------------------
(* Properties *)

\* Everything published, arrived and rendered.
Settled ==
  /\ ~timer /\ followed = presenting /\ target = Nowhere
  /\ at = [r \in {"presenter", "follower"} |-> doc]
  /\ rendered = [follow |-> follow, blocks |-> doc,
                 place |-> IF follow = "running" THEN followed ELSE Nowhere]

\* Once everything has settled, a running follow shows what the presenter shows,
\* to a pixel of the follower's own layout: whatever others inserted or deleted
\* above, after a pause too, and though the share restarted where it was.  Left
\* out: a layout that changed without a scroll, which nothing reads; a scroller
\* that ends above the place; and a jump that paused nothing, after which the
\* follow stands still until the presenter moves (use-focus-presence.ts, both
\* effects).
ShowsThePlace ==
  Settled /\ follow = "running" /\ ~unread /\ ~apart =>
    LET goal == scrollTopFor(readBoxes("follower", doc), anchor, RATIO_STEPS)
    IN scroll = goal \/ Near(goal, scroll)
=============================================================================
