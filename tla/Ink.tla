--------------------------------- MODULE Ink ---------------------------------
(***************************************************************************)
(* What a presenter draws over a document and what a follower sees of it:  *)
(* ink-overlay.tsx in both browsers, lib/focus/ink.ts and inkFrom.  A      *)
(* presence is sent whole; the strokes travel as lists of anchored points. *)
(***************************************************************************)
EXTENDS Integers, Sequences, FiniteSets, SequencesExt

CONSTANTS
  Blocks,                         \* a point is a place in a block
  MaxPoints, MaxSegments, MarkCap, \* MAX_POINTS_PER_MARK and the other two caps
  MaxActs, MaxFeed                \* bounds what the two do, and what is on its way

VARIABLES
  isPresenting, picked, \* the presenter's share and tool
  mine, drawing, pointer, \* finished strokes, the one under the hand, the laser
  accepted,  \* the last point taken
  timer,     \* whether a publish is scheduled
  published, \* the presence Yorkie holds
  feed,      \* ... on its way to the follower
  known,     \* ... that the follower's document has
  following, received, trail, lastPointer, \* the follower's overlay
  acts

vars == <<isPresenting, picked, mine, drawing, pointer, accepted, timer,
          published, feed, known, following, received, trail, lastPointer, acts>>

strokes == <<mine, drawing, pointer, accepted>>
follower == <<known, following, received, trail, lastPointer>>

None == "none"
Points == [block : Blocks, at : 1..2]
NoPoint == [block |-> None, at |-> 0]
Blank == [marks |-> <<>>, pointer |-> NoPoint]

Tools == {"stroke", "pointer"}
tool == IF isPresenting THEN picked ELSE None

-----------------------------------------------------------------------------
(* lib/focus/ink.ts: a mark is its segments, each a block and its points *)

startMark(p) == <<[block |-> p.block, points |-> <<p.at>>]>>

pointCount(mark) == FoldLeft(LAMBDA n, s : n + Len(s.points), 0, mark)

\* The stroke freezes at a cap rather than losing its start.
extendMark(mark, p) ==
  IF pointCount(mark) >= MaxPoints THEN mark
  ELSE IF Last(mark).block = p.block
       THEN [mark EXCEPT ![Len(mark)].points = Append(@, p.at)]
  ELSE IF Len(mark) >= MaxSegments THEN mark
  ELSE mark \o startMark(p)

\* The oldest goes first.
capMarks(marks) ==
  IF Len(marks) <= MarkCap THEN marks
  ELSE SubSeq(marks, 1 + Len(marks) - MarkCap, Len(marks))

-----------------------------------------------------------------------------
(* The presenter *)

Act == acts < MaxActs /\ acts' = acts + 1

Shown(ms, d) == IF d = <<>> THEN ms ELSE Append(ms, d)

\* publishNow, after the refs have been set: the whole presence.
Send(presence) ==
  /\ Len(feed) < MaxFeed
  /\ published' = presence /\ feed' = Append(feed, presence)

publishNow == Send([marks |-> Shown(mine', drawing'), pointer |-> pointer'])

Unsent == UNCHANGED <<published, feed>>

StartShare ==
  /\ Act /\ ~isPresenting /\ isPresenting' = TRUE
  /\ UNCHANGED <<picked, strokes, timer, published, feed, follower>>

\* Settled during the render; the refs, the timer and the presence by an effect.
EndShare ==
  /\ Act /\ isPresenting /\ isPresenting' = FALSE
  /\ mine' = <<>> /\ drawing' = <<>> /\ pointer' = NoPoint /\ timer' = FALSE
  /\ Send(Blank)
  /\ UNCHANGED <<picked, accepted, follower>>

\* The toolbar; a pointer put away is cleared for the followers too.
Pick(kind) ==
  /\ Act /\ isPresenting
  /\ picked' = IF picked = kind THEN None ELSE kind
  /\ IF picked' = "pointer" \/ pointer = NoPoint
     THEN UNCHANGED <<strokes, timer>> /\ Unsent
     ELSE pointer' = NoPoint /\ UNCHANGED <<mine, drawing, accepted, timer>> /\ publishNow
  /\ UNCHANGED <<isPresenting, follower>>

onPointerDown(p) ==
  /\ Act /\ tool = "stroke" /\ drawing = <<>>
  /\ drawing' = startMark(p) /\ accepted' = p
  /\ UNCHANGED <<isPresenting, picked, mine, pointer, timer, follower>>
  /\ publishNow

\* Far enough from the last point taken.
onPointerMove(p) ==
  /\ Act /\ tool # None /\ p # accepted
  /\ tool = "stroke" => drawing # <<>>
  /\ accepted' = p /\ timer' = TRUE
  /\ IF tool = "pointer" THEN pointer' = p /\ UNCHANGED drawing
                         ELSE drawing' = extendMark(drawing, p) /\ UNCHANGED pointer
  /\ UNCHANGED <<isPresenting, picked, mine, follower>> /\ Unsent

Lifted == drawing # <<>> /\ drawing' = <<>> /\ accepted' = NoPoint /\ timer' = FALSE

\* Mutant: the end of a stroke is left to the publish it has just cancelled.
onPointerUpUnsent ==
  /\ Act /\ Lifted /\ mine' = capMarks(Append(mine, drawing))
  /\ UNCHANGED <<isPresenting, picked, pointer, follower>>
  /\ Unsent

onPointerUp ==
  /\ Act /\ Lifted /\ mine' = capMarks(Append(mine, drawing))
  /\ UNCHANGED <<isPresenting, picked, pointer, follower>>
  /\ publishNow

onPointerCancel ==
  /\ Act /\ Lifted /\ UNCHANGED mine
  /\ UNCHANGED <<isPresenting, picked, pointer, follower>>
  /\ publishNow

clearMine ==
  /\ Act /\ isPresenting /\ mine # <<>>
  /\ mine' = <<>> /\ timer' = FALSE
  /\ UNCHANGED <<isPresenting, picked, drawing, pointer, accepted, follower>>
  /\ publishNow

\* The trailing edge: whatever the refs hold when it fires.
Publish ==
  /\ timer /\ timer' = FALSE
  /\ UNCHANGED <<isPresenting, picked, strokes, follower, acts>>
  /\ publishNow

\* use-block-document.ts sends the whole presence again.
Heartbeat ==
  /\ Act /\ Send(published)
  /\ UNCHANGED <<isPresenting, picked, strokes, timer, follower>>

\* The presenter opens another document: its overlay and presence are new ones,
\* and the follower's with them.
ChangeDocument ==
  /\ Act
  /\ picked' = None /\ mine' = <<>> /\ drawing' = <<>> /\ pointer' = NoPoint
  /\ accepted' = NoPoint /\ timer' = FALSE
  /\ published' = Blank /\ feed' = <<>> /\ known' = Blank
  /\ received' = Blank
  /\ trail' = <<>> /\ lastPointer' = NoPoint
  /\ UNCHANGED <<isPresenting, following>>

-----------------------------------------------------------------------------
(* The follower *)

\* inkFrom: the followed presenter's, nobody else's.
inkFrom(presence, follows) == IF follows THEN presence ELSE Blank

\* The subscription's callback: the trail grows by a pointer that has moved.
Read(presence, follows, last, points) ==
  LET p == inkFrom(presence, follows).pointer
  IN /\ received' = inkFrom(presence, follows)
     /\ lastPointer' = p
     /\ trail' = IF p \in {NoPoint, last} THEN points ELSE Append(points, p)

Deliver ==
  /\ feed # <<>> /\ feed' = Tail(feed) /\ known' = Head(feed)
  /\ Read(known', following, lastPointer, trail)
  /\ UNCHANGED <<isPresenting, picked, strokes, timer, published, following, acts>>

\* A follow begins or ends: a new subscription, which reads what is known.
Follow ==
  /\ Act /\ following' = ~following
  /\ Read(known, following', NoPoint, <<>>)
  /\ UNCHANGED <<isPresenting, picked, strokes, timer, published, feed, known>>

\* The trail ages out, its oldest points first.
Fade ==
  /\ trail # <<>> /\ trail' = Tail(trail)
  /\ UNCHANGED <<isPresenting, picked, strokes, timer, published, feed, known,
                 following, received, lastPointer, acts>>

Init ==
  /\ isPresenting = FALSE /\ picked = None
  /\ mine = <<>> /\ drawing = <<>> /\ pointer = NoPoint /\ accepted = NoPoint
  /\ timer = FALSE /\ published = Blank /\ feed = <<>>
  /\ known = Blank /\ following = FALSE /\ received = Blank
  /\ trail = <<>> /\ lastPointer = NoPoint /\ acts = 0

Next ==
  \/ StartShare \/ EndShare \/ \E kind \in Tools : Pick(kind)
  \/ \E p \in Points : onPointerDown(p) \/ onPointerMove(p)
  \/ onPointerUp \/ onPointerCancel \/ clearMine \/ Publish \/ Heartbeat
  \/ ChangeDocument \/ Deliver \/ Follow \/ Fade

Spec == Init /\ [][Next]_vars

-----------------------------------------------------------------------------
(* Properties *)

\* When nothing is scheduled or on its way, a follower sees exactly what the
\* presenter has drawn and points at, whenever they joined and whatever was
\* drawn, cancelled, cleared or put away; and one who does not follow, nothing.
FollowerSeesTheInk ==
  ~timer /\ feed = <<>> =>
    received = IF following THEN [marks |-> Shown(mine, drawing), pointer |-> pointer]
               ELSE Blank
=============================================================================
