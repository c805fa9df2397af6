---------------------------- MODULE BrowserProofs ----------------------------
(***************************************************************************)
(* Proofs about Browser: the component of a behavior has an inductive      *)
(* invariant, which says nothing where another component is the one.       *)
(***************************************************************************)
EXTENDS Browser, FiniteSetTheorems, SequenceTheorems, WellFoundedInduction, TLAPS

\* Every step of a behavior is its component's, or none.
LEMMA ComponentMoves ==
  ASSUME [Next]_vars
  PROVE  /\ scenario' = scenario
         /\ scenario = "list" => [List!Next]_listVars
         /\ scenario = "mirrors" => [Mirror!Next]_mirrorVars
         /\ scenario = "tabs" => [Tab!Next]_tabVars
         /\ scenario = "follow" => [Focus!Next]_followVars
         /\ scenario = "ink" => [Pens!Next]_inkVars
         /\ scenario = "windows" => [Frame!Next]_windowVars
         /\ scenario = "editor" => [Page!Next]_editorVars
         /\ scenario = "scroll" => [Place!Next]_scrollVars
<1>1. CASE Next
  BY <1>1 DEF Next
<1>2. CASE UNCHANGED vars
  BY <1>2 DEF vars
<1> QED BY <1>1, <1>2

-----------------------------------------------------------------------------
(* The ink *)

\* What the presenter's hands hold.
Drawn == [marks |-> Pens!Shown(mine, drawing), pointer |-> pointer]

\* Yorkie holds what is drawn, unless a publish is due; what is on its way to the
\* follower ends in what Yorkie holds; and the follower shows what has arrived.
InkInv ==
  /\ \E S : inkFeed \in Seq(S)
  /\ inkTimer \in BOOLEAN
  /\ ~inkTimer => published = Drawn
  /\ (IF inkFeed = <<>> THEN known ELSE inkFeed[Len(inkFeed)]) = published
  /\ received = Pens!inkFrom(known, following)

LEMMA InkStarts ==
  ASSUME Pens!Init
  PROVE  InkInv
<1>1. inkFeed \in Seq({})
  BY DEF Pens!Init
<1> QED BY <1>1 DEF Pens!Init, InkInv, Drawn, Pens!Shown, Pens!Blank, Pens!inkFrom

\* A presence that is sent is the last on its way.
LEMMA SentIsLast ==
  ASSUME NEW S, inkFeed \in Seq(S), NEW presence, Pens!Send(presence)
  PROVE  /\ \E T : inkFeed' \in Seq(T)
         /\ inkFeed' # <<>> /\ inkFeed'[Len(inkFeed')] = presence
         /\ published' = presence
<1>1. inkFeed \in Seq(S \cup {presence}) /\ inkFeed' = Append(inkFeed, presence)
  BY DEF Pens!Send
<1> QED BY <1>1 DEF Pens!Send

\* After a whole presence, what Yorkie holds is what is drawn.
LEMMA PublishedKeeps ==
  ASSUME InkInv, Pens!publishNow, UNCHANGED Pens!follower, inkTimer' \in BOOLEAN
  PROVE  InkInv'
<1>1. PICK S : inkFeed \in Seq(S)
  BY DEF InkInv
<1>2. Drawn' = [marks |-> Pens!Shown(mine', drawing'), pointer |-> pointer']
  BY DEF Drawn, Pens!Shown
<1>3. Pens!Send(Drawn')
  BY <1>2 DEF Pens!publishNow
<1>4. /\ \E T : inkFeed' \in Seq(T)
      /\ inkFeed' # <<>> /\ inkFeed'[Len(inkFeed')] = Drawn'
      /\ published' = Drawn'
  BY <1>1, <1>3, SentIsLast
<1> QED BY <1>4 DEF InkInv, Pens!follower, Pens!inkFrom

\* What neither publishes nor touches the follower leaves the rest to the timer.
LEMMA UnsentKeeps ==
  ASSUME InkInv, UNCHANGED <<published, inkFeed>>, UNCHANGED Pens!follower,
         \/ inkTimer' = TRUE
         \/ UNCHANGED <<mine, drawing, pointer, inkTimer>>
  PROVE  InkInv'
BY DEF InkInv, Drawn, Pens!Shown, Pens!follower, Pens!inkFrom

LEMMA InkSteps ==
  ASSUME InkInv, [Pens!Next]_inkVars
  PROVE  InkInv'
<1> USE DEF Pens!strokes, Pens!Unsent
<1>1. CASE Pens!StartShare
  BY <1>1, UnsentKeeps DEF Pens!StartShare
<1>2. CASE Pens!EndShare
  <2>1. Pens!Blank = [marks |-> Pens!Shown(mine', drawing'), pointer |-> pointer']
    BY <1>2 DEF Pens!EndShare, Pens!Blank, Pens!Shown
  <2>2. Pens!publishNow
    BY <1>2, <2>1 DEF Pens!EndShare, Pens!publishNow
  <2> QED BY <1>2, <2>2, PublishedKeeps DEF Pens!EndShare
<1>3. ASSUME NEW kind \in Pens!Tools, Pens!Pick(kind)
      PROVE  InkInv'
  <2>1. CASE picked' = "pointer" \/ pointer = Pens!NoPoint
    BY <1>3, <2>1, UnsentKeeps DEF Pens!Pick
  <2>2. CASE ~(picked' = "pointer" \/ pointer = Pens!NoPoint)
    BY <1>3, <2>2, PublishedKeeps DEF Pens!Pick, InkInv
  <2> QED BY <2>1, <2>2
<1>4. ASSUME NEW p \in Pens!Points, Pens!onPointerDown(p)
      PROVE  InkInv'
  BY <1>4, PublishedKeeps DEF Pens!onPointerDown, InkInv
<1>5. ASSUME NEW p \in Pens!Points, Pens!onPointerMove(p)
      PROVE  InkInv'
  BY <1>5, UnsentKeeps DEF Pens!onPointerMove
<1>6. CASE Pens!onPointerUp \/ Pens!onPointerCancel
  BY <1>6, PublishedKeeps DEF Pens!onPointerUp, Pens!onPointerCancel, Pens!Lifted
<1>7. CASE Pens!clearMine
  BY <1>7, PublishedKeeps DEF Pens!clearMine
<1>8. CASE Pens!Publish
  BY <1>8, PublishedKeeps DEF Pens!Publish
<1>9. CASE Pens!Heartbeat
  <2>1. PICK S : inkFeed \in Seq(S)
    BY DEF InkInv
  <2>2. Pens!Send(published)
    BY <1>9 DEF Pens!Heartbeat
  <2>3. /\ \E T : inkFeed' \in Seq(T)
        /\ inkFeed' # <<>> /\ inkFeed'[Len(inkFeed')] = published
        /\ published' = published
    BY <2>1, <2>2, SentIsLast
  <2> QED BY <1>9, <2>3 DEF Pens!Heartbeat, Pens!follower, InkInv, Drawn, Pens!Shown,
                            Pens!inkFrom
<1>10. CASE Pens!ChangeDocument
  <2>1. inkFeed' \in Seq({})
    BY <1>10 DEF Pens!ChangeDocument
  <2>2. Drawn' = Pens!Blank
    BY <1>10 DEF Pens!ChangeDocument, Drawn, Pens!Shown, Pens!Blank
  <2> QED BY <1>10, <2>1, <2>2 DEF Pens!ChangeDocument, InkInv, Pens!inkFrom, Pens!Blank
<1>11. CASE Pens!Deliver
  <2>1. PICK S : inkFeed \in Seq(S)
    BY DEF InkInv
  <2>2. /\ inkFeed # <<>> /\ inkFeed' = Tail(inkFeed) /\ known' = Head(inkFeed)
        /\ received' = Pens!inkFrom(known', following)
        /\ UNCHANGED <<mine, drawing, pointer, inkTimer, published, following>>
    BY <1>11 DEF Pens!Deliver, Pens!Read
  <2>3. inkFeed' \in Seq(S)
    BY <2>1, <2>2
  <2>4. (IF inkFeed' = <<>> THEN known' ELSE inkFeed'[Len(inkFeed')]) = inkFeed[Len(inkFeed)]
    BY <2>1, <2>2
  <2> QED BY <2>2, <2>3, <2>4 DEF InkInv, Drawn, Pens!Shown, Pens!inkFrom
<1>12. CASE Pens!Follow
  <2>1. received' = Pens!inkFrom(known, following')
    BY <1>12 DEF Pens!Follow, Pens!Read
  <2> QED BY <1>12, <2>1 DEF Pens!Follow, InkInv, Drawn, Pens!Shown, Pens!inkFrom
<1>13. CASE Pens!Fade
  BY <1>13 DEF Pens!Fade, InkInv, Drawn, Pens!Shown, Pens!inkFrom
<1>14. CASE UNCHANGED inkVars
  BY <1>14 DEF inkVars, InkInv, Drawn, Pens!Shown, Pens!inkFrom
<1> QED BY <1>1, <1>2, <1>3, <1>4, <1>5, <1>6, <1>7, <1>8, <1>9, <1>10, <1>11, <1>12,
           <1>13, <1>14 DEF Pens!Next

\* Whenever nothing is due or on its way, a follower sees what the presenter has
\* drawn and points at, and who does not follow sees nothing (ink-overlay.tsx,
\* publishNow).
THEOREM FollowersSeeTheInk == Spec => []FollowerSeesTheInk
<1> DEFINE Inv == scenario = "ink" => InkInv
<1>1. Init => Inv
  BY InkStarts DEF Init
<1>2. Inv /\ [Next]_vars => Inv'
  <2> SUFFICES ASSUME Inv, [Next]_vars
               PROVE  Inv'
    OBVIOUS
  <2> QED BY ComponentMoves, InkSteps
<1>3. Inv => FollowerSeesTheInk
  BY DEF InkInv, Drawn, FollowerSeesTheInk, Pens!FollowerSeesTheInk, Pens!inkFrom
<1> QED BY <1>1, <1>2, <1>3, PTL DEF Spec

-----------------------------------------------------------------------------
(* The follow *)

Pages == FollowDocs \cup {Focus!None}

Follows == [id : Others, paused : BOOLEAN] \cup {Focus!NoFollow}

FollowTypes ==
  /\ members \in [Others -> Pages \cup {Focus!Gone}]
  /\ lastRoster \in [Others -> Pages \cup {Focus!Gone}]
  /\ current \in Follows /\ drawn \in Follows
  /\ shareStarted \in Others \cup {Focus!None}
  /\ sentTo \in Pages
  /\ strayed \in BOOLEAN /\ own \in BOOLEAN

\* A follow of a share that was seen is of one that was joined, and a notice is
\* only shown to who follows nobody.
FollowChosen ==
  /\ Focus!FollowsByChoice
  /\ drawn # Focus!NoFollow => Focus!Sharing(drawn.id, lastRoster)
  /\ current # Focus!NoFollow => shareStarted = Focus!None

\* Where a running follow was last taken: to the presenter's document as of the
\* last render, by a navigation that stands unless the person has made another.
FollowTaken ==
  /\ ~Focus!Running(drawn) => sentTo = Focus!None
  /\ Focus!Running(drawn) /\ current = drawn => lastRoster[drawn.id] \in {seenPath, sentTo}
  /\ sentTo # Focus!None /\ ~strayed => followGoing.to = sentTo

FollowInv == FollowTypes /\ FollowChosen /\ FollowTaken /\ Focus!NotPulledBack

LEMMA FollowStarts == Focus!Init => FollowInv
BY FollowAssumption
   DEF Focus!Init, FollowInv, FollowTypes, FollowChosen, FollowTaken, Pages, Follows,
       Focus!NotPulledBack, Focus!FollowsByChoice, Focus!Running, Focus!NoFollow

\* A render forgets a follow whose share has ended, and takes a running one along.
LEMMA RenderKeeps ==
  ASSUME FollowInv, Focus!Render
  PROVE  FollowInv'
<1> DEFINE now == Focus!Settled
<1>1. now \in Follows /\ (now # Focus!NoFollow => now = current /\ Focus!Sharing(now.id, members))
  BY DEF Focus!Settled, Focus!Ended, FollowInv, FollowTypes, Follows
<1>2. /\ drawn' = now /\ lastRoster' = members /\ members' = members
      /\ seenPath' = followRoute /\ followRoute' = followRoute /\ strayed' = strayed
      /\ joined' = {m \in joined : Focus!Sharing(m, members)}
  BY DEF Focus!Render, Focus!Driven
<1>3. \/ ~Focus!Running(now) /\ sentTo' = Focus!None /\ current' = now /\ followGoing' = followGoing
      \/ /\ Focus!Running(now) /\ current' = now /\ members[now.id] \in {followRoute, sentTo}
         /\ UNCHANGED <<sentTo, followGoing>>
      \/ /\ Focus!Running(now) /\ current' = [now EXCEPT !.paused = TRUE]
         /\ UNCHANGED <<sentTo, followGoing>>
      \/ /\ Focus!Running(now) /\ current' = now /\ sentTo' = members[now.id]
         /\ followGoing'.to = sentTo'
  BY DEF Focus!Render, Focus!Driven, Focus!Undriven
<1>4. Focus!Running(now) => now \in [id : Others, paused : BOOLEAN] /\ now.id \in Others
  BY <1>1 DEF Focus!Running, Follows
<1>5. FollowTypes'
  <2>1. current' \in Follows
    BY <1>1, <1>3, <1>4 DEF Follows
  <2>2. sentTo' \in Pages
    BY <1>1, <1>3, <1>4 DEF FollowInv, FollowTypes, Focus!Running, Focus!Sharing, Pages
  <2>3. shareStarted' \in Others \cup {Focus!None}
    BY DEF Focus!Render, Focus!Announced, FollowInv, FollowTypes
  <2>4. own' \in BOOLEAN
    BY DEF Focus!Render, FollowInv, FollowTypes
  <2> QED BY <1>1, <1>2, <2>1, <2>2, <2>3, <2>4 DEF FollowInv, FollowTypes
<1>6. FollowChosen'
  <2>1. current' # Focus!NoFollow => now # Focus!NoFollow /\ current'.id = now.id
    BY <1>3, <1>4 DEF Focus!Running
  <2>2. (Focus!FollowsByChoice)'
    BY <1>1, <1>2, <2>1, <1>4 DEF Focus!FollowsByChoice, FollowInv, FollowChosen
  <2>3. drawn' # Focus!NoFollow => Focus!Sharing(drawn'.id, lastRoster')
    BY <1>1, <1>2
  <2>4. current' # Focus!NoFollow => shareStarted' = Focus!None
    <3> SUFFICES ASSUME current' # Focus!NoFollow
                 PROVE  shareStarted' = Focus!None
      OBVIOUS
    <3>1. current # Focus!NoFollow /\ shareStarted = Focus!None
      BY <1>1, <2>1 DEF FollowInv, FollowChosen
    <3> QED BY <3>1 DEF Focus!Render, Focus!Announced
  <2> QED BY <2>2, <2>3, <2>4 DEF FollowChosen, Focus!Sharing
<1>7. FollowTaken'
  <2>1. ~Focus!Running(drawn') => sentTo' = Focus!None
    BY <1>2, <1>3
  <2>2. ASSUME Focus!Running(drawn'), current' = drawn'
        PROVE  lastRoster'[drawn'.id] \in {seenPath', sentTo'}
    <3>1. ~(current' = [now EXCEPT !.paused = TRUE])
      BY <1>2, <1>4, <2>2 DEF Focus!Running
    <3> QED BY <1>2, <1>3, <2>2, <3>1
  <2>3. sentTo' # Focus!None /\ ~strayed' => followGoing'.to = sentTo'
    BY <1>2, <1>3 DEF FollowInv, FollowTaken
  <2> QED BY <2>1, <2>2, <2>3 DEF FollowTaken, Focus!Running
<1>8. (Focus!NotPulledBack)'
  <2> SUFFICES ASSUME own'
               PROVE  ~Focus!Running(current')
    BY DEF Focus!NotPulledBack, Focus!Running
  <2>1. CASE own
    BY <1>1, <1>3, <2>1 DEF FollowInv, Focus!NotPulledBack, Focus!Running
  <2>2. CASE ~own
    <3>1. Focus!Running(now) /\ Focus!MovedAway /\ members[now.id] # followRoute
      BY <2>2, FollowAssumption
         DEF Focus!Render, Focus!MovedAway, FollowInv, FollowTypes, Pages
    <3>2. current' = [now EXCEPT !.paused = TRUE]
      BY <3>1 DEF Focus!Render, Focus!Driven
    <3> QED BY <1>4, <3>1, <3>2 DEF Focus!Running
  <2> QED BY <2>1, <2>2
<1> QED BY <1>5, <1>6, <1>7, <1>8 DEF FollowInv

\* What the person does between two renders pauses the follow, ends it, or leaves
\* it, and a navigation of their own is marked.
LEMMA ActKeeps ==
  ASSUME FollowInv, Focus!Act,
         current' \in {current, Focus!Paused, Focus!NoFollow},
         UNCHANGED <<members, lastRoster, drawn, followRoute, seenPath, sentTo, joined,
                     shareStarted, own>>,
         UNCHANGED <<followGoing, strayed>> \/ strayed' = TRUE
  PROVE  FollowInv'
<1>1. Focus!Paused \in Follows /\ ~Focus!Running(Focus!Paused)
  BY DEF Focus!Paused, FollowInv, FollowTypes, Follows, Focus!Running
<1>2. Focus!Paused # Focus!NoFollow
        => current # Focus!NoFollow /\ Focus!Paused.id = current.id
  BY DEF Focus!Paused, FollowInv, FollowTypes, Follows
<1>3. Focus!Running(current') => current' = current
  BY <1>1 DEF Focus!Running
<1>4. current' # Focus!NoFollow => current # Focus!NoFollow /\ current'.id = current.id
  BY <1>2
<1>5. FollowTypes'
  BY <1>1 DEF FollowInv, FollowTypes, Follows
<1>6. FollowChosen'
  BY <1>4 DEF FollowInv, FollowChosen, Focus!FollowsByChoice, Focus!Sharing
<1>7. FollowTaken'
  BY <1>3 DEF FollowInv, FollowTaken, Focus!Act, Focus!Running
<1>8. (Focus!NotPulledBack)'
  BY <1>3 DEF FollowInv, Focus!NotPulledBack, Focus!Running
<1> QED BY <1>5, <1>6, <1>7, <1>8 DEF FollowInv

LEMMA FollowSteps ==
  ASSUME FollowInv, [Focus!Next]_followVars
  PROVE  FollowInv'
<1> USE DEF Focus!roster, Focus!path, Focus!notices, Focus!jumps, Focus!history
<1>1. ASSUME NEW m \in Others, Focus!PresenceEvent(m)
      PROVE  FollowInv'
  BY <1>1 DEF Focus!PresenceEvent, FollowInv, FollowTypes, FollowChosen, FollowTaken, Pages,
              Focus!NotPulledBack, Focus!FollowsByChoice, Focus!Running, Focus!Sharing
<1>2. ASSUME NEW m \in Others, Focus!follow(m)
      PROVE  FollowInv'
  <2>1. drawn = Focus!NoFollow /\ sentTo = Focus!None
    BY <1>2, FollowAssumption
       DEF Focus!follow, Focus!Act, FollowInv, FollowChosen, FollowTaken, Focus!Running
  <2>2. current' \in [id : Others, paused : BOOLEAN] /\ current'.id = m
    BY <1>2 DEF Focus!follow
  <2>3. FollowTypes'
    BY <1>2, <2>2 DEF Focus!follow, FollowInv, FollowTypes, Follows
  <2>4. FollowChosen'
    BY <1>2, <2>1, <2>2 DEF Focus!follow, FollowChosen, Focus!FollowsByChoice
  <2>5. FollowTaken'
    BY <1>2, <2>1 DEF Focus!follow, FollowTaken, Focus!Running
  <2>6. (Focus!NotPulledBack)'
    BY <1>2 DEF Focus!follow, Focus!NotPulledBack
  <2> QED BY <2>3, <2>4, <2>5, <2>6 DEF FollowInv
<1>3. CASE Focus!Render
  BY <1>3, RenderKeeps
<1>4. CASE Focus!unfollow \/ Focus!pause \/ Focus!startSharing \/ Focus!stopSharing \/ Focus!land
  BY <1>4, ActKeeps DEF Focus!unfollow, Focus!pause, Focus!startSharing, Focus!stopSharing,
                        Focus!land
<1>5. CASE Focus!resume
  <2>1. /\ drawn # Focus!NoFollow /\ current = drawn /\ ~Focus!Running(drawn)
        /\ sentTo = Focus!None
    BY <1>5 DEF Focus!resume, Focus!Act, FollowInv, FollowTaken
  <2>2. /\ current' \in [id : Others, paused : BOOLEAN] /\ current'.id = current.id
        /\ current # Focus!NoFollow
    BY <1>5, <2>1 DEF Focus!resume, FollowInv, FollowTypes, Follows
  <2>3. FollowTypes'
    BY <1>5, <2>2 DEF Focus!resume, FollowInv, FollowTypes, Follows
  <2>4. FollowChosen'
    BY <1>5, <2>2 DEF Focus!resume, FollowInv, FollowChosen, Focus!FollowsByChoice, Focus!Sharing
  <2>5. FollowTaken'
    BY <1>5, <2>1 DEF Focus!resume, FollowTaken, Focus!Running
  <2>6. (Focus!NotPulledBack)'
    BY <1>5 DEF Focus!resume, Focus!NotPulledBack
  <2> QED BY <2>3, <2>4, <2>5, <2>6 DEF FollowInv
<1>6. CASE Focus!Navigate
  BY <1>6, ActKeeps DEF Focus!Navigate, Focus!Went
<1>7. CASE Focus!jumpTo \/ Focus!goToBlock \/ Focus!goBack
  BY <1>7, ActKeeps DEF Focus!jumpTo, Focus!goToBlock, Focus!goBack, Focus!goTo, Focus!Went
<1>8. CASE Focus!Land
  BY <1>8 DEF Focus!Land, FollowInv, FollowTypes, FollowChosen, FollowTaken, Pages,
              Focus!NotPulledBack, Focus!FollowsByChoice, Focus!Running, Focus!Sharing
<1>9. CASE Focus!clearScrollTarget
  BY <1>9 DEF Focus!clearScrollTarget, FollowInv, FollowTypes, FollowChosen, FollowTaken, Pages,
              Focus!NotPulledBack, Focus!FollowsByChoice, Focus!Running, Focus!Sharing
<1>10. CASE Focus!clearNotice
  BY <1>10 DEF Focus!clearNotice, FollowInv, FollowTypes, FollowChosen, FollowTaken, Pages,
              Focus!NotPulledBack, Focus!FollowsByChoice, Focus!Running, Focus!Sharing
<1>11. CASE UNCHANGED followVars
  BY <1>11 DEF followVars, FollowInv, FollowTypes, FollowChosen, FollowTaken, Pages,
              Focus!NotPulledBack, Focus!FollowsByChoice, Focus!Running, Focus!Sharing
<1> QED BY <1>1, <1>2, <1>3, <1>4, <1>5, <1>6, <1>7, <1>8, <1>9, <1>10, <1>11
        DEF Focus!Next

\* Who follows has joined the share, is not taken from where they went, and is
\* taken along.
LEMMA FollowEnds ==
  ASSUME FollowInv
  PROVE  Focus!FollowsAsChosen
<1>1. ASSUME Focus!Quiet, Focus!Running(current), ~strayed
      PROVE  members[current.id] = followRoute
  <2>1. /\ members = lastRoster /\ current = drawn /\ followRoute = seenPath
        /\ followGoing.to = followRoute
    BY <1>1 DEF Focus!Quiet, Focus!Rendered
  <2>2. /\ lastRoster[drawn.id] \in {seenPath, sentTo}
        /\ Focus!Sharing(drawn.id, lastRoster)
    BY <1>1, <2>1 DEF FollowInv, FollowTaken, FollowChosen, Focus!Running
  <2> QED BY <1>1, <2>1, <2>2, FollowAssumption
          DEF FollowInv, FollowTaken, Focus!Sharing
<1> QED BY <1>1 DEF FollowInv, FollowChosen, Focus!FollowsAsChosen, Focus!TakenAlong

-----------------------------------------------------------------------------
(* The place *)

\* A non-empty set of places has a first.
LEMMA FirstExists ==
  ASSUME NEW n \in Nat, NEW I \in SUBSET (1..n), I # {}
  PROVE  Place!Min(I) \in I /\ Tab!Min(I) \in I
<1>1. I \in SUBSET Nat
  OBVIOUS
<1>2. PICK x \in I : \A y \in I : <<y, x>> \notin OpToRel(<, Nat)
  BY <1>1, NatLessThanWellFounded, WFMin
<1>3. \A y \in I : ~ (y < x)
  BY <1>1, <1>2, Zenon DEF OpToRel
<1>4. \A y \in I : x <= y
  BY <1>1, <1>3
<1> QED BY <1>2, <1>4 DEF Place!Min, Tab!Min

Orders == Seq(ScrollBlocks) \ {<<>>}

\* The boxes of a document are those of its blocks, in their order.
LEMMA BoxesAre ==
  ASSUME NEW r, NEW layout \in Orders
  PROVE  LET boxes == Place!readBoxes(r, layout)
         IN /\ Len(boxes) = Len(layout) /\ DOMAIN boxes = 1..Len(layout) /\ boxes # <<>>
            /\ Len(layout) \in Nat /\ Len(layout) # 0
            /\ \A i \in 1..Len(layout) : boxes[i].id = layout[i]
<1> DEFINE boxes == Place!readBoxes(r, layout)
<1>1. DOMAIN layout = 1..Len(layout) /\ Len(layout) \in Nat /\ Len(layout) # 0
  BY DEF Orders
<1>2. boxes = [i \in 1..Len(layout) |-> boxes[i]] /\ \A i \in 1..Len(layout) : boxes[i].id = layout[i]
  BY <1>1 DEF Place!readBoxes
<1>3. boxes \in Seq({boxes[i] : i \in 1..Len(layout)})
  BY <1>1, <1>2
<1> HIDE DEF boxes
<1>4. Len(boxes) = Len(layout) /\ DOMAIN boxes = 1..Len(layout) /\ boxes # <<>>
  BY <1>1, <1>2, <1>3
<1> QED BY <1>1, <1>2, <1>4 DEF boxes

\* A place read from a document is in one of its blocks, ...
LEMMA AnchorIsInABlock ==
  ASSUME NEW r, NEW layout \in Orders, NEW y
  PROVE  LET found == Place!anchorAt(Place!readBoxes(r, layout), y, RATIO_STEPS)
         IN found # Place!Nowhere /\ \E i \in 1..Len(layout) : found.block = layout[i]
<1> DEFINE boxes == Place!readBoxes(r, layout)
           I == {i \in 1..Len(boxes) : y < boxes[i].top \/ y < Place!Bottom(boxes[i])}
           k == IF I # {} THEN Place!Min(I) ELSE 0
           found == Place!anchorAt(boxes, y, RATIO_STEPS)
<1>1. /\ Len(boxes) = Len(layout) /\ boxes # <<>>
      /\ Len(layout) \in Nat /\ Len(layout) # 0
      /\ \A i \in 1..Len(layout) : boxes[i].id = layout[i]
  BY BoxesAre
<1>2. k # 0 => k \in 1..Len(layout)
  BY <1>1, FirstExists
<1>3. \/ k = 0 /\ found = [block |-> boxes[Len(boxes)].id, ratio |-> RATIO_STEPS]
      \/ k # 0 /\ \E ratio : found = [block |-> boxes[k].id, ratio |-> ratio]
  BY <1>1 DEF Place!anchorAt, Place!SelectInSeq, Place!Last
<1> HIDE DEF boxes, I, k, found
<1>4. \E i \in 1..Len(layout) : \E ratio : found = [block |-> layout[i], ratio |-> ratio]
  <2>1. CASE k = 0
    <3>1. Len(layout) \in 1..Len(layout) /\ found = [block |-> layout[Len(layout)], ratio |-> RATIO_STEPS]
      BY <1>1, <1>3, <2>1
    <3> QED BY <3>1
  <2>2. CASE k # 0
    BY <1>1, <1>2, <1>3, <2>2
  <2> QED BY <2>1, <2>2
<1> QED BY <1>4 DEF Place!Nowhere, found, boxes

\* ... which has a box in every layout of it.
LEMMA BoxIsThere ==
  ASSUME NEW r, NEW layout \in Orders, NEW i \in 1..Len(layout)
  PROVE  Place!BoxOf(Place!readBoxes(r, layout), layout[i]) # 0
<1> DEFINE boxes == Place!readBoxes(r, layout)
           I == {j \in 1..Len(boxes) : boxes[j].id = layout[i]}
<1>1. /\ Len(boxes) = Len(layout) /\ Len(layout) \in Nat
      /\ \A j \in 1..Len(layout) : boxes[j].id = layout[j]
  BY BoxesAre
<1>2. I # {} /\ I \in SUBSET (1..Len(layout))
  BY <1>1
<1>3. Place!BoxOf(boxes, layout[i]) = Place!Min(I)
  BY <1>2 DEF Place!BoxOf, Place!SelectInSeq
<1>4. Place!Min(I) \in I
  BY <1>1, <1>2, FirstExists
<1> HIDE DEF I, boxes
<1>5. Place!Min(I) \in 1..Len(layout)
  BY <1>2, <1>4
<1> QED BY <1>1, <1>3, <1>5 DEF boxes

\* What the presenter's browser last read, against what it shows.
SharedInv ==
  /\ at \in [{"presenter", "follower"} -> Orders] /\ scrollDoc \in Orders
  /\ scrollTimer \in BOOLEAN /\ scrollPresenting \in BOOLEAN /\ unread \in BOOLEAN
  /\ scrollTimer => scrollPresenting
  /\ ~scrollPresenting => presenting = Place!Nowhere
  /\ lastPublished # Place!Nowhere => presenting = lastPublished
  /\ scrollPresenting /\ ~scrollTimer /\ ~unread => presenting = Place!anchor

\* Where a place is in the follower's layout, if it is.
Goal(place, layout) ==
  Place!scrollTopFor(Place!readBoxes("follower", layout), place, RATIO_STEPS)

HasBox(place, layout) ==
  Place!BoxOf(Place!readBoxes("follower", layout), place.block) # 0

\* The scroller was commanded to within a pixel of the place.
Reached(place, layout, where) ==
  /\ where # Place!Nowhere
  /\ Goal(place, layout) = Head(where) \/ Place!Near(Goal(place, layout), Head(where))

\* What the follower's effect last did, by the dependencies of its run: a running
\* follow was commanded to within a pixel of its place, and the scroller is where
\* it was commanded unless it was told apart.
ViewInv ==
  /\ apart \in BOOLEAN
  /\ rendered.blocks = at["follower"]
  /\ rendered.follow = "running" <=> rendered.place # Place!Nowhere
  /\ rendered.place = Place!Nowhere => commanded = Place!Nowhere
  /\ rendered.follow = "running" /\ HasBox(rendered.place, rendered.blocks) =>
       Reached(rendered.place, rendered.blocks, commanded)
  /\ rendered.follow = "running" /\ follow = "running" /\ ~apart
       /\ commanded # Place!Nowhere => scroll = Head(commanded)

LEMMA PlaceStarts == Place!Init => SharedInv /\ ViewInv
<1> SUFFICES ASSUME Place!Init
             PROVE  SharedInv /\ ViewInv
  OBVIOUS
<1>1. scrollDoc \in Orders
  BY ScrollAssumption DEF Place!Init, Orders
<1>2. SharedInv
  BY <1>1 DEF Place!Init, SharedInv
<1>3. /\ rendered.follow = "no" /\ rendered.place = Place!Nowhere
      /\ rendered.blocks = at["follower"]
  BY DEF Place!Init
<1> QED BY <1>2, <1>3 DEF Place!Init, ViewInv

\* What the presenter shows is somewhere.
LEMMA AnchorStands ==
  ASSUME SharedInv
  PROVE  Place!anchor # Place!Nowhere /\ \E i \in 1..Len(at["presenter"]) :
           Place!anchor.block = at["presenter"][i]
BY AnchorIsInABlock DEF SharedInv, Place!anchor

\* An edit leaves a document with a block.
LEMMA EditKeepsOrder ==
  ASSUME SharedInv, Place!Edit
  PROVE  scrollDoc' \in Orders
<1>1. /\ scrollDoc \in Seq(ScrollBlocks) /\ Len(scrollDoc) \in Nat
      /\ DOMAIN scrollDoc = 1..Len(scrollDoc)
  BY DEF SharedInv, Orders
<1>2. ASSUME Len(scrollDoc) > 1, NEW i \in DOMAIN scrollDoc,
             scrollDoc' = Place!RemoveAt(scrollDoc, i)
      PROVE  scrollDoc' \in Orders
  <2> DEFINE before == SubSeq(scrollDoc, 1, i - 1)
             after == SubSeq(scrollDoc, i + 1, Len(scrollDoc))
  <2>1. /\ before \in Seq(ScrollBlocks) /\ Len(before) = i - 1
        /\ after \in Seq(ScrollBlocks) /\ Len(after) = Len(scrollDoc) - i
    BY <1>1, <1>2, SubSeqProperties
  <2>2. scrollDoc' = before \o after
    BY <1>2 DEF Place!RemoveAt
  <2> HIDE DEF before, after
  <2>3. /\ before \o after \in Seq(ScrollBlocks)
        /\ Len(before \o after) = Len(before) + Len(after)
    BY <2>1, ConcatProperties
  <2> QED BY <1>1, <1>2, <2>1, <2>2, <2>3 DEF Orders
<1>3. ASSUME NEW block \in ScrollBlocks, NEW i \in 1..(Len(scrollDoc) + 1),
             scrollDoc' = Place!InsertAt(scrollDoc, i, block)
      PROVE  scrollDoc' \in Orders
  <2> DEFINE before == SubSeq(scrollDoc, 1, i - 1)
             after == SubSeq(scrollDoc, i, Len(scrollDoc))
  <2>1. /\ before \in Seq(ScrollBlocks) /\ Len(before) = i - 1
        /\ after \in Seq(ScrollBlocks) /\ Len(after) = Len(scrollDoc) - i + 1
    BY <1>1, <1>3, SubSeqProperties
  <2>2. scrollDoc' = before \o <<block>> \o after
    BY <1>3 DEF Place!InsertAt
  <2> HIDE DEF before, after
  <2>3. before \o <<block>> \in Seq(ScrollBlocks) /\ Len(before \o <<block>>) = i
    BY <1>1, <1>3, <2>1
  <2>4. /\ before \o <<block>> \o after \in Seq(ScrollBlocks)
        /\ Len(before \o <<block>> \o after) = i + Len(after)
    BY <2>1, <2>3, ConcatProperties
  <2> QED BY <1>1, <1>3, <2>1, <2>2, <2>4 DEF Orders
<1> QED BY <1>2, <1>3 DEF Place!Edit, Place!Delete, Place!Insert

\* What is published is read at that moment; what is due comes from a scroll.
LEMMA SharedSteps ==
  ASSUME SharedInv, [Place!Next]_scrollVars
  PROVE  SharedInv'
<1> USE DEF Place!shared, Place!view
<1>1. CASE Place!Edit
  BY <1>1, EditKeepsOrder DEF Place!Edit, SharedInv, Place!anchor
<1>2. CASE Place!startSharing
  BY <1>2, AnchorStands DEF Place!startSharing, SharedInv, Place!anchor
<1>3. CASE Place!stopSharing
  BY <1>3 DEF Place!stopSharing, SharedInv, Place!anchor
<1>4. CASE Place!PresenterScroll
  <2>1. PICK y : y # top /\ Place!Scrolled(y)
    BY <1>4, Zenon DEF Place!PresenterScroll
  <2>2. /\ scrollTimer' \in BOOLEAN /\ (scrollPresenting => scrollTimer')
        /\ (scrollTimer' => scrollPresenting)
    BY <2>1 DEF Place!Scrolled, SharedInv
  <2> QED BY <1>4, <2>2 DEF Place!PresenterScroll, SharedInv
<1>5. CASE Place!PresenterSync
  <2>1. /\ at' \in [{"presenter", "follower"} -> Orders] /\ unread' = TRUE
        /\ UNCHANGED <<scrollDoc, scrollPresenting, lastPublished, presenting>>
    BY <1>5 DEF Place!PresenterSync, SharedInv
  <2>2. \E y : Place!Scrolled(y)
    BY <1>5, Zenon DEF Place!PresenterSync
  <2>3. scrollTimer' \in BOOLEAN /\ (scrollTimer' => scrollTimer \/ scrollPresenting)
    BY <2>2 DEF Place!Scrolled, SharedInv
  <2> QED BY <2>1, <2>3 DEF SharedInv
<1>6. CASE Place!publish
  <2>1. Place!anchor' = Place!anchor
    BY <1>6 DEF Place!publish, Place!anchor
  <2>2. presenting' = Place!anchor
    BY <1>6, AnchorStands DEF Place!publish, SharedInv
  <2> QED BY <1>6, <2>1, <2>2 DEF Place!publish, SharedInv
<1>7. CASE Place!FollowerRender
  <2>1. PICK layout \in {at["follower"], scrollDoc} :
          /\ at' = [at EXCEPT !["follower"] = layout]
          /\ UNCHANGED <<scrollDoc, top, scrollPresenting, lastPublished, scrollTimer,
                         presenting, unread>>
    BY <1>7 DEF Place!FollowerRender
  <2>2. at' \in [{"presenter", "follower"} -> Orders] /\ at'["presenter"] = at["presenter"]
    BY <2>1 DEF SharedInv
  <2> QED BY <2>1, <2>2 DEF SharedInv, Place!anchor
<1>8. CASE \/ Place!Deliver \/ Place!join \/ Place!unfollow \/ Place!OwnScroll
           \/ Place!jumpTo \/ Place!goTo \/ Place!resume
  BY <1>8 DEF Place!Deliver, Place!join, Place!unfollow, Place!OwnScroll, Place!jumpTo,
              Place!goTo, Place!resume, SharedInv, Place!anchor
<1>9. CASE UNCHANGED scrollVars
  BY <1>9 DEF scrollVars, SharedInv, Place!anchor
<1> QED BY <1>1, <1>2, <1>3, <1>4, <1>5, <1>6, <1>7, <1>8, <1>9 DEF Place!Next

\* A render drives the scroller by the dependencies it leaves, or leaves it alone.
LEMMA RenderShows ==
  ASSUME SharedInv, ViewInv, Place!FollowerRender
  PROVE  ViewInv'
<1> DEFINE driven == IF followed = Place!Nowhere THEN "no" ELSE follow
           place == IF driven = "running" THEN followed ELSE Place!Nowhere
<1>0. PICK layout \in {at["follower"], scrollDoc} : \E from :
        LET deps == [follow |-> driven, place |-> place, blocks |-> layout]
        IN /\ follow' = driven /\ rendered' = deps
           /\ at' = [at EXCEPT !["follower"] = layout]
           /\ IF deps # rendered
              THEN Place!Drive(place, Place!readBoxes("follower", layout), layout, from)
              ELSE /\ scroll' = from /\ apart' = (apart \/ from # scroll)
                   /\ UNCHANGED commanded
  BY DEF Place!FollowerRender
<1>1. PICK from :
        LET deps == [follow |-> driven, place |-> place, blocks |-> layout]
        IN /\ follow' = driven /\ rendered' = deps
           /\ at' = [at EXCEPT !["follower"] = layout]
           /\ IF deps # rendered
              THEN Place!Drive(place, Place!readBoxes("follower", layout), layout, from)
              ELSE /\ scroll' = from /\ apart' = (apart \/ from # scroll)
                   /\ UNCHANGED commanded
  BY <1>0
<1> DEFINE goal == Goal(place, layout)
           stays == /\ scroll' = from /\ apart' = (apart \/ from # scroll)
                    /\ UNCHANGED commanded
<1>2. /\ rendered' = [follow |-> driven, place |-> place, blocks |-> layout]
      /\ follow' = driven /\ at'["follower"] = layout
  BY <1>1 DEF SharedInv
<1>3. /\ driven = "running" <=> place # Place!Nowhere
      /\ driven = "running" => follow = "running"
  OBVIOUS
<1>4. \/ place = Place!Nowhere /\ commanded' = Place!Nowhere /\ apart' = FALSE
      \/ /\ place # Place!Nowhere /\ stays
         /\ HasBox(place, layout) => Reached(place, layout, commanded)
      \/ /\ place # Place!Nowhere /\ commanded' = <<goal>>
         /\ ~apart' => scroll' = goal
         /\ apart' \in BOOLEAN
      \/ rendered' = rendered /\ stays
  <2>1. CASE rendered' = rendered
    BY <1>1, <1>2, <2>1
  <2>2. CASE rendered' # rendered
    <3> DEFINE boxes == Place!readBoxes("follower", layout)
    <3>1. Place!Drive(place, boxes, layout, from)
      BY <1>1, <1>2, <2>2
    <3>2. Goal(place, layout) = Place!scrollTopFor(boxes, place, RATIO_STEPS)
      BY DEF Goal
    <3>3. HasBox(place, layout) <=> Place!BoxOf(boxes, place.block) # 0
      BY DEF HasBox
    <3>4. Place!Commanded(goal) => Reached(place, layout, commanded)
      BY DEF Place!Commanded, Reached
    <3> HIDE DEF boxes, goal, place
    <3> QED BY <3>1, <3>2, <3>3, <3>4 DEF Place!Drive, goal
  <2> QED BY <2>1, <2>2
<1> HIDE DEF driven, place
<1>5. CASE rendered' = rendered /\ stays
  <2>1. /\ rendered' = rendered /\ commanded' = commanded
        /\ rendered.blocks = at'["follower"]
    BY <1>2, <1>5
  <2>2. apart' \in BOOLEAN
    BY <1>5
  <2>3. follow' = "running" /\ ~apart' => follow = "running" /\ ~apart /\ scroll' = scroll
    BY <1>2, <1>3, <1>5 DEF ViewInv
  <2> HIDE <1>1
  <2> QED BY <2>1, <2>2, <2>3 DEF ViewInv
<1>6. CASE place = Place!Nowhere /\ commanded' = Place!Nowhere /\ apart' = FALSE
  BY <1>2, <1>3, <1>6 DEF ViewInv
<1>7. CASE /\ place # Place!Nowhere /\ commanded' = <<goal>>
           /\ ~apart' => scroll' = goal
           /\ apart' \in BOOLEAN
  BY <1>2, <1>3, <1>7 DEF ViewInv, Reached, Place!Nowhere
<1>8. CASE /\ place # Place!Nowhere /\ stays
           /\ HasBox(place, layout) => Reached(place, layout, commanded)
  BY <1>2, <1>3, <1>8 DEF ViewInv
<1> QED BY <1>4, <1>5, <1>6, <1>7, <1>8

LEMMA ViewSteps ==
  ASSUME SharedInv, ViewInv, [Place!Next]_scrollVars
  PROVE  ViewInv'
<1> USE DEF Place!shared, Place!view
<1>1. CASE Place!FollowerRender
  BY <1>1, RenderShows
<1>2. CASE Place!PresenterSync
  <2>1. at'["follower"] = at["follower"]
    BY <1>2 DEF Place!PresenterSync, SharedInv
  <2> QED BY <1>2, <2>1 DEF Place!PresenterSync, ViewInv
<1>3. CASE \/ Place!Edit \/ Place!startSharing \/ Place!stopSharing
           \/ Place!PresenterScroll \/ Place!publish \/ Place!Deliver
  BY <1>3 DEF Place!Edit, Place!startSharing, Place!stopSharing, Place!PresenterScroll,
              Place!publish, Place!Deliver, ViewInv
<1>4. CASE Place!join \/ Place!resume
  BY <1>4 DEF Place!join, Place!resume, ViewInv
<1>5. CASE Place!unfollow \/ Place!OwnScroll \/ Place!jumpTo \/ Place!goTo
  BY <1>5 DEF Place!unfollow, Place!OwnScroll, Place!jumpTo, Place!goTo, ViewInv
<1>6. CASE UNCHANGED scrollVars
  BY <1>6 DEF scrollVars, ViewInv
<1> QED BY <1>1, <1>2, <1>3, <1>4, <1>5, <1>6 DEF Place!Next

\* The follower's last command was to the presenter's place, as it is read.
LEMMA PlaceEnds ==
  ASSUME SharedInv, ViewInv
  PROVE  Place!ShowsThePlace
<1> SUFFICES ASSUME Place!Settled, follow = "running", ~unread, ~apart
             PROVE  LET goal == Goal(Place!anchor, scrollDoc)
                    IN scroll = goal \/ Place!Near(goal, scroll)
  BY DEF Place!ShowsThePlace, Goal
<1>1. /\ rendered.follow = "running" /\ rendered.place = presenting
      /\ rendered.blocks = scrollDoc /\ at["presenter"] = scrollDoc /\ ~scrollTimer
  BY DEF Place!Settled
<1>2. presenting # Place!Nowhere
  BY <1>1 DEF ViewInv
<1>3. presenting = Place!anchor
  BY <1>1, <1>2 DEF SharedInv
<1>4. HasBox(rendered.place, scrollDoc)
  BY <1>1, <1>3, AnchorStands, BoxIsThere DEF SharedInv, HasBox
<1>5. Reached(rendered.place, scrollDoc, commanded) /\ scroll = Head(commanded)
  BY <1>1, <1>4 DEF ViewInv, Reached
<1> QED BY <1>1, <1>3, <1>5 DEF Reached

\* Who follows has joined the share, is not taken from where they went, is taken
\* along when it crosses to another document, and shows the presenter's place in it
\* (focus-follow-provider.tsx and use-focus-presence.ts, the effects).
THEOREM FollowersAreTakenAlong == Spec => []FollowsAsChosen
<1> DEFINE Inv == /\ scenario = "follow" => FollowInv
                  /\ scenario = "scroll" => SharedInv /\ ViewInv
<1>1. Init => Inv
  BY FollowStarts, PlaceStarts DEF Init
<1>2. Inv /\ [Next]_vars => Inv'
  <2> SUFFICES ASSUME Inv, [Next]_vars
               PROVE  Inv'
    OBVIOUS
  <2> QED BY ComponentMoves, FollowSteps, SharedSteps, ViewSteps
<1>3. Inv => FollowsAsChosen
  BY FollowEnds, PlaceEnds DEF FollowsAsChosen
<1> QED BY <1>1, <1>2, <1>3, PTL DEF Spec

-----------------------------------------------------------------------------
(* The tabs *)

\* Counting the places up to each one numbers them.
Rank(places) == [i \in places |-> Cardinality({j \in places : j <= i})]

LEMMA PlacesAreNumbered ==
  ASSUME NEW places \in SUBSET Nat, IsFiniteSet(places)
  PROVE  /\ Cardinality(places) \in Nat
         /\ \A i \in places : Rank(places)[i] \in 1..Cardinality(places)
         /\ \A i, j \in places : Rank(places)[i] = Rank(places)[j] => i = j
         /\ \A n \in 1..Cardinality(places) : \E i \in places : Rank(places)[i] = n
<1> DEFINE upTo(i) == {j \in places : j <= i}
           N == Cardinality(places)
           rank == [i \in places |-> Cardinality(upTo(i))]
<1>1. N \in Nat
  BY FS_CardinalityType
<1>2. ASSUME NEW i \in places
      PROVE  IsFiniteSet(upTo(i)) /\ rank[i] \in 1..N /\ rank[i] = Cardinality(upTo(i))
  <2>1. upTo(i) \subseteq places /\ i \in upTo(i)
    OBVIOUS
  <2>2. rank[i] = Cardinality(upTo(i))
    OBVIOUS
  <2> HIDE DEF upTo, N
  <2>3. /\ IsFiniteSet(upTo(i)) /\ Cardinality(upTo(i)) \in Nat
        /\ Cardinality(upTo(i)) <= N /\ Cardinality(upTo(i)) # 0
    BY <2>1, FS_Subset, FS_CardinalityType, FS_EmptySet DEF N
  <2> QED BY <1>1, <2>2, <2>3
<1>3. ASSUME NEW i \in places, NEW j \in places, i < j
      PROVE  rank[i] < rank[j]
  <2>1. upTo(i) \subseteq upTo(j) /\ j \in upTo(j) /\ j \notin upTo(i)
    <3>1. i \in Nat /\ j \in Nat /\ \A k \in places : k \in Nat
      OBVIOUS
    <3>2. \A k \in places : k <= i => k <= j
      BY <1>3, <3>1
    <3>3. j <= j /\ ~(j <= i)
      BY <1>3, <3>1
    <3> QED BY <3>2, <3>3
  <2>2. IsFiniteSet(upTo(j)) /\ rank[i] = Cardinality(upTo(i)) /\ rank[j] = Cardinality(upTo(j))
        /\ rank[i] \in 1..N /\ rank[j] \in 1..N
    BY <1>2
  <2> HIDE DEF upTo, N
  <2>3. Cardinality(upTo(i)) <= Cardinality(upTo(j)) /\ Cardinality(upTo(i)) # Cardinality(upTo(j))
    BY <2>1, <2>2, FS_Subset
  <2> QED BY <1>1, <2>2, <2>3
<1>4. \A i, j \in places : rank[i] = rank[j] => i = j
  <2> SUFFICES ASSUME NEW i \in places, NEW j \in places, i # j
               PROVE  rank[i] # rank[j]
    OBVIOUS
  <2>1. i < j \/ j < i
    OBVIOUS
  <2>2. rank[i] \in 1..N /\ rank[j] \in 1..N
    BY <1>2
  <2> HIDE DEF N
  <2> QED BY <1>1, <1>3, <2>1, <2>2
<1>5. rank \in Surjection(places, 1..N)
  <2>1. rank = [i \in places |-> rank[i]] /\ \A i \in places : rank[i] \in 1..N
    BY <1>2
  <2> HIDE DEF N, rank
  <2>2. rank \in Injection(places, 1..N)
    BY <1>4, <2>1 DEF Injection, IsInjective
  <2>3. IsFiniteSet(1..N) /\ Cardinality(1..N) = N
    BY <1>1, FS_Interval
  <2> QED BY <2>2, <2>3, FS_Injection DEF N
<1>6. \A n \in 1..N : \E i \in places : rank[i] = n
  BY <1>5 DEF Surjection
<1>7. Rank(places) = rank
  BY DEF Rank
<1> QED BY <1>1, <1>2, <1>4, <1>6, <1>7

\* Ids, each once, in their order.
Ids(seq) ==
  /\ \E S : seq \in Seq(S)
  /\ \A i, j \in DOMAIN seq : seq[i] = seq[j] => i = j
  /\ \A i \in DOMAIN seq : seq[i] # Tab!None

\* A filter keeps what is at its places, and nothing else.
LEMMA FilterKeeps ==
  ASSUME NEW S, NEW seq \in Seq(S), NEW places \in SUBSET (DOMAIN seq),
         NEW r, r = Tab!At(seq, places)
  PROVE  /\ r \in Seq(S)
         /\ \A n \in DOMAIN r : \E i \in places : r[n] = seq[i]
         /\ \A i \in places : \E n \in DOMAIN r : r[n] = seq[i]
         /\ (\A i, j \in places : seq[i] = seq[j] => i = j)
              => \A n, o \in DOMAIN r : r[n] = r[o] => n = o
<1> DEFINE N == Cardinality(places)
           rank == [i \in places |-> Cardinality({j \in places : j <= i})]
           at_(n) == CHOOSE i \in places : Cardinality({j \in places : j <= i}) = n
<1>1. DOMAIN seq = 1..Len(seq) /\ Len(seq) \in Nat /\ \A i \in places : seq[i] \in S
  OBVIOUS
<1>2. IsFiniteSet(1..Len(seq))
  BY <1>1, FS_Interval
<1>3. IsFiniteSet(places) /\ places \in SUBSET Nat
  BY <1>1, <1>2, FS_Subset
<1>4. /\ N \in Nat
      /\ \A i \in places : rank[i] \in 1..N
      /\ \A i, j \in places : rank[i] = rank[j] => i = j
      /\ \A n \in 1..N : \E i \in places : rank[i] = n
  <2> HIDE DEF rank
  <2>1. rank = Rank(places)
    BY DEF rank, Rank
  <2> QED BY <1>3, <2>1, PlacesAreNumbered
<1>5. r = [n \in 1..N |-> seq[at_(n)]]
  BY Zenon DEF Tab!At, Tab!Cardinality, Cardinality, Tab!IsFiniteSet, IsFiniteSet
<1>6. ASSUME NEW n \in 1..N
      PROVE  at_(n) \in places /\ rank[at_(n)] = n
  <2>1. \E i \in places : Cardinality({j \in places : j <= i}) = n
    BY <1>4
  <2>2. at_(n) \in places /\ Cardinality({j \in places : j <= at_(n)}) = n
    BY <2>1
  <2> QED BY <2>2
<1> HIDE DEF at_, rank, N
<1>7. ASSUME NEW i \in places
      PROVE  rank[i] \in 1..N /\ at_(rank[i]) = i
  BY <1>4, <1>6
<1>8. r \in [1..N -> S]
  BY <1>1, <1>5, <1>6
<1>9. r \in Seq(S) /\ DOMAIN r = 1..N
  BY <1>4, <1>8
<1>10. \A n \in 1..N : r[n] = seq[at_(n)]
  BY <1>5
<1>11. ASSUME NEW i \in places
       PROVE  \E n \in DOMAIN r : r[n] = seq[i]
  BY <1>7, <1>9, <1>10
<1>12. ASSUME \A i, j \in places : seq[i] = seq[j] => i = j,
              NEW n \in 1..N, NEW o \in 1..N, r[n] = r[o]
       PROVE  n = o
  <2>1. at_(n) = at_(o)
    BY <1>6, <1>10, <1>12
  <2> QED BY <1>6, <2>1
<1> QED BY <1>6, <1>9, <1>10, <1>11, <1>12

Held(ts) == ts = [open |-> ts.open, active |-> ts.active]

\* What is stored is some ids; what is open are ids, each once, and of them the
\* last one opened for the route is the one that is shown.
TabInv ==
  /\ Held(tabStorage) /\ \E S : tabStorage.open \in Seq(S)
  /\ \A i \in DOMAIN tabStorage.open : tabStorage.open[i] # Tab!None
  /\ Held(tabs) /\ Ids(tabs.open)
  /\ read \in BOOLEAN
  /\ ~read => seen = Tab!None
  /\ seen # Tab!None /\ seen \in Tab!ToSet(tabs.open) => tabs.active = seen

\* Of ids, a filter keeps ids.
LEMMA FilteredIds ==
  ASSUME NEW seq, Ids(seq), NEW places \in SUBSET (DOMAIN seq),
         NEW r, r = Tab!At(seq, places)
  PROVE  /\ Ids(r)
         /\ Tab!ToSet(r) = {seq[i] : i \in places}
<1>1. PICK S : seq \in Seq(S)
  BY DEF Ids
<1>2. /\ r \in Seq(S)
      /\ \A n \in DOMAIN r : \E i \in places : r[n] = seq[i]
      /\ \A i \in places : \E n \in DOMAIN r : r[n] = seq[i]
      /\ (\A i, j \in places : seq[i] = seq[j] => i = j)
           => \A n, o \in DOMAIN r : r[n] = r[o] => n = o
  BY <1>1, FilterKeeps
<1>3. /\ \A i, j \in places : seq[i] = seq[j] => i = j
      /\ \A i \in places : seq[i] # Tab!None
  BY DEF Ids
<1>4. Ids(r)
  BY <1>2, <1>3 DEF Ids
<1> QED BY <1>2, <1>4 DEF Tab!ToSet

\* A tab is looked up by its id.
IndexOf(seq, id) == Tab!SelectInSeq(seq, LAMBDA other : other = id)

LEMMA TabFound ==
  ASSUME NEW seq, Ids(seq), NEW id
  PROVE  /\ Len(seq) \in Nat /\ DOMAIN seq = 1..Len(seq)
         /\ id \in Tab!ToSet(seq) => IndexOf(seq, id) \in 1..Len(seq) /\ IndexOf(seq, id) # 0
         /\ id \notin Tab!ToSet(seq) => IndexOf(seq, id) = 0
<1> DEFINE index == IndexOf(seq, id)
           I == {i \in 1..Len(seq) : seq[i] = id}
<1>1. Len(seq) \in Nat /\ DOMAIN seq = 1..Len(seq)
  BY DEF Ids
<1>2. index = IF I # {} THEN Tab!Min(I) ELSE 0
  BY DEF Tab!SelectInSeq, IndexOf
<1>3. I # {} => Tab!Min(I) \in I
  BY <1>1, FirstExists
<1>4. I # {} <=> id \in Tab!ToSet(seq)
  BY <1>1 DEF Tab!ToSet
<1> QED BY <1>1, <1>2, <1>3, <1>4

\* Closing the active tab among others activates one of those.
LEMMA CloseTab ==
  ASSUME NEW ts, Held(ts), Ids(ts.open), NEW id,
         NEW after, after = Tab!closeTab(ts, id)
  PROVE  /\ Held(after) /\ Ids(after.open)
         /\ Tab!ToSet(after.open) = Tab!ToSet(ts.open) \ {id}
         /\ ts.active # id => after.active = ts.active
         /\ ts.active = id /\ id \in Tab!ToSet(ts.open) /\ Tab!ToSet(after.open) # {}
              => after.active \in Tab!ToSet(after.open)
<1> DEFINE index == IndexOf(ts.open, id)
           rest == Tab!WithoutId(ts.open, id)
<1>1. /\ id \in Tab!ToSet(ts.open) => index \in 1..Len(ts.open) /\ index # 0
      /\ id \notin Tab!ToSet(ts.open) => index = 0
      /\ Len(ts.open) \in Nat
  BY TabFound
<1>2. rest = Tab!At(ts.open, {i \in DOMAIN ts.open : ts.open[i] # id})
  BY DEF Tab!WithoutId
<1>3. Ids(rest) /\ Tab!ToSet(rest) = Tab!ToSet(ts.open) \ {id}
  <2>1. /\ Ids(rest)
        /\ Tab!ToSet(rest) = {ts.open[i] : i \in {i \in DOMAIN ts.open : ts.open[i] # id}}
    BY <1>2, FilteredIds
  <2> QED BY <2>1 DEF Tab!ToSet
<1>4. after = IF index = 0 THEN ts
              ELSE [open |-> rest,
                    active |-> IF ts.active = id
                               THEN IF index <= Len(rest) THEN rest[index]
                                    ELSE IF rest # <<>> THEN rest[Len(rest)] ELSE Tab!None
                               ELSE ts.active]
  BY Zenon DEF Tab!closeTab, Tab!Last, IndexOf
<1> HIDE DEF index, rest
<1>5. CASE id \notin Tab!ToSet(ts.open)
  BY <1>1, <1>4, <1>5
<1>6. CASE id \in Tab!ToSet(ts.open)
  <2>1. Held(after) /\ after.open = rest
    BY <1>1, <1>4, <1>6 DEF Held
  <2>2. ts.active # id => after.active = ts.active
    BY <1>1, <1>4, <1>6
  <2>3. ASSUME ts.active = id, Tab!ToSet(rest) # {}
        PROVE  after.active \in Tab!ToSet(rest)
    <3>1. /\ DOMAIN rest = 1..Len(rest) /\ Len(rest) \in Nat /\ rest # <<>>
          /\ Len(rest) # 0
      <4>1. PICK S : rest \in Seq(S)
        BY <1>3 DEF Ids
      <4>2. DOMAIN rest # {}
        BY <2>3 DEF Tab!ToSet
      <4> QED BY <4>1, <4>2
    <3>2. after.active \in {rest[n] : n \in DOMAIN rest}
      BY <1>1, <1>4, <1>6, <2>3, <3>1
    <3> QED BY <3>2 DEF Tab!ToSet
  <2> QED BY <1>3, <2>1, <2>2, <2>3
<1> QED BY <1>5, <1>6

\* A new id between others.
LEMMA InsertedId ==
  ASSUME NEW seq, Ids(seq), NEW id, id \notin Tab!ToSet(seq), id # Tab!None,
         NEW k \in 1..(Len(seq) + 1), NEW r, r = Tab!InsertAt(seq, k, id)
  PROVE  Ids(r) /\ Tab!ToSet(r) = Tab!ToSet(seq) \cup {id}
<1> DEFINE L == Len(seq)
           before == SubSeq(seq, 1, k - 1)
           after == SubSeq(seq, k, L)
<1>1. PICK S : seq \in Seq(S)
  BY DEF Ids
<1> DEFINE T == S \cup {id}
<1>2. L \in Nat /\ DOMAIN seq = 1..L /\ seq \in Seq(T) /\ k \in Nat /\ <<id>> \in Seq(T)
  BY <1>1
<1>3. /\ before \in Seq(T) /\ Len(before) = k - 1
      /\ \A i \in 1..(k - 1) : before[i] = seq[i]
  BY <1>2, SubSeqProperties
<1>4. /\ after \in Seq(T) /\ Len(after) = L - k + 1
      /\ \A i \in 1..(L - k + 1) : after[i] = seq[k + i - 1]
  BY <1>2, SubSeqProperties
<1>5. r = before \o <<id>> \o after
  BY DEF Tab!InsertAt
<1> HIDE DEF before, after, L, T
<1>6. /\ before \o <<id>> \in Seq(T) /\ Len(before \o <<id>>) = k
      /\ \A i \in 1..(k - 1) : (before \o <<id>>)[i] = seq[i]
      /\ (before \o <<id>>)[k] = id
  BY <1>2, <1>3
<1>7. /\ r \in Seq(T) /\ Len(r) = L + 1
      /\ \A i \in 1..(L + 1) : r[i] = IF i <= k THEN (before \o <<id>>)[i] ELSE after[i - k]
  <2> DEFINE front == before \o <<id>>
  <2>1. front \in Seq(T) /\ Len(front) = k /\ r = front \o after
    BY <1>5, <1>6
  <2> HIDE DEF front
  <2>2. /\ r \in Seq(T) /\ Len(r) = k + Len(after)
        /\ \A i \in 1..(k + Len(after)) : r[i] = IF i <= k THEN front[i] ELSE after[i - k]
    <3>1. after \in Seq(T)
      BY <1>4
    <3>2. /\ front \o after \in Seq(T)
          /\ Len(front \o after) = Len(front) + Len(after)
          /\ \A i \in 1..(Len(front) + Len(after)) :
               (front \o after)[i] = IF i <= Len(front) THEN front[i] ELSE after[i - Len(front)]
      BY <2>1, <3>1, ConcatProperties, Zenon
    <3> QED BY <2>1, <3>2
  <2>3. k + Len(after) = L + 1
    BY <1>2, <1>4
  <2> QED BY <2>2, <2>3 DEF front
<1>8. \A i \in 1..(L + 1) : r[i] = IF i < k THEN seq[i] ELSE IF i = k THEN id ELSE seq[i - 1]
  <2> SUFFICES ASSUME NEW i \in 1..(L + 1)
               PROVE  r[i] = IF i < k THEN seq[i] ELSE IF i = k THEN id ELSE seq[i - 1]
    OBVIOUS
  <2>1. CASE i > k
    <3>1. i - k \in 1..(L - k + 1) /\ k + (i - k) - 1 = i - 1
      BY <1>2, <2>1
    <3>2. after[i - k] = seq[i - 1]
      BY <1>4, <3>1
    <3> QED BY <1>2, <1>7, <2>1, <3>2
  <2>2. CASE i < k
    <3>1. i \in 1..(k - 1) /\ i <= k
      BY <1>2, <2>2
    <3> QED BY <1>6, <1>7, <2>2, <3>1
  <2>3. CASE i = k
    <3>1. k <= k /\ ~(k < k)
      BY <1>2
    <3> QED BY <1>6, <1>7, <2>3, <3>1
  <2> QED BY <1>2, <2>1, <2>2, <2>3
<1>9. DOMAIN r = 1..(L + 1)
  BY <1>2, <1>7
<1>10. \A i \in 1..L : seq[i] # id
  BY <1>2 DEF Tab!ToSet
<1>11. \A i, j \in DOMAIN r : r[i] = r[j] => i = j
  <2> SUFFICES ASSUME NEW i \in 1..(L + 1), NEW j \in 1..(L + 1), i < j
               PROVE  r[i] # r[j]
    BY <1>2, <1>9
  <2>1. \A a, b \in 1..L : seq[a] = seq[b] => a = b
    BY <1>2 DEF Ids
  <2>2. CASE j < k
    BY <1>2, <1>8, <2>1, <2>2
  <2>3. CASE i > k
    <3>1. i - 1 \in 1..L /\ j - 1 \in 1..L /\ i - 1 # j - 1
      BY <1>2, <2>3
    <3> QED BY <1>2, <1>8, <2>1, <2>3, <3>1
  <2>4. CASE i < k /\ k < j
    <3>1. i \in 1..L /\ j - 1 \in 1..L /\ i # j - 1
      BY <1>2, <2>4
    <3> QED BY <1>2, <1>8, <2>1, <2>4, <3>1
  <2>5. CASE i = k
    <3>1. j - 1 \in 1..L /\ r[j] = seq[j - 1] /\ r[i] = id
      BY <1>2, <1>8, <2>5
    <3> QED BY <1>10, <3>1
  <2>6. CASE j = k
    <3>1. i \in 1..L /\ r[i] = seq[i] /\ r[j] = id
      BY <1>2, <1>8, <2>6
    <3> QED BY <1>10, <3>1
  <2> QED BY <1>2, <2>2, <2>3, <2>4, <2>5, <2>6
<1>12. \A i \in DOMAIN r : r[i] = id \/ \E j \in 1..L : r[i] = seq[j]
  <2> SUFFICES ASSUME NEW i \in 1..(L + 1), i # k
               PROVE  \E j \in 1..L : r[i] = seq[j]
    BY <1>2, <1>8, <1>9
  <2>1. CASE i < k
    BY <1>2, <1>8, <2>1
  <2>2. CASE i > k
    <3>1. i - 1 \in 1..L /\ r[i] = seq[i - 1]
      BY <1>2, <1>8, <2>2
    <3> QED BY <3>1
  <2> QED BY <1>2, <2>1, <2>2
<1>13. ASSUME NEW j \in 1..L
       PROVE  \E i \in DOMAIN r : r[i] = seq[j]
  <2>1. CASE j < k
    BY <1>2, <1>8, <1>9, <2>1
  <2>2. CASE j >= k
    <3>1. j + 1 \in 1..(L + 1) /\ r[j + 1] = seq[j]
      BY <1>2, <1>8, <2>2
    <3> QED BY <1>9, <3>1
  <2> QED BY <1>2, <2>1, <2>2
<1>14. k \in DOMAIN r /\ r[k] = id
  BY <1>2, <1>8, <1>9
<1>15. Tab!ToSet(r) = Tab!ToSet(seq) \cup {id}
  BY <1>2, <1>12, <1>13, <1>14 DEF Tab!ToSet
<1>16. \A i \in DOMAIN r : r[i] # Tab!None
  BY <1>2, <1>12 DEF Ids
<1> QED BY <1>7, <1>11, <1>15, <1>16 DEF Ids

\* A tab that is dropped elsewhere.
LEMMA MoveTab ==
  ASSUME NEW ts, Held(ts), Ids(ts.open), NEW id, NEW beforeId,
         NEW after, after = Tab!moveTab(ts, id, beforeId)
  PROVE  /\ Held(after) /\ Ids(after.open) /\ after.active = ts.active
         /\ Tab!ToSet(after.open) = Tab!ToSet(ts.open)
<1> DEFINE rest == Tab!WithoutId(ts.open, id)
           place == IndexOf(rest, beforeId)
           k == IF place = 0 THEN Len(rest) + 1 ELSE place
<1>1. rest = Tab!At(ts.open, {i \in DOMAIN ts.open : ts.open[i] # id})
  BY DEF Tab!WithoutId
<1>2. Ids(rest) /\ Tab!ToSet(rest) = Tab!ToSet(ts.open) \ {id}
  <2>1. /\ Ids(rest)
        /\ Tab!ToSet(rest) = {ts.open[i] : i \in {i \in DOMAIN ts.open : ts.open[i] # id}}
    BY <1>1, FilteredIds
  <2> QED BY <2>1 DEF Tab!ToSet
<1>3. \/ after = ts
      \/ /\ id \in Tab!ToSet(ts.open)
         /\ after = [ts EXCEPT !.open = Tab!InsertAt(rest, k, id)]
  BY Zenon DEF Tab!moveTab, IndexOf
<1>4. k \in 1..(Len(rest) + 1)
  <2> HIDE DEF rest
  <2>1. /\ Len(rest) \in Nat
        /\ place \in 1..Len(rest) \/ place = 0
    BY <1>2, TabFound
  <2> QED BY <2>1
<1> HIDE DEF rest, k
<1>5. CASE after = ts
  BY <1>5
<1>6. CASE /\ id \in Tab!ToSet(ts.open)
           /\ after = [ts EXCEPT !.open = Tab!InsertAt(rest, k, id)]
  <2>1. id # Tab!None
    BY <1>6 DEF Ids, Tab!ToSet
  <2>2. /\ Ids(Tab!InsertAt(rest, k, id))
        /\ Tab!ToSet(Tab!InsertAt(rest, k, id)) = Tab!ToSet(rest) \cup {id}
    BY <1>2, <1>4, <2>1, InsertedId
  <2>3. after = [open |-> Tab!InsertAt(rest, k, id), active |-> ts.active]
    BY <1>6 DEF Held
  <2> QED BY <1>2, <1>6, <2>2, <2>3 DEF Held
<1> QED BY <1>3, <1>5, <1>6

\* A tab that is opened, at the end, unless it is open.
LEMMA OpenTab ==
  ASSUME NEW ts, Held(ts), Ids(ts.open), NEW id, id # Tab!None,
         NEW after, after = Tab!openTab(ts, id)
  PROVE  Held(after) /\ Ids(after.open) /\ after.active = id
<1>1. PICK S : ts.open \in Seq(S)
  BY DEF Ids
<1>2. after = [open |-> IF id \in Tab!ToSet(ts.open) THEN ts.open ELSE Append(ts.open, id),
               active |-> id]
  BY DEF Tab!openTab
<1>3. CASE id \in Tab!ToSet(ts.open)
  BY <1>2, <1>3 DEF Held
<1>4. CASE id \notin Tab!ToSet(ts.open)
  <2> DEFINE r == Append(ts.open, id)
             L == Len(ts.open)
  <2>1. L \in Nat /\ DOMAIN ts.open = 1..L
    BY <1>1
  <2>2. /\ r \in Seq(S \cup {id}) /\ DOMAIN r = 1..(L + 1)
        /\ \A i \in 1..L : r[i] = ts.open[i]
        /\ r[L + 1] = id
    BY <1>1
  <2>3. \A i \in 1..L : ts.open[i] # id
    BY <1>4, <2>1 DEF Tab!ToSet
  <2> HIDE DEF r, L
  <2>4. \A i \in 1..(L + 1) : i \in 1..L \/ i = L + 1
    BY <2>1
  <2>5. \A i \in 1..L, j \in 1..L : r[i] = r[j] => i = j
    BY <2>1, <2>2 DEF Ids
  <2>6. \A i, j \in DOMAIN r : r[i] = r[j] => i = j
    BY <2>2, <2>3, <2>4, <2>5
  <2>7. \A i \in DOMAIN r : r[i] # Tab!None
    BY <2>1, <2>2, <2>4 DEF Ids
  <2>8. Ids(r)
    BY <2>2, <2>6, <2>7 DEF Ids
  <2>9. after = [open |-> r, active |-> id]
    BY <1>2, <1>4 DEF r
  <2> QED BY <2>8, <2>9 DEF Held
<1> QED BY <1>3, <1>4

\* What is read from the storage.
LEMMA ParsedTabs ==
  ASSUME NEW raw, \E S : raw.open \in Seq(S),
         \A i \in DOMAIN raw.open : raw.open[i] # Tab!None,
         NEW after, after = Tab!parseTabs(raw)
  PROVE  Held(after) /\ Ids(after.open)
<1> DEFINE first == {i \in DOMAIN raw.open : \A j \in 1..(i - 1) : raw.open[j] # raw.open[i]}
           ids == Tab!At(raw.open, first)
<1>1. PICK S : raw.open \in Seq(S)
  OBVIOUS
<1>2. after = [open |-> ids,
               active |-> IF raw.active \in Tab!ToSet(ids) THEN raw.active ELSE Tab!None]
  BY DEF Tab!parseTabs
<1>3. \A i, j \in first : raw.open[i] = raw.open[j] => i = j
  <2> SUFFICES ASSUME NEW i \in first, NEW j \in first, i < j
               PROVE  raw.open[i] # raw.open[j]
    BY <1>1
  <2>1. i \in 1..(j - 1)
    BY <1>1
  <2> QED BY <2>1
<1> HIDE DEF first
<1>4. first \in SUBSET DOMAIN raw.open
  BY DEF first
<1>5. /\ ids \in Seq(S)
      /\ \A n \in DOMAIN ids : \E i \in first : ids[n] = raw.open[i]
      /\ \A n, o \in DOMAIN ids : ids[n] = ids[o] => n = o
  BY <1>1, <1>3, <1>4, FilterKeeps, SMTT(30)
<1> HIDE DEF ids
<1> QED BY <1>2, <1>4, <1>5 DEF Ids, Held

\* The tabs shown are those of documents that are there.
LEMMA TabsOf ==
  ASSUME NEW open, Ids(open), NEW docs,
         NEW r, r = Tab!At(open, {i \in DOMAIN open : open[i] \in docs})
  PROVE  Ids(r) /\ Tab!ToSet(r) = Tab!ToSet(open) \cap docs
<1> DEFINE there == {i \in DOMAIN open : open[i] \in docs}
<1>1. Ids(r) /\ Tab!ToSet(r) = {open[i] : i \in there}
  BY FilteredIds
<1> QED BY <1>1 DEF Tab!ToSet

LEMMA ShownTabs ==
  ASSUME TabInv
  PROVE  /\ Ids(Tab!shown)
         /\ Tab!ToSet(Tab!shown) = Tab!ToSet(tabs.open) \cap Tab!ToSet(documents)
BY TabsOf DEF TabInv, Tab!shown

LEMMA TabStarts == Tab!Init => TabInv
<1> SUFFICES ASSUME Tab!Init
             PROVE  TabInv
  OBVIOUS
<1>1. <<>> \in Seq({}) /\ DOMAIN <<>> = {}
  OBVIOUS
<1>2. Ids(<<>>)
  BY <1>1 DEF Ids
<1> QED BY <1>1, <1>2 DEF Tab!Init, TabInv, Held, Tab!NO_TABS

\* A close, over the tabs that are shown.
LEMMA CloseKeeps ==
  ASSUME TabInv, NEW id \in TabDocs, Tab!Close(id)
  PROVE  /\ Held(tabs') /\ Ids(tabs'.open)
         /\ Tab!ToSet(tabs'.open) = Tab!ToSet(Tab!shown) \ {id}
         /\ tabs.active # id => tabs'.active = tabs.active
         /\ tabs.active = id => tabs'.active \in Tab!ToSet(tabs'.open)
<1> DEFINE ts == [open |-> Tab!shown, active |-> tabs.active]
<1>1. Ids(Tab!shown) /\ Tab!ToSet(Tab!shown) = Tab!ToSet(tabs.open) \cap Tab!ToSet(documents)
  BY ShownTabs
<1>2. [tabs EXCEPT !.open = Tab!shown] = ts
  BY DEF TabInv, Held
<1>3. /\ Len(Tab!shown) > 1 /\ id \in Tab!ToSet(Tab!shown)
      /\ tabs' = Tab!closeTab(ts, id)
  BY <1>2 DEF Tab!Close
<1>4. ts.open = Tab!shown /\ ts.active = tabs.active /\ Held(ts)
  BY DEF Held
<1> HIDE DEF ts
<1>5. /\ Held(tabs') /\ Ids(tabs'.open)
      /\ Tab!ToSet(tabs'.open) = Tab!ToSet(Tab!shown) \ {id}
      /\ tabs.active # id => tabs'.active = tabs.active
      /\ tabs.active = id /\ Tab!ToSet(tabs'.open) # {} => tabs'.active \in Tab!ToSet(tabs'.open)
  BY <1>1, <1>3, <1>4, CloseTab, ZenonT(40)
<1>6. Tab!ToSet(Tab!shown) \ {id} # {}
  <2> DEFINE open == Tab!shown
  <2> HIDE DEF open
  <2>1. Ids(open) /\ Len(open) > 1
    BY <1>1, <1>3 DEF open
  <2>2. 1 \in DOMAIN open /\ 2 \in DOMAIN open
    BY <2>1 DEF Ids
  <2>3. open[1] # open[2]
    BY <2>1, <2>2 DEF Ids
  <2>4. Tab!ToSet(open) \ {id} # {}
    BY <2>2, <2>3 DEF Tab!ToSet
  <2> QED BY <2>4 DEF open
<1> QED BY <1>5, <1>6

LEMMA TabSteps ==
  ASSUME TabInv, [Tab!Next]_tabVars
  PROVE  TabInv'
<1>1. CASE Tab!ReadTabs
  <2>1. tabs' = Tab!parseTabs(tabStorage) /\ read' = TRUE /\ seen' = Tab!None
        /\ tabStorage' = tabStorage
    BY <1>1 DEF Tab!ReadTabs, TabInv
  <2>2. Held(tabs') /\ Ids(tabs'.open)
    BY <2>1, ParsedTabs DEF TabInv
  <2> QED BY <2>1, <2>2 DEF TabInv, Held, Ids
<1>2. CASE Tab!OpenOnRoute
  <2>1. /\ read = TRUE /\ read' = read /\ seen' = tabRoute
        /\ tabs' = IF tabRoute = Tab!None THEN tabs ELSE Tab!openTab(tabs, tabRoute)
        /\ tabStorage' \in {tabs', tabStorage}
    BY <1>2 DEF Tab!OpenOnRoute, Tab!Stored, TabInv
  <2>2. Held(tabs') /\ Ids(tabs'.open) /\ (tabRoute # Tab!None => tabs'.active = tabRoute)
    BY <2>1, OpenTab DEF TabInv
  <2>3. Held(tabStorage') /\ (\E S : tabStorage'.open \in Seq(S))
        /\ \A i \in DOMAIN tabStorage'.open : tabStorage'.open[i] # Tab!None
    BY <2>1, <2>2 DEF TabInv, Ids
  <2> QED BY <2>1, <2>2, <2>3 DEF TabInv, Held, Ids
<1>3. CASE Tab!Drop
  <2>1. /\ \E id, beforeId : tabs' = Tab!moveTab(tabs, id, beforeId)
        /\ tabStorage' \in {tabs', tabStorage} /\ UNCHANGED <<read, seen>>
    BY <1>3 DEF Tab!Drop, Tab!Stored
  <2>2. /\ Held(tabs') /\ Ids(tabs'.open) /\ tabs'.active = tabs.active
        /\ Tab!ToSet(tabs'.open) = Tab!ToSet(tabs.open)
    BY <2>1, MoveTab DEF TabInv
  <2>3. Held(tabStorage') /\ (\E S : tabStorage'.open \in Seq(S))
        /\ \A i \in DOMAIN tabStorage'.open : tabStorage'.open[i] # Tab!None
    BY <2>1, <2>2 DEF TabInv, Ids
  <2> QED BY <2>1, <2>2, <2>3 DEF TabInv
<1>4. ASSUME NEW id \in TabDocs, Tab!Close(id)
      PROVE  TabInv'
  <2>1. /\ Held(tabs') /\ Ids(tabs'.open)
        /\ Tab!ToSet(tabs'.open) = Tab!ToSet(Tab!shown) \ {id}
        /\ tabs.active # id => tabs'.active = tabs.active
    BY <1>4, CloseKeeps
  <2>2. Tab!ToSet(Tab!shown) \subseteq Tab!ToSet(tabs.open)
    BY ShownTabs
  <2>3. tabStorage' \in {tabs', tabStorage} /\ UNCHANGED <<read, seen>>
    BY <1>4 DEF Tab!Close, Tab!Stored
  <2>4. Held(tabStorage') /\ (\E S : tabStorage'.open \in Seq(S))
        /\ \A i \in DOMAIN tabStorage'.open : tabStorage'.open[i] # Tab!None
    BY <2>1, <2>3 DEF TabInv, Ids
  <2>5. seen # Tab!None /\ seen \in Tab!ToSet(tabs'.open) => tabs'.active = seen
    BY <2>1, <2>2 DEF TabInv
  <2> QED BY <2>1, <2>3, <2>4, <2>5 DEF TabInv
<1>5. CASE Tab!Load
  <2>1. <<>> \in Seq({}) /\ DOMAIN <<>> = {}
    OBVIOUS
  <2>2. Ids(<<>>)
    BY <2>1 DEF Ids
  <2>3. /\ read' = FALSE /\ seen' = Tab!None /\ tabStorage' = tabStorage
        /\ tabs' = [open |-> <<>>, active |-> Tab!None]
    BY <1>5 DEF Tab!Load, Tab!NO_TABS
  <2> QED BY <2>2, <2>3 DEF TabInv, Held
<1>6. CASE Tab!OtherWindow
  <2>1. UNCHANGED <<tabs, read, seen>>
    BY <1>6 DEF Tab!OtherWindow
  <2> PICK n \in {0, 2}, active \in TabDocs \cup {Tab!None} : \E open \in [1..n -> TabDocs] :
          tabStorage' = [open |-> open, active |-> active]
    BY <1>6 DEF Tab!OtherWindow
  <2>2. PICK open \in [1..n -> TabDocs] : tabStorage' = [open |-> open, active |-> active]
    OBVIOUS
  <2>3. open \in Seq(TabDocs)
    BY <2>2
  <2>4. \A i \in DOMAIN open : open[i] # Tab!None
    BY <2>3, TabAssumption
  <2> QED BY <2>1, <2>2, <2>3, <2>4 DEF TabInv, Held
<1>7. CASE \/ Tab!Navigate \/ Tab!Land \/ Tab!DocumentsChange \/ UNCHANGED tabVars
  BY <1>7 DEF Tab!Navigate, Tab!Land, Tab!DocumentsChange, tabVars, TabInv
<1> QED BY <1>1, <1>2, <1>3, <1>4, <1>5, <1>6, <1>7 DEF Tab!Next

\* The tab of the page is the active one, and its close activates another.
LEMMA TabCloses ==
  ASSUME TabInv
  PROVE  Tab!ClosesOntoATab
<1> SUFFICES ASSUME NEW id \in TabDocs, Tab!Close(id), id = tabRoute
             PROVE  tabGoing' \in Tab!ToSet(Tab!shown') \ {id}
  BY DEF Tab!ClosesOntoATab
<1>1. Ids(Tab!shown) /\ Tab!ToSet(Tab!shown) = Tab!ToSet(tabs.open) \cap Tab!ToSet(documents)
  BY ShownTabs
<1>2. /\ Held(tabs') /\ Ids(tabs'.open)
      /\ Tab!ToSet(tabs'.open) = Tab!ToSet(Tab!shown) \ {id}
      /\ tabs.active = id => tabs'.active \in Tab!ToSet(tabs'.open)
  BY CloseKeeps
<1>3. /\ id \in Tab!ToSet(Tab!shown) /\ tabRoute = seen /\ documents' = documents
      /\ tabGoing' = IF tabs'.active \notin {Tab!None, tabs.active} THEN tabs'.active ELSE tabGoing
  BY DEF Tab!Close
<1>4. tabs.active = id
  BY <1>1, <1>3, TabAssumption DEF TabInv
<1>5. tabs'.active \in Tab!ToSet(tabs'.open) /\ tabs'.active # id
  BY <1>2, <1>4
<1>6. tabs'.active # Tab!None
  BY <1>2, <1>5 DEF Ids, Tab!ToSet
<1>7. tabGoing' = tabs'.active
  BY <1>3, <1>4, <1>5, <1>6
<1>8. Tab!ToSet(Tab!shown') = Tab!ToSet(tabs'.open) \cap Tab!ToSet(documents)
  <2>1. Tab!shown' = Tab!At(tabs'.open, {i \in DOMAIN tabs'.open :
                                           tabs'.open[i] \in Tab!ToSet(documents)})
    BY <1>3 DEF Tab!shown
  <2> QED BY <1>2, <2>1, TabsOf
<1> QED BY <1>1, <1>2, <1>5, <1>7, <1>8

\* Closing the tab of the page one is on takes one to a document that still exists
\* and whose tab stays (document-tabs.tsx, close).
THEOREM ClosesMoveOn == Spec => CloseMovesOn
<1> DEFINE Inv == scenario = "tabs" => TabInv
<1>1. Init => Inv
  BY TabStarts DEF Init
<1>2. Inv /\ [Next]_vars => Inv'
  <2> SUFFICES ASSUME Inv, [Next]_vars
               PROVE  Inv'
    OBVIOUS
  <2> QED BY ComponentMoves, TabSteps
<1>3. Inv /\ [Next]_vars => [scenario = "tabs" => Tab!ClosesOntoATab]_vars
  BY TabCloses
<1> QED BY <1>1, <1>2, <1>3, PTL DEF Spec, CloseMovesOn

-----------------------------------------------------------------------------
(* The list *)

\* Without an event on its way, or one that went past the socket, the last answer
\* to come is the catalogue: of the last refresh, unless it is yet to be read.
ListInv ==
  /\ IsFiniteSet(listCatalogue) /\ IsFiniteSet(trash)
  /\ \E S : listFeed \in Seq(S)
  /\ \E S : refreshes \in Seq(S)
  /\ listSocket # "open" => listFeed = <<>>
  /\ \A i \in DOMAIN refreshes : i # 1 => ~refreshes[i].handled
  /\ listFeed = <<>> /\ ~listLost =>
       IF refreshes = <<>> THEN live = List!InOrder(listCatalogue)
       ELSE LET last == refreshes[Len(refreshes)]
            IN last.handled => last.rows = List!InOrder(listCatalogue)

\* A change of the catalogue is on its way, or went past.
LEMMA BroadcastKeeps ==
  ASSUME ListInv, NEW S, NEW changes \in Seq(S), changes # <<>>, List!Broadcast(changes),
         UNCHANGED <<listSocket, refreshes>>,
         IsFiniteSet(listCatalogue'), IsFiniteSet(trash')
  PROVE  ListInv'
<1>1. PICK T : listFeed \in Seq(T)
  BY DEF ListInv
<1>2. CASE listSocket = "open"
  <2>1. listFeed' = listFeed \o changes
    BY <1>2 DEF List!Broadcast
  <2>2. listFeed \in Seq(S \cup T) /\ changes \in Seq(S \cup T)
    BY <1>1
  <2>3. listFeed' \in Seq(S \cup T) /\ listFeed' # <<>>
    BY <2>1, <2>2
  <2> QED BY <1>2, <2>3 DEF ListInv
<1>3. CASE listSocket # "open"
  BY <1>3 DEF ListInv, List!Broadcast
<1> QED BY <1>2, <1>3

LEMMA OneBroadcastKeeps ==
  ASSUME ListInv, NEW change, List!Broadcast(<<change>>),
         UNCHANGED <<listSocket, refreshes>>,
         IsFiniteSet(listCatalogue'), IsFiniteSet(trash')
  PROVE  ListInv'
<1>1. <<change>> \in Seq({change}) /\ <<change>> # <<>>
  OBVIOUS
<1> QED BY <1>1, BroadcastKeeps

LEMMA WrittenKeeps ==
  ASSUME ListInv, NEW kind, NEW id, List!Written(kind, id),
         UNCHANGED <<listSocket, refreshes>>
  PROVE  ListInv'
<1>1. CASE List!Created(id)
  <2>1. IsFiniteSet(listCatalogue') /\ IsFiniteSet(trash')
    BY <1>1, FS_AddElement DEF ListInv, List!Created
  <2>2. \E e : List!Broadcast(<<e>>)
    BY <1>1 DEF List!Created
  <2>3. PICK e : List!Broadcast(<<e>>)
    BY <2>2
  <2> QED BY <2>1, <2>3, OneBroadcastKeeps
<1>2. CASE List!Changed(id)
  <2>1. PICK row : listCatalogue' = {r \in listCatalogue : r.id # id} \cup {row}
    BY <1>2 DEF List!Changed
  <2>2. IsFiniteSet({r \in listCatalogue : r.id # id})
    BY FS_Subset DEF ListInv
  <2>3. IsFiniteSet(listCatalogue') /\ IsFiniteSet(trash')
    BY <1>2, <2>1, <2>2, FS_AddElement DEF ListInv, List!Changed
  <2>4. PICK e : List!Broadcast(<<e>>)
    BY <1>2 DEF List!Changed
  <2> QED BY <2>3, <2>4, OneBroadcastKeeps
<1>3. CASE List!Deleted(id)
  <2>1. PICK gone : /\ gone \subseteq listCatalogue
                    /\ listCatalogue' = listCatalogue \ gone /\ trash' = trash \cup gone
                    /\ \E e : List!Broadcast(<<e>>)
    BY <1>3 DEF List!Deleted
  <2>2. IsFiniteSet(gone) /\ IsFiniteSet(listCatalogue')
    BY <2>1, FS_Subset DEF ListInv
  <2>3. IsFiniteSet(trash')
    BY <2>1, <2>2, FS_Union DEF ListInv
  <2>4. PICK e : List!Broadcast(<<e>>)
    BY <2>1
  <2> QED BY <2>2, <2>3, <2>4, OneBroadcastKeeps
<1> QED BY <1>1, <1>2, <1>3 DEF List!Written

LEMMA RestoredKeeps ==
  ASSUME ListInv, List!Restored, UNCHANGED <<listSocket, refreshes>>
  PROVE  ListInv'
<1>1. PICK entry \in (SUBSET trash) \ {{}} :
        /\ trash' = trash \ entry /\ listCatalogue' = listCatalogue \cup entry
        /\ List!Broadcast([i \in 1..List!Cardinality(entry) |->
             [event |-> "created", document |-> List!SetToSeq(entry)[i]]])
  BY DEF List!Restored
<1> DEFINE changes == [i \in 1..List!Cardinality(entry) |->
                         [event |-> "created", document |-> List!SetToSeq(entry)[i]]]
<1>2. IsFiniteSet(entry) /\ entry # {} /\ IsFiniteSet(trash')
  <2>1. entry \in SUBSET trash /\ trash' \in SUBSET trash /\ entry # {}
    BY <1>1
  <2> QED BY <2>1, FS_Subset DEF ListInv
<1>3. Cardinality(entry) \in Nat /\ Cardinality(entry) # 0
  BY <1>2, FS_CardinalityType, FS_EmptySet
<1>4. List!Cardinality(entry) = Cardinality(entry)
  BY Zenon DEF List!Cardinality, Cardinality, List!IsFiniteSet, IsFiniteSet
<1>5. IsFiniteSet(listCatalogue')
  BY <1>1, <1>2, FS_Union DEF ListInv
<1>6. changes = [i \in 1..Cardinality(entry) |-> changes[i]]
  BY <1>4
<1> HIDE DEF changes
<1>8. changes \in Seq({changes[i] : i \in 1..Cardinality(entry)}) /\ changes # <<>>
  BY <1>3, <1>6
<1>7. List!Broadcast(changes)
  BY <1>1 DEF changes
<1> QED BY <1>2, <1>5, <1>7, <1>8, BroadcastKeeps

\* A refresh that is asked for is read after what the list has heard.
LEMMA RefreshedKeeps ==
  ASSUME ListInv, refreshes' = List!refreshed(refreshes),
         UNCHANGED <<listCatalogue, trash, listSocket>>,
         \/ UNCHANGED <<listFeed, listLost>>
         \/ listFeed # <<>> /\ listFeed' = Tail(listFeed) /\ UNCHANGED listLost
  PROVE  ListInv'
<1>1. PICK S, T : listFeed \in Seq(S) /\ refreshes \in Seq(T)
  BY DEF ListInv
<1> DEFINE L == Len(refreshes)
<1>2. L \in Nat /\ DOMAIN refreshes = 1..L
  BY <1>1
<1>3. /\ refreshes' \in Seq(T \cup {List!Refresh}) /\ refreshes' # <<>>
      /\ Len(refreshes') = L + 1 /\ DOMAIN refreshes' = 1..(L + 1)
      /\ \A i \in 1..L : refreshes'[i] = refreshes[i]
      /\ refreshes'[L + 1] = List!Refresh
  BY <1>1 DEF List!refreshed
<1>4. ~List!Refresh.handled
  BY DEF List!Refresh
<1> HIDE DEF L
<1>5. \A i \in DOMAIN refreshes' : i # 1 => ~refreshes'[i].handled
  <2> SUFFICES ASSUME NEW i \in 1..(L + 1), i # 1
               PROVE  ~refreshes'[i].handled
    BY <1>3
  <2>1. i \in 1..L \/ i = L + 1
    BY <1>2
  <2> QED BY <1>2, <1>3, <1>4, <2>1 DEF ListInv
<1>6. \E V : listFeed' \in Seq(V)
  BY <1>1
<1>7. listSocket' # "open" => listFeed' = <<>>
  BY DEF ListInv
<1> QED BY <1>3, <1>4, <1>5, <1>6, <1>7 DEF ListInv

LEMMA ListStarts == List!Init => ListInv
<1> SUFFICES ASSUME List!Init
             PROVE  ListInv
  OBVIOUS
<1>1. PICK ids \in SUBSET ListDocuments : listCatalogue = {List!Row(id, 0) : id \in ids}
  BY DEF List!Init
<1>2. IsFiniteSet(ids)
  BY ListAssumption, FS_Subset
<1>3. IsFiniteSet(listCatalogue)
  <2> DEFINE row == [id \in ids |-> List!Row(id, 0)]
  <2>1. row \in Surjection(ids, listCatalogue)
    BY <1>1, Zenon DEF Surjection
  <2> QED BY <1>2, <2>1, FS_Surjection
<1>4. <<>> \in Seq({}) /\ DOMAIN <<>> = {} /\ IsFiniteSet({})
  BY FS_EmptySet
<1> QED BY <1>3, <1>4 DEF List!Init, ListInv, List!readDocuments

LEMMA ListSteps ==
  ASSUME ListInv, [List!Next]_listVars
  PROVE  ListInv'
<1> USE DEF List!server
<1>1. PICK S, T : listFeed \in Seq(S) /\ refreshes \in Seq(T)
  BY DEF ListInv
<1>2. CASE List!OthersWrite
  BY <1>2, WrittenKeeps, RestoredKeeps DEF List!OthersWrite
<1>3. CASE List!SubmitHandled
  BY <1>3, WrittenKeeps DEF List!SubmitHandled
<1>4. CASE List!Open
  BY <1>4 DEF List!Open, ListInv
<1>5. CASE List!Drop
  <2>1. listFeed' \in Seq({})
    BY <1>5 DEF List!Drop
  <2> QED BY <1>5, <2>1 DEF List!Drop, ListInv
<1>6. CASE List!Receive
  BY <1>6, RefreshedKeeps DEF List!Receive
<1>7. CASE List!SubmitAnswered
  BY <1>7, RefreshedKeeps DEF List!SubmitAnswered
<1>8. CASE List!RefreshHandled
  <2> DEFINE read_ == [handled |-> TRUE, rows |-> List!InOrder(listCatalogue)]
             L == Len(refreshes)
  <2>1. /\ refreshes # <<>> /\ refreshes' = [refreshes EXCEPT ![1] = read_]
        /\ UNCHANGED <<listCatalogue, trash, listSocket, listFeed, live>>
    BY <1>8 DEF List!RefreshHandled, List!readDocuments
  <2> HIDE DEF read_
  <2>2. L \in Nat \ {0} /\ DOMAIN refreshes = 1..L
    BY <1>1, <2>1
  <2>3. /\ refreshes' \in Seq(T \cup {read_}) /\ refreshes' # <<>>
        /\ Len(refreshes') = L /\ DOMAIN refreshes' = 1..L
        /\ \A i \in 1..L : refreshes'[i] = IF i = 1 THEN read_ ELSE refreshes[i]
    BY <1>1, <2>1, <2>2
  <2> HIDE DEF L
  <2>4. refreshes'[L].handled => refreshes'[L].rows = List!InOrder(listCatalogue)
    BY <2>2, <2>3 DEF ListInv, read_
  <2>5. \A i \in DOMAIN refreshes' : i # 1 => ~refreshes'[i].handled
    BY <2>2, <2>3 DEF ListInv
  <2> QED BY <2>1, <2>3, <2>4, <2>5 DEF ListInv
<1>9. CASE List!RefreshAnswered
  <2> DEFINE L == Len(refreshes)
  <2>1. /\ refreshes # <<>> /\ Head(refreshes).handled
        /\ refreshes' = Tail(refreshes) /\ live' = Head(refreshes).rows
        /\ UNCHANGED <<listCatalogue, trash, listSocket, listFeed, listLost>>
    BY <1>9 DEF List!RefreshAnswered
  <2>2. L \in Nat \ {0} /\ DOMAIN refreshes = 1..L /\ Head(refreshes) = refreshes[1]
    BY <1>1, <2>1
  <2>3. /\ refreshes' \in Seq(T) /\ Len(refreshes') = L - 1
        /\ DOMAIN refreshes' = 1..(L - 1)
        /\ \A i \in 1..(L - 1) : refreshes'[i] = refreshes[i + 1]
    BY <1>1, <2>1, <2>2
  <2> HIDE DEF L
  <2>4. \A i \in DOMAIN refreshes' : ~refreshes'[i].handled
    <3> SUFFICES ASSUME NEW i \in 1..(L - 1)
                 PROVE  ~refreshes'[i].handled
      BY <2>3
    <3>1. i + 1 \in DOMAIN refreshes /\ i + 1 # 1
      BY <2>2
    <3> QED BY <2>3, <3>1 DEF ListInv
  <2>5. CASE L = 1
    <3>1. refreshes' = <<>>
      BY <2>3, <2>5
    <3>2. refreshes[Len(refreshes)] = Head(refreshes)
      BY <2>2, <2>5 DEF L
    <3> QED BY <2>1, <2>3, <2>4, <3>1, <3>2 DEF ListInv
  <2>6. CASE L # 1
    <3>1. refreshes' # <<>> /\ Len(refreshes') \in DOMAIN refreshes'
      BY <2>2, <2>3, <2>6
    <3> QED BY <2>1, <2>3, <2>4, <3>1 DEF ListInv
  <2> QED BY <2>5, <2>6
<1>10. CASE \/ List!OpenDialog \/ List!CloseDialog \/ List!Submit \/ List!SubmitRefused
            \/ UNCHANGED listVars
  BY <1>10 DEF List!OpenDialog, List!CloseDialog, List!Submit, List!SubmitRefused, listVars,
               ListInv
<1> QED BY <1>2, <1>3, <1>4, <1>5, <1>6, <1>7, <1>8, <1>9, <1>10 DEF List!Next

-----------------------------------------------------------------------------
(* The mirrors *)

Named == {e \in [id : MirrorDocuments, name : Int] : e.name >= 0}

\* No event about d is on its way.
Heard(d) == \A i \in DOMAIN mirrorFeed : mirrorFeed[i].id # d

\* The name of a document by the events that arrived, over the one that was read:
\* what is on its way ends in the name it has.
NamesInv ==
  /\ mirrorCatalogue \in [MirrorDocuments -> Nat]
  /\ names \in [MirrorDocuments -> Int]
  /\ request.stage = "read" => request.rows \in [MirrorDocuments -> Nat]
  /\ mirrorFeed \in Seq(Named)
  /\ mirrorSocket \in {"opening", "open", "closed"}
  /\ mirrorSocket # "open" => mirrorFeed = <<>>
  /\ mirrorSocket = "closed" => mirrorLost
  /\ mirrorSocket = "opening" /\ request.stage \in {"asked", "read"} =>
       \A d \in MirrorDocuments : names[d] = Mirror!Unknown
  /\ \A i \in DOMAIN mirrorFeed :
       \/ \E j \in DOMAIN mirrorFeed : j > i /\ mirrorFeed[j].id = mirrorFeed[i].id
       \/ mirrorFeed[i].name = mirrorCatalogue[mirrorFeed[i].id]
  /\ \A d \in MirrorDocuments : Heard(d) =>
       /\ request.stage \in {"asked", "read"} /\ mirrorSocket # "closed" =>
            names[d] \in {mirrorCatalogue[d], Mirror!Unknown}
       /\ request.stage = "read" /\ ~mirrorLost /\ names[d] = Mirror!Unknown =>
            request.rows[d] = mirrorCatalogue[d]
       /\ request.stage = "done" /\ ~mirrorLost =>
            \/ names[d] = mirrorCatalogue[d]
            \/ /\ names[d] = Mirror!Unknown /\ mirrorCatalogue[d] = Mirror!Gone
               /\ d \notin restored

LEMMA NamesStart == Mirror!Init => NamesInv
<1> SUFFICES ASSUME Mirror!Init
             PROVE  NamesInv
  OBVIOUS
<1>1. <<>> \in Seq(Named) /\ DOMAIN <<>> = {}
  OBVIOUS
<1> QED BY <1>1 DEF Mirror!Init, NamesInv, Mirror!Unknown

\* A change is the last event on its way, or went past.
LEMMA WriteKeeps ==
  ASSUME NamesInv, NEW d \in MirrorDocuments, Mirror!Write(d)
  PROVE  NamesInv'
<1>1. PICK name \in 0..MirrorEdits :
        /\ mirrorCatalogue' = [mirrorCatalogue EXCEPT ![d] = name]
        /\ Mirror!Broadcast(d, name)
  BY DEF Mirror!Write
<1>2. UNCHANGED <<restored, request, mirrorSocket, names>>
  BY DEF Mirror!Write, Mirror!mirrored
<1>3. mirrorCatalogue' \in [MirrorDocuments -> Nat]
  BY <1>1 DEF NamesInv
<1>4. CASE mirrorSocket = "open"
  <2> DEFINE L == Len(mirrorFeed)
             e == [id |-> d, name |-> name]
  <2>1. mirrorFeed' = Append(mirrorFeed, e) /\ mirrorLost' = mirrorLost
    BY <1>1, <1>4 DEF Mirror!Broadcast
  <2>2. e \in Named /\ e.id = d /\ e.name = name
    BY DEF Named
  <2> HIDE DEF e
  <2>3. L \in Nat /\ DOMAIN mirrorFeed = 1..L
    BY DEF NamesInv
  <2>4. /\ mirrorFeed' \in Seq(Named) /\ DOMAIN mirrorFeed' = 1..(L + 1)
        /\ \A i \in 1..L : mirrorFeed'[i] = mirrorFeed[i]
        /\ mirrorFeed'[L + 1] = e
    BY <2>1, <2>2 DEF NamesInv
  <2> HIDE DEF L
  <2>5. L + 1 \in DOMAIN mirrorFeed' /\ \A i \in DOMAIN mirrorFeed' : i \in 1..L \/ i = L + 1
    BY <2>3, <2>4
  <2>6. ASSUME NEW i \in DOMAIN mirrorFeed'
        PROVE  \/ \E j \in DOMAIN mirrorFeed' : j > i /\ mirrorFeed'[j].id = mirrorFeed'[i].id
               \/ mirrorFeed'[i].name = mirrorCatalogue'[mirrorFeed'[i].id]
    <3>1. CASE i = L + 1
      BY <1>1, <2>2, <2>4, <3>1 DEF NamesInv
    <3>2. CASE i \in 1..L /\ mirrorFeed[i].id = d
      BY <2>2, <2>3, <2>4, <2>5, <3>2
    <3>3. CASE i \in 1..L /\ mirrorFeed[i].id # d
      <4>1. mirrorFeed[i].id \in MirrorDocuments
        BY <2>3, <3>3 DEF NamesInv, Named
      <4>2. mirrorCatalogue'[mirrorFeed[i].id] = mirrorCatalogue[mirrorFeed[i].id]
        BY <1>1, <3>3, <4>1 DEF NamesInv
      <4>3. \/ \E j \in 1..L : j > i /\ mirrorFeed[j].id = mirrorFeed[i].id
            \/ mirrorFeed[i].name = mirrorCatalogue[mirrorFeed[i].id]
        BY <2>3, <3>3 DEF NamesInv
      <4>4. \A j \in 1..L : j \in DOMAIN mirrorFeed'
        BY <2>3, <2>4
      <4> QED BY <2>4, <3>3, <4>2, <4>3, <4>4
    <3> QED BY <2>5, <3>1, <3>2, <3>3
  <2>7. ASSUME NEW c \in MirrorDocuments, Heard(c)'
        PROVE  c # d /\ Heard(c) /\ mirrorCatalogue'[c] = mirrorCatalogue[c]
    <3>1. c # d
      BY <2>2, <2>4, <2>5, <2>7 DEF Heard
    <3>2. Heard(c)
      BY <2>3, <2>4, <2>7 DEF Heard
    <3> QED BY <1>1, <3>1, <3>2 DEF NamesInv
  <2> QED BY <1>2, <1>3, <1>4, <2>1, <2>4, <2>6, <2>7 DEF NamesInv
<1>5. CASE mirrorSocket # "open"
  <2>1. mirrorLost' = TRUE /\ mirrorFeed' = mirrorFeed /\ mirrorFeed = <<>>
    BY <1>1, <1>5 DEF Mirror!Broadcast, NamesInv
  <2>2. DOMAIN mirrorFeed = {}
    BY <2>1
  <2>3. mirrorSocket # "closed" => mirrorSocket = "opening"
    BY <1>5 DEF NamesInv
  <2> QED BY <1>2, <1>3, <1>5, <2>1, <2>2, <2>3 DEF NamesInv
<1> QED BY <1>4, <1>5

\* What arrives is the name, unless a later event of its document is on its way.
LEMMA ReceiveKeeps ==
  ASSUME NamesInv, Mirror!Receive
  PROVE  NamesInv'
<1> DEFINE L == Len(mirrorFeed)
           e == mirrorFeed[1]
<1>1. /\ mirrorFeed # <<>> /\ mirrorFeed' = Tail(mirrorFeed)
      /\ names' = [names EXCEPT ![Head(mirrorFeed).id] = Head(mirrorFeed).name]
      /\ UNCHANGED <<mirrorCatalogue, restored, request, mirrorSocket, mirrorLost>>
  BY DEF Mirror!Receive
<1>2. /\ L \in Nat \ {0} /\ DOMAIN mirrorFeed = 1..L /\ Head(mirrorFeed) = e
      /\ e \in Named /\ e.id \in MirrorDocuments /\ e.name \in Int /\ e.name >= 0
  BY <1>1 DEF NamesInv, Named
<1>3. /\ mirrorFeed' \in Seq(Named) /\ DOMAIN mirrorFeed' = 1..(L - 1)
      /\ \A i \in 1..(L - 1) : mirrorFeed'[i] = mirrorFeed[i + 1]
  BY <1>1, <1>2 DEF NamesInv
<1>4. names' \in [MirrorDocuments -> Int]
  BY <1>1, <1>2 DEF NamesInv
<1> HIDE DEF L, e
<1>5. \A i \in 2..L : i - 1 \in DOMAIN mirrorFeed' /\ mirrorFeed'[i - 1] = mirrorFeed[i]
  <2> SUFFICES ASSUME NEW i \in 2..L
               PROVE  i - 1 \in DOMAIN mirrorFeed' /\ mirrorFeed'[i - 1] = mirrorFeed[i]
    OBVIOUS
  <2>1. i - 1 \in 1..(L - 1) /\ (i - 1) + 1 = i
    BY <1>2
  <2> QED BY <1>3, <2>1
<1>6. ASSUME NEW i \in DOMAIN mirrorFeed'
      PROVE  \/ \E j \in DOMAIN mirrorFeed' : j > i /\ mirrorFeed'[j].id = mirrorFeed'[i].id
             \/ mirrorFeed'[i].name = mirrorCatalogue[mirrorFeed'[i].id]
  <2>1. i + 1 \in 2..L /\ i + 1 \in DOMAIN mirrorFeed /\ mirrorFeed'[i] = mirrorFeed[i + 1]
    BY <1>2, <1>3
  <2>2. \/ \E j \in 1..L : j > i + 1 /\ mirrorFeed[j].id = mirrorFeed[i + 1].id
        \/ mirrorFeed[i + 1].name = mirrorCatalogue[mirrorFeed[i + 1].id]
    BY <1>2, <2>1 DEF NamesInv
  <2>3. \A j \in 1..L : j > i + 1 => j \in 2..L /\ j - 1 > i
    BY <1>2, <1>3
  <2> QED BY <1>5, <2>1, <2>2, <2>3
<1>7. ASSUME NEW d \in MirrorDocuments, Heard(d)'
      PROVE  \/ d = e.id /\ names'[d] = mirrorCatalogue[d] /\ names'[d] # Mirror!Unknown
             \/ Heard(d) /\ names'[d] = names[d]
  <2>1. \A i \in 2..L : mirrorFeed[i].id # d
    BY <1>5, <1>7 DEF Heard
  <2>2. CASE d = e.id
    <3>1. 1 \in DOMAIN mirrorFeed /\ \A j \in DOMAIN mirrorFeed : j > 1 => j \in 2..L
      BY <1>2
    <3>2. e.name = mirrorCatalogue[d]
      BY <2>1, <2>2, <3>1 DEF NamesInv, e
    <3>3. names'[d] = e.name
      BY <1>1, <1>2, <2>2 DEF NamesInv
    <3> QED BY <1>2, <2>2, <3>2, <3>3 DEF Mirror!Unknown
  <2>3. CASE d # e.id
    <3>1. \A i \in DOMAIN mirrorFeed : i = 1 \/ i \in 2..L
      BY <1>2
    <3>2. Heard(d)
      BY <2>1, <2>3, <3>1 DEF Heard, e
    <3> QED BY <1>1, <1>2, <2>3, <3>2 DEF NamesInv
  <2> QED BY <2>2, <2>3
<1>8. mirrorSocket = "open"
  BY <1>1 DEF NamesInv
<1> QED BY <1>1, <1>3, <1>4, <1>6, <1>7, <1>8 DEF NamesInv

LEMMA NamesSteps ==
  ASSUME NamesInv, [Mirror!Next]_mirrorVars
  PROVE  NamesInv'
<1> USE DEF Mirror!named, Mirror!mirrored
<1>1. ASSUME NEW d \in MirrorDocuments, Mirror!Write(d)
      PROVE  NamesInv'
  BY <1>1, WriteKeeps
<1>2. CASE Mirror!Receive
  BY <1>2, ReceiveKeeps
<1>3. CASE Mirror!OpenSocket
  BY <1>3 DEF Mirror!OpenSocket, NamesInv, Heard
<1>4. CASE Mirror!DropSocket
  <2>1. mirrorFeed' \in Seq(Named) /\ DOMAIN mirrorFeed' = {}
    BY <1>4 DEF Mirror!DropSocket
  <2> QED BY <1>4, <2>1 DEF Mirror!DropSocket, NamesInv
<1>5. CASE Mirror!Read
  BY <1>5 DEF Mirror!Read, Mirror!Requested, NamesInv, Heard
<1>6. CASE Mirror!Answered
  <2>1. /\ request.stage = "read" /\ request'.stage = "done"
        /\ names' = [d \in MirrorDocuments |-> Mirror!Merged(d)]
        /\ UNCHANGED <<mirrorCatalogue, restored, mirrorSocket, mirrorFeed, mirrorLost>>
    BY <1>6 DEF Mirror!Answered
  <2>2. \A d \in MirrorDocuments :
          names'[d] = IF names[d] # Mirror!Unknown THEN names[d]
                      ELSE IF request.rows[d] = Mirror!Gone /\ d \notin restored
                           THEN Mirror!Unknown ELSE request.rows[d]
    BY <2>1 DEF Mirror!Merged, Mirror!Answer
  <2>3. names' \in [MirrorDocuments -> Int]
    BY <2>1, <2>2 DEF NamesInv, Mirror!Unknown
  <2>4. ASSUME NEW d \in MirrorDocuments, Heard(d), ~mirrorLost
        PROVE  \/ names'[d] = mirrorCatalogue[d]
               \/ /\ names'[d] = Mirror!Unknown /\ mirrorCatalogue[d] = Mirror!Gone
                  /\ d \notin restored
    BY <2>1, <2>2, <2>4 DEF NamesInv
  <2> QED BY <2>1, <2>3, <2>4 DEF NamesInv, Heard
<1>7. CASE Mirror!ReadFails
  BY <1>7 DEF Mirror!ReadFails, NamesInv, Heard
<1>8. CASE \/ Mirror!EditBlock \/ Mirror!Run \/ Mirror!Unmount
           \/ (\E r \in DOMAIN runs : Mirror!Acquired(r) \/ Mirror!Refused(r) \/ Mirror!Released(r))
           \/ UNCHANGED mirrorVars
  BY <1>8 DEF Mirror!EditBlock, Mirror!Run, Mirror!Unmount, Mirror!Acquired, Mirror!Refused,
              Mirror!Released, mirrorVars, NamesInv, Heard
<1> QED BY <1>1, <1>2, <1>3, <1>4, <1>5, <1>6, <1>7, <1>8 DEF Mirror!Next

Stages == {"acquiring", "held", "failed", "over"}

RunTyped == [stage : Stages, cancelled : BOOLEAN]

\* Every run but the last is cancelled, and what the last one holds is shown.
RunsInv ==
  /\ runs \in Seq(RunTyped)
  /\ \A i \in DOMAIN runs : i # Len(runs) => runs[i].cancelled
  /\ \A r \in DOMAIN runs :
       Mirror!Shows(r) => mirror = [status |-> "read", block |-> mirrorBlock]

LEMMA RunsStart == Mirror!Init => RunsInv
<1> SUFFICES ASSUME Mirror!Init
             PROVE  RunsInv
  OBVIOUS
<1>1. runs = <<>> /\ <<>> \in Seq(RunTyped)
  BY DEF Mirror!Init
<1> QED BY <1>1 DEF RunsInv

\* What becomes of one run.
LEMMA RunMoves ==
  ASSUME RunsInv, NEW r \in DOMAIN runs, NEW stage \in Stages,
         runs' = [runs EXCEPT ![r].stage = stage], UNCHANGED mirrorBlock,
         \/ UNCHANGED mirror /\ (runs[r].cancelled \/ stage # "held")
         \/ /\ ~runs[r].cancelled
            /\ stage # "held" \/ mirror' = [status |-> "read", block |-> mirrorBlock]
  PROVE  RunsInv'
<1> DEFINE L == Len(runs)
<1>1. runs \in Seq(RunTyped)
  BY DEF RunsInv
<1>2. L \in Nat /\ DOMAIN runs = 1..L
  BY <1>1
<1>3. \A i \in 1..L : runs[i] \in RunTyped
  BY <1>1
<1> HIDE DEF L
<1>4. [runs[r] EXCEPT !.stage = stage] \in RunTyped
  BY <1>2, <1>3 DEF RunTyped
<1>5. runs' \in Seq(RunTyped) /\ Len(runs') = L
  <2> DEFINE e == [runs[r] EXCEPT !.stage = stage]
  <2>1. runs' = [runs EXCEPT ![r] = e] /\ e \in RunTyped
    BY <1>4
  <2> HIDE DEF e
  <2>2. r \in 1..Len(runs)
    BY <1>2 DEF L
  <2> QED BY ONLY <1>1, <2>1, <2>2, ExceptSeq DEF L
<1>6. DOMAIN runs' = 1..L
  BY <1>2
<1>7. \A i \in 1..L : /\ runs'[i].cancelled = runs[i].cancelled
                      /\ runs'[i].stage = IF i = r THEN stage ELSE runs[i].stage
  BY <1>2, <1>3 DEF RunTyped
<1>8. \A i \in DOMAIN runs' : i # Len(runs') => runs'[i].cancelled
  BY <1>2, <1>5, <1>6, <1>7 DEF RunsInv, L
<1>9. ASSUME NEW i \in DOMAIN runs', Mirror!Shows(i)'
       PROVE  mirror' = [status |-> "read", block |-> mirrorBlock']
  <2>1. i = L /\ runs'[i].stage = "held" /\ ~runs[i].cancelled
    BY <1>5, <1>6, <1>7, <1>9 DEF Mirror!Shows, Mirror!Live
  <2>2. CASE i = r
    BY <1>6, <1>7, <2>1, <2>2
  <2>3. CASE i # r
    <3>1. Mirror!Shows(i) /\ i \in DOMAIN runs
      BY <1>2, <1>6, <1>7, <2>1, <2>3 DEF Mirror!Shows, Mirror!Live, L
    <3>2. runs[r].cancelled
      BY <1>2, <2>1, <2>3 DEF RunsInv, L
    <3> QED BY <3>1, <3>2 DEF RunsInv
  <2> QED BY <2>2, <2>3
<1> QED BY <1>5, <1>8, <1>9 DEF RunsInv

\* The runs before one, and one that is not wanted any more.
LEMMA RunsEnd ==
  ASSUME RunsInv
  PROVE  LET over == Mirror!Cancelled(runs)
         IN /\ over \in Seq(RunTyped) /\ Len(over) = Len(runs) /\ DOMAIN over = DOMAIN runs
            /\ \A i \in DOMAIN runs : over[i].cancelled
<1> DEFINE L == Len(runs)
           over == Mirror!Cancelled(runs)
<1>1. runs \in Seq(RunTyped)
  BY DEF RunsInv
<1>2. L \in Nat /\ DOMAIN runs = 1..L
  BY <1>1
<1>3. \A i \in 1..L : runs[i] \in RunTyped
  BY <1>1
<1> HIDE DEF L
<1>4. over = [i \in 1..L |-> [runs[i] EXCEPT !.cancelled = TRUE]]
  BY <1>2 DEF Mirror!Cancelled
<1>5. \A i \in 1..L : over[i] \in RunTyped /\ over[i].cancelled
  BY <1>3, <1>4 DEF RunTyped
<1>6. over \in [1..L -> RunTyped]
  BY <1>4, <1>5
<1> HIDE DEF over
<1>7. over \in Seq(RunTyped) /\ Len(over) = L
  BY <1>2, <1>6
<1> QED BY <1>2, <1>4, <1>5, <1>7 DEF L, over

LEMMA RunsSteps ==
  ASSUME RunsInv, [Mirror!Next]_mirrorVars
  PROVE  RunsInv'
<1> USE DEF Mirror!named
<1>1. CASE UNCHANGED <<mirrorBlock, runs, mirror>>
  BY <1>1 DEF RunsInv, Mirror!Shows, Mirror!Live
<1>2. CASE Mirror!EditBlock
  <2>1. /\ runs' = runs
        /\ (\E r \in DOMAIN runs : Mirror!Shows(r)) =>
             mirror' = [status |-> "read", block |-> mirrorBlock']
    BY <1>2 DEF Mirror!EditBlock
  <2>2. \A r \in DOMAIN runs : Mirror!Shows(r)' => Mirror!Shows(r)
    BY <2>1 DEF Mirror!Shows, Mirror!Live
  <2> QED BY <2>1, <2>2 DEF RunsInv
<1>3. CASE Mirror!Run
  <2> DEFINE over == Mirror!Cancelled(runs)
             new == [stage |-> "acquiring", cancelled |-> FALSE]
             L == Len(runs)
  <2>1. /\ over \in Seq(RunTyped) /\ Len(over) = L /\ DOMAIN over = DOMAIN runs
        /\ \A i \in DOMAIN runs : over[i].cancelled
    BY RunsEnd
  <2>2. runs' = Append(over, new)
    BY <1>3 DEF Mirror!Run
  <2>3. new \in RunTyped /\ new.stage # "held"
    BY DEF RunTyped, Stages
  <2>4. L \in Nat /\ DOMAIN runs = 1..L
    <3>1. runs \in Seq(RunTyped)
      BY DEF RunsInv
    <3> QED BY <3>1
  <2> HIDE DEF over, new, L
  <2>5. /\ runs' \in Seq(RunTyped) /\ Len(runs') = L + 1 /\ runs'[L + 1] = new
        /\ DOMAIN runs' = 1..(L + 1) /\ \A i \in 1..L : runs'[i] = over[i]
    BY <2>1, <2>2, <2>3, <2>4
  <2>6. \A i \in DOMAIN runs' : i = L + 1 \/ i \in 1..L
    BY <2>4, <2>5
  <2>7. \A i \in DOMAIN runs' : i # Len(runs') => runs'[i].cancelled
    BY <2>1, <2>4, <2>5, <2>6
  <2>8. \A i \in DOMAIN runs' : ~Mirror!Shows(i)'
    BY <2>3, <2>5, <2>6 DEF Mirror!Shows, Mirror!Live
  <2> QED BY <2>5, <2>7, <2>8 DEF RunsInv
<1>4. CASE Mirror!Unmount
  <2>1. runs' = Mirror!Cancelled(runs)
    BY <1>4 DEF Mirror!Unmount
  <2>2. /\ runs' \in Seq(RunTyped) /\ DOMAIN runs' = DOMAIN runs
        /\ \A i \in DOMAIN runs' : runs'[i].cancelled
    BY <2>1, RunsEnd
  <2> QED BY <2>2 DEF RunsInv, Mirror!Shows
<1>5. ASSUME NEW r \in DOMAIN runs, Mirror!Acquired(r)
      PROVE  RunsInv'
  <2>1. /\ runs' = [runs EXCEPT ![r].stage = "held"] /\ UNCHANGED mirrorBlock
        /\ mirror' = IF runs[r].cancelled THEN mirror ELSE [status |-> "read", block |-> mirrorBlock]
    BY <1>5 DEF Mirror!Acquired
  <2>2. "held" \in Stages
    BY DEF Stages
  <2> QED BY <2>1, <2>2, RunMoves
<1>6. ASSUME NEW r \in DOMAIN runs, Mirror!Refused(r)
      PROVE  RunsInv'
  <2>1. /\ runs' = [runs EXCEPT ![r].stage = "failed"] /\ UNCHANGED mirrorBlock
        /\ runs[r].cancelled => UNCHANGED mirror
    BY <1>6 DEF Mirror!Refused
  <2>2. "failed" \in Stages /\ "failed" # "held"
    BY DEF Stages
  <2> QED BY <2>1, <2>2, RunMoves
<1>7. ASSUME NEW r \in DOMAIN runs, Mirror!Released(r)
      PROVE  RunsInv'
  <2>1. /\ runs' = [runs EXCEPT ![r].stage = "over"] /\ UNCHANGED mirrorBlock
        /\ runs[r].cancelled /\ UNCHANGED mirror
    BY <1>7 DEF Mirror!Released
  <2>2. "over" \in Stages /\ "over" # "held"
    BY DEF Stages
  <2> QED BY <2>1, <2>2, RunMoves
<1>8. CASE \/ \E d \in MirrorDocuments : Mirror!Write(d)
           \/ Mirror!OpenSocket \/ Mirror!DropSocket \/ Mirror!Receive \/ Mirror!Read
           \/ Mirror!Answered \/ Mirror!ReadFails
           \/ UNCHANGED mirrorVars
  BY <1>1, <1>8 DEF Mirror!Write, Mirror!OpenSocket, Mirror!DropSocket, Mirror!Receive,
     Mirror!Read, Mirror!Answered, Mirror!ReadFails, Mirror!mirrored, mirrorVars
<1> QED BY <1>2, <1>3, <1>4, <1>5, <1>6, <1>7, <1>8 DEF Mirror!Next

\* What the invariants say of a feed that was heard to its end.
LEMMA ListIsCaughtUp == ListInv => List!ListCatchesUp
  BY DEF ListInv, List!ListCatchesUp, List!readDocuments

LEMMA MirrorsAreCaughtUp == NamesInv /\ RunsInv => Mirror!MirrorsCatchUp
<1> SUFFICES ASSUME NamesInv, RunsInv
             PROVE  Mirror!MirrorsCatchUp
  OBVIOUS
<1>1. mirrorFeed = <<>> => \A d \in MirrorDocuments : Heard(d)
  BY DEF Heard
<1> QED BY <1>1 DEF Mirror!MirrorsCatchUp, NamesInv, RunsInv

\* Every list derived from events and reads says what the catalogue says once
\* both have arrived, whatever order they came in (ViewsCatchUp).
THEOREM ListsCatchUp == Spec => []ViewsCatchUp
<1> DEFINE Inv == /\ scenario = "list" => ListInv
                  /\ scenario = "mirrors" => NamesInv /\ RunsInv
<1>1. Init => Inv
  BY ListStarts, NamesStart, RunsStart DEF Init
<1>2. Inv /\ [Next]_vars => Inv'
  <2> SUFFICES ASSUME Inv, [Next]_vars
               PROVE  Inv'
    OBVIOUS
  <2>1. scenario' = scenario /\ (scenario = "list" => [List!Next]_listVars)
                             /\ (scenario = "mirrors" => [Mirror!Next]_mirrorVars)
    BY ComponentMoves
  <2> QED BY <2>1, ListSteps, NamesSteps, RunsSteps
<1>3. Inv => ViewsCatchUp
  BY ListIsCaughtUp, MirrorsAreCaughtUp DEF ViewsCatchUp
<1> QED BY <1>1, <1>2, <1>3, PTL DEF Spec

-----------------------------------------------------------------------------
(* The undo of an editor *)

Marks == {"earlier", "session"}

\* What was on the stack when the document was opened stays at or below the floor.
Floored(h) ==
  /\ h \in [undo : Seq(Marks), redo : Seq(Marks), floor : Nat]
  /\ \A i \in DOMAIN h.undo : h.undo[i] = "earlier" => i <= h.floor
  /\ \A i \in DOMAIN h.redo : h.redo[i] # "earlier"

\* A bounded stack forgets from below, which lowers what it keeps.
LEMMA PushKeeps ==
  ASSUME NEW stack \in Seq(Marks), NEW floor \in Nat, NEW x \in Marks, x # "earlier",
         \A i \in DOMAIN stack : stack[i] = "earlier" => i <= floor
  PROVE  /\ Page!Push(stack, x) \in Seq(Marks)
         /\ \A i \in DOMAIN Page!Push(stack, x) :
              Page!Push(stack, x)[i] = "earlier" => i <= floor
<1> DEFINE kept == IF Len(stack) = MaxUndo THEN Tail(stack) ELSE stack
<1>1. /\ kept \in Seq(Marks)
      /\ \A i \in 1..Len(kept) : kept[i] = "earlier" => i <= floor
  <2>1. CASE Len(stack) = MaxUndo
    <3>1. stack # <<>>
      BY <2>1, EditorAssumption
    <3>2. /\ Tail(stack) \in Seq(Marks) /\ Len(Tail(stack)) = Len(stack) - 1
          /\ \A i \in 1..Len(Tail(stack)) : Tail(stack)[i] = stack[i + 1]
      BY <3>1, HeadTailProperties
    <3>3. \A i \in 1..Len(Tail(stack)) : i + 1 \in DOMAIN stack
      BY <3>2
    <3> QED BY <2>1, <3>2, <3>3
  <2>2. CASE Len(stack) # MaxUndo
    BY <2>2
  <2> QED BY <2>1, <2>2
<1>2. Page!Push(stack, x) = Append(kept, x)
  BY DEF Page!Push
<1> HIDE DEF kept
<1> QED BY <1>1, <1>2, AppendProperties

LEMMA RecordedKeeps ==
  ASSUME NEW h, Floored(h)
  PROVE  Floored(Page!Recorded(h))
<1>1. "session" \in Marks /\ "session" # "earlier"
  BY DEF Marks
<1>2. h.undo \in Seq(Marks) /\ h.floor \in Nat
  BY DEF Floored
<1>3. /\ Page!Push(h.undo, "session") \in Seq(Marks)
      /\ \A i \in DOMAIN Page!Push(h.undo, "session") :
           Page!Push(h.undo, "session")[i] = "earlier" => i <= h.floor
  BY <1>1, <1>2, PushKeeps DEF Floored
<1> DEFINE pushed == Page!Push(h.undo, "session")
<1>4. Page!Recorded(h) = [undo |-> pushed, redo |-> <<>>, floor |-> h.floor]
  <2>1. Page!Recorded(h) = [[h EXCEPT !.undo = pushed] EXCEPT !.redo = <<>>]
    BY DEF Page!Recorded
  <2> HIDE DEF pushed
  <2>2. h = [undo |-> h.undo, redo |-> h.redo, floor |-> h.floor]
    BY DEF Floored
  <2>3. [h EXCEPT !.undo = pushed] = [undo |-> pushed, redo |-> h.redo, floor |-> h.floor]
    BY <2>2
  <2> QED BY <2>1, <2>3
<1> HIDE DEF pushed
<1>5. <<>> \in Seq(Marks) /\ DOMAIN <<>> = {}
  OBVIOUS
<1> QED BY <1>2, <1>3, <1>4, <1>5 DEF Floored, pushed

\* An edit is recorded once or twice, or not at all.
OnRecord ==
  history' \in {history, Page!Recorded(history), Page!Recorded(Page!Recorded(history))}

LEMMA TypingIsRecorded ==
  ASSUME NEW id, NEW synced, NEW text, Page!CommitLocal(id, synced, text)
  PROVE  OnRecord
BY DEF Page!CommitLocal, OnRecord

LEMMA EditsAreRecorded ==
  ASSUME NEW id,
         \/ Page!Type(id) \/ Page!StartComposition(id) \/ Page!Split(id) \/ Page!Merge(id)
         \/ Page!Paste(id) \/ Page!PasteAddress(id) \/ Page!ChooseSlashItem(id)
         \/ Page!Indent(id)
  PROVE  OnRecord
<1> USE DEF OnRecord, Page!screen
<1>1. CASE Page!Type(id)
  <2>1. \/ Page!MarkdownShortcut(id)
        \/ \E text : Page!CommitLocal(id, rows[id].synced, text)
    BY <1>1, Zenon DEF Page!Type
  <2> QED BY <2>1, TypingIsRecorded DEF Page!MarkdownShortcut, Page!Apply
<1>2. CASE Page!StartComposition(id)
  BY <1>2 DEF Page!StartComposition
<1>3. CASE Page!Split(id)
  <2>1. \E bs, n : Page!Apply(bs, n)
    BY <1>3, Zenon DEF Page!Split
  <2> QED BY <2>1 DEF Page!Apply
<1>4. CASE Page!Merge(id)
  <2>1. \E bs, n : Page!Apply(bs, n)
    BY <1>4, Zenon DEF Page!Merge
  <2> QED BY <2>1 DEF Page!Apply
<1>5. CASE Page!Paste(id)
  <2>1. \E bs, n : Page!Apply(bs, n)
    BY <1>5, Zenon DEF Page!Paste
  <2> QED BY <2>1 DEF Page!Apply
<1>6. CASE Page!ChooseSlashItem(id)
  <2> DEFINE emptied == IF Page!Reaches(id, rows[id].synced, <<>>)
                        THEN Page!Sent(id, rows[id].synced, <<>>) ELSE editorDoc
             sent == IF emptied = editorDoc THEN history ELSE Page!Recorded(history)
  <2>1. history' = sent \/ history' = Page!Recorded(sent)
    BY <1>6, Zenon DEF Page!ChooseSlashItem
  <2> QED BY <2>1
<1>7. CASE Page!Indent(id)
  <2>1. \E bs, n : Page!Apply(bs, n)
    BY <1>7, Zenon DEF Page!Indent
  <2> QED BY <2>1 DEF Page!Apply
<1>8. CASE Page!PasteAddress(id)
  <2>1. \E bs, n : Page!Apply(bs, n)
    BY <1>8, Zenon DEF Page!PasteAddress
  <2> QED BY <2>1 DEF Page!Apply
<1> QED BY <1>1, <1>2, <1>3, <1>4, <1>5, <1>6, <1>7, <1>8

LEMMA OtherEditsAreRecorded ==
  ASSUME \/ Page!Compose \/ Page!EndComposition \/ Page!Drop \/ Page!ClickBelow
         \/ Page!AddFile \/ Page!DropFiles \/ Page!PickFiles \/ Page!CancelPicker
         \/ Page!FinishUpload \/ Page!FailUpload \/ Page!FinishLink \/ Page!CancelLink
         \/ (\E id : Page!DeleteBlock(id))
         \/ Page!ReplaceBlocks(Page!Version) \/ Page!Peer \/ Page!Commit
         \/ UNCHANGED editorVars
  PROVE  OnRecord
<1> USE DEF OnRecord, Page!screen
<1>1. CASE Page!EndComposition
  <2>1. \E id, synced, text : Page!CommitLocal(id, synced, text)
    BY <1>1, Zenon DEF Page!EndComposition
  <2> QED BY <2>1, TypingIsRecorded
<1>2. CASE Page!Drop
  <2>1. \E bs, n : Page!Apply(bs, n)
    BY <1>2, Zenon DEF Page!Drop
  <2> QED BY <2>1 DEF Page!Apply
<1>3. CASE Page!ClickBelow
  BY <1>3 DEF Page!ClickBelow, Page!Apply
<1>4. CASE Page!FinishUpload \/ Page!FinishLink
  <2>1. (\E bs, n : Page!Apply(bs, n) \/ Page!ApplyTrailed(bs, n)) \/ history' = history
    BY <1>4, Zenon DEF Page!FinishUpload, Page!FinishLink
  <2> QED BY <2>1 DEF Page!Apply, Page!ApplyTrailed
<1>5. ASSUME NEW id, Page!DeleteBlock(id)
      PROVE  OnRecord
  <2>1. \E bs, n : Page!ApplyTrailed(bs, n)
    BY <1>5, Zenon DEF Page!DeleteBlock
  <2> QED BY <2>1 DEF Page!ApplyTrailed
<1>6. CASE Page!ReplaceBlocks(Page!Version)
  BY <1>6 DEF Page!ReplaceBlocks
<1>7. CASE \/ Page!Compose \/ Page!AddFile \/ Page!DropFiles \/ Page!PickFiles
           \/ Page!CancelPicker \/ Page!FailUpload \/ Page!CancelLink
  <2>1. history' = history
    BY <1>7, Zenon DEF Page!Compose, Page!AddFile, Page!DropFiles, Page!PickFiles,
                       Page!CancelPicker, Page!FailUpload, Page!CancelLink
  <2> QED BY <2>1
<1>8. CASE Page!Peer \/ Page!Commit \/ UNCHANGED editorVars
  <2>1. history' = history
    BY <1>8, Zenon DEF Page!Peer, Page!Commit, editorVars
  <2> QED BY <2>1
<1> QED BY <1>1, <1>2, <1>3, <1>4, <1>5, <1>6, <1>7, <1>8

LEMMA HistorySteps ==
  ASSUME Floored(history), [Page!Next]_editorVars
  PROVE  Floored(history)'
<1> DEFINE h == history
<1>1. CASE OnRecord
  BY <1>1, RecordedKeeps DEF OnRecord
<1>2. /\ h.undo \in Seq(Marks) /\ h.redo \in Seq(Marks) /\ h.floor \in Nat /\ 0 \in Nat
      /\ h = [undo |-> h.undo, redo |-> h.redo, floor |-> h.floor]
      /\ \A i \in DOMAIN h.redo : h.redo[i] = "earlier" => i <= 0
  BY DEF Floored
<1>3. CASE Page!Undo
  <2> DEFINE last == Page!Last(h.undo)
  <2>1. /\ Len(h.undo) > h.floor
        /\ h' = [h EXCEPT !.undo = Page!Front(@), !.redo = Page!Push(@, last)]
    BY <1>3 DEF Page!Undo
  <2>2. last \in Marks /\ last # "earlier"
    BY <1>2, <2>1 DEF Floored, Page!Last
  <2>3. /\ Page!Front(h.undo) \in Seq(Marks)
        /\ \A i \in DOMAIN Page!Front(h.undo) :
             Page!Front(h.undo)[i] = h.undo[i] /\ i \in DOMAIN h.undo
    BY <1>2, <2>1 DEF Page!Front
  <2>4. /\ Page!Push(h.redo, last) \in Seq(Marks)
        /\ \A i \in DOMAIN Page!Push(h.redo, last) :
             Page!Push(h.redo, last)[i] = "earlier" => i <= 0
    BY <1>2, <2>2, PushKeeps
  <2>5. \A i \in DOMAIN Page!Push(h.redo, last) : i >= 1
    BY <2>4
  <2>6. h' = [undo |-> Page!Front(h.undo), redo |-> Page!Push(h.redo, last), floor |-> h.floor]
    BY <1>2, <2>1
  <2> QED BY <1>2, <2>3, <2>4, <2>5, <2>6 DEF Floored
<1>4. CASE Page!Redo
  <2>1. /\ h.redo # <<>>
        /\ h' = [h EXCEPT !.redo = Page!Front(@), !.undo = Page!Push(@, "session")]
    BY <1>4 DEF Page!Redo
  <2>2. "session" \in Marks /\ "session" # "earlier"
    BY DEF Marks
  <2>3. /\ Page!Front(h.redo) \in Seq(Marks)
        /\ \A i \in DOMAIN Page!Front(h.redo) :
             Page!Front(h.redo)[i] = h.redo[i] /\ i \in DOMAIN h.redo
    BY <1>2, <2>1 DEF Page!Front
  <2>4. /\ Page!Push(h.undo, "session") \in Seq(Marks)
        /\ \A i \in DOMAIN Page!Push(h.undo, "session") :
             Page!Push(h.undo, "session")[i] = "earlier" => i <= h.floor
    BY <1>2, <2>2, PushKeeps DEF Floored
  <2>5. h' = [undo |-> Page!Push(h.undo, "session"), redo |-> Page!Front(h.redo), floor |-> h.floor]
    BY <1>2, <2>1
  <2> QED BY <1>2, <2>3, <2>4, <2>5 DEF Floored
<1> QED BY <1>1, <1>3, <1>4, EditsAreRecorded, OtherEditsAreRecorded DEF Page!Next, Page!KeyDown

\* No sequence of undo and redo takes back what was on the stack when the document
\* was opened (use-block-document.ts, undoFloorRef).
THEOREM OpeningsStay == Spec => []OpeningIsNotUndone
<1> DEFINE Inv == scenario = "editor" => Floored(history)
<1>1. Init => Inv
  <2> SUFFICES ASSUME Page!Init
               PROVE  Floored(history)
    BY DEF Init
  <2>1. PICK undo \in {<<>>, <<"earlier">>} :
          history = [undo |-> undo, redo |-> <<>>, floor |-> Len(undo)]
    BY DEF Page!Init
  <2>2. undo \in Seq(Marks) /\ Len(undo) \in Nat /\ DOMAIN undo = 1..Len(undo)
    <3>1. "earlier" \in Marks
      BY DEF Marks
    <3>2. CASE undo = <<>>
      BY <3>2
    <3>3. CASE undo = <<"earlier">>
      BY <3>1, <3>3
    <3> QED BY <3>2, <3>3
  <2>3. <<>> \in Seq(Marks) /\ DOMAIN <<>> = {}
    OBVIOUS
  <2> QED BY <2>1, <2>2, <2>3 DEF Floored
<1>2. Inv /\ [Next]_vars => Inv'
  <2> SUFFICES ASSUME Inv, [Next]_vars
               PROVE  Inv'
    OBVIOUS
  <2> QED BY ComponentMoves, HistorySteps
<1>3. Inv => OpeningIsNotUndone
  <2> SUFFICES ASSUME Floored(history)
               PROVE  Page!OpeningIsNotUndone
    BY DEF OpeningIsNotUndone
  <2> QED BY DEF Floored, Page!OpeningIsNotUndone, Page!ToSet
<1> QED BY <1>1, <1>2, <1>3, PTL DEF Spec

-----------------------------------------------------------------------------
(* The keystroke *)

\* A non-empty set of lengths has a longest.
LEMMA LongestExists ==
  ASSUME NEW n \in Nat, NEW I \in SUBSET (0..n), I # {}
  PROVE  Page!Max(I) \in I /\ \A k \in I : k <= Page!Max(I)
<1> DEFINE J == {n - k : k \in I}
<1>1. J \in SUBSET Nat /\ J # {}
  <2>1. \A k \in I : n - k \in Nat
    OBVIOUS
  <2> QED BY <2>1
<1>2. PICK j \in J : \A y \in J : <<y, j>> \notin OpToRel(<, Nat)
  BY <1>1, NatLessThanWellFounded, WFMin
<1>3. \A y \in J : ~ (y < j)
  BY <1>1, <1>2, Zenon DEF OpToRel
<1>4. PICK x \in I : j = n - x
  BY <1>2
<1>5. \A k \in I : x >= k
  <2>1. ASSUME NEW k \in I
        PROVE  ~ (n - k < n - x)
    BY <1>3, <1>4
  <2> QED BY <2>1
<1> HIDE DEF J
<1> QED BY <1>4, <1>5 DEF Page!Max

\* The two ends of a text, place by place.
LEMMA EndsAre ==
  ASSUME NEW S, NEW s \in Seq(S), NEW k \in 0..Len(s)
  PROVE  /\ Page!Upto(s, k) \in Seq(S) /\ Len(Page!Upto(s, k)) = k
         /\ \A i \in 1..k : Page!Upto(s, k)[i] = s[i]
         /\ Page!After(s, k) \in Seq(S) /\ Len(Page!After(s, k)) = Len(s) - k
         /\ \A i \in 1..(Len(s) - k) : Page!After(s, k)[i] = s[k + i]
<1>1. Len(s) \in Nat /\ \A i \in 1..Len(s) : s[i] \in S
  BY LenProperties, ElementOfSeq
<1>2. Page!Upto(s, k) = SubSeq(s, 1, k)
  BY <1>1 DEF Page!Upto, Page!Lesser
<1>3. /\ SubSeq(s, 1, k) \in Seq(S) /\ Len(SubSeq(s, 1, k)) = IF 1 <= k THEN k - 1 + 1 ELSE 0
      /\ \A i \in 1..(k - 1 + 1) : SubSeq(s, 1, k)[i] = s[1 + i - 1]
  <2>1. \A i \in 1..k : s[i] \in S
    BY <1>1
  <2> QED BY <2>1, SubSeqProperties
<1>4. LET n == Len(s) IN
      /\ SubSeq(s, k + 1, n) \in Seq(S)
      /\ Len(SubSeq(s, k + 1, n)) = IF k + 1 <= n THEN n - (k + 1) + 1 ELSE 0
      /\ \A i \in 1..(n - (k + 1) + 1) : SubSeq(s, k + 1, n)[i] = s[k + 1 + i - 1]
  <2>1. \A i \in (k + 1)..Len(s) : s[i] \in S
    BY <1>1
  <2>2. k + 1 \in Int /\ Len(s) \in Int
    BY <1>1
  <2> QED BY <2>1, <2>2, SubSeqProperties
<1>5. /\ Len(Page!Upto(s, k)) = k
      /\ \A i \in 1..k : Page!Upto(s, k)[i] = s[i]
  BY <1>2, <1>3
<1>6. /\ Len(Page!After(s, k)) = Len(s) - k
      /\ \A i \in 1..(Len(s) - k) : Page!After(s, k)[i] = s[k + i]
  BY <1>1, <1>4 DEF Page!After
<1> QED BY <1>2, <1>3, <1>4, <1>5, <1>6 DEF Page!After

\* A text is its two ends.
LEMMA EndsJoin ==
  ASSUME NEW S, NEW s \in Seq(S), NEW t \in Seq(S),
         NEW a \in 0..Len(t), NEW b \in a..Len(t), NEW c \in 0..Len(s),
         Len(s) - c = Len(t) - b,
         Page!Upto(s, a) = Page!Upto(t, a), Page!After(s, c) = Page!After(t, b),
         a <= c
  PROVE  Page!Splice(s, [from |-> a, to |-> c, value |-> SubSeq(t, a + 1, b)]) = t
<1> DEFINE v == SubSeq(t, a + 1, b)
           left == Page!Upto(s, a)
           right == Page!After(s, c)
<1>1. Len(s) \in Nat /\ Len(t) \in Nat /\ a \in Nat /\ b \in Nat /\ c \in Nat
      /\ a <= b /\ b <= Len(t) /\ a <= Len(s)
  BY LenProperties
<1>2. v \in Seq(S) /\ Len(v) = b - a /\ \A i \in 1..(b - a) : v[i] = t[a + i]
  <2>1. \A i \in (a + 1)..b : t[i] \in S
    BY <1>1, ElementOfSeq
  <2>2. a + 1 \in Int /\ b \in Int
    BY <1>1
  <2>3. /\ v \in Seq(S) /\ Len(v) = IF a + 1 <= b THEN b - (a + 1) + 1 ELSE 0
        /\ \A i \in 1..(b - (a + 1) + 1) : v[i] = t[a + 1 + i - 1]
    BY <2>1, <2>2, SubSeqProperties
  <2> QED BY <1>1, <2>3
<1>3. left \in Seq(S) /\ Len(left) = a /\ \A i \in 1..a : left[i] = t[i]
  BY <1>1, EndsAre
<1>4. right \in Seq(S) /\ Len(right) = Len(t) - b
      /\ \A i \in 1..(Len(t) - b) : right[i] = t[b + i]
  <2>1. b \in 0..Len(t) /\ right = Page!After(t, b)
    BY <1>1
  <2> HIDE DEF right
  <2> QED BY <2>1, EndsAre
<1> HIDE DEF v, left, right
<1>5. left \o v \in Seq(S) /\ Len(left \o v) = b /\ \A i \in 1..b : (left \o v)[i] = t[i]
  <2>1. /\ left \o v \in Seq(S) /\ Len(left \o v) = Len(left) + Len(v)
        /\ \A i \in 1..(Len(left) + Len(v)) :
             (left \o v)[i] = IF i <= Len(left) THEN left[i] ELSE v[i - Len(left)]
    BY <1>2, <1>3, ConcatProperties
  <2>2. ASSUME NEW i \in 1..b
        PROVE  IF i <= a THEN left[i] = t[i] ELSE v[i - a] = t[i]
    <3>1. ~ (i <= a) => i - a \in 1..(b - a) /\ a + (i - a) = i
      BY <1>1
    <3>2. i <= a => i \in 1..a
      BY <1>1
    <3> QED BY <1>2, <1>3, <3>1, <3>2
  <2> QED BY <1>1, <1>2, <1>3, <2>1, <2>2
<1>6. left \o v \o right = t
  <2> DEFINE head == left \o v
  <2>1. head \in Seq(S) /\ Len(head) = b /\ \A i \in 1..b : head[i] = t[i]
    BY <1>5
  <2> HIDE DEF head
  <2>2. /\ head \o right \in Seq(S) /\ Len(head \o right) = Len(head) + Len(right)
        /\ \A i \in 1..(Len(head) + Len(right)) :
             (head \o right)[i] = IF i <= Len(head) THEN head[i] ELSE right[i - Len(head)]
    BY <1>4, <2>1, ConcatProperties
  <2>3. ASSUME NEW i \in 1..Len(t)
        PROVE  IF i <= b THEN head[i] = t[i] ELSE right[i - b] = t[i]
    <3>1. ~ (i <= b) => i - b \in 1..(Len(t) - b) /\ b + (i - b) = i
      BY <1>1
    <3>2. i <= b => i \in 1..b
      BY <1>1
    <3> QED BY <1>4, <2>1, <3>1, <3>2
  <2>4. Len(head \o right) = Len(t) /\ \A i \in 1..Len(t) : (head \o right)[i] = t[i]
    BY <1>1, <1>4, <2>1, <2>2, <2>3
  <2>5. head \o right = t
    BY <2>2, <2>4, SeqEqual
  <2> QED BY <2>5 DEF head
<1> QED BY <1>6 DEF v, left, right, Page!Splice

\* What two texts have in common at their ends shows place by place.
LEMMA CommonEnds ==
  ASSUME NEW S, NEW s \in Seq(S), NEW t \in Seq(S), NEW k \in Nat, k <= Len(s), k <= Len(t)
  PROVE  /\ Page!Upto(s, k) = Page!Upto(t, k) <=> \A i \in 1..k : s[i] = t[i]
         /\ Page!After(s, Len(s) - k) = Page!After(t, Len(t) - k)
              <=> \A i \in 1..k : s[Len(s) - k + i] = t[Len(t) - k + i]
<1> DEFINE n == Len(s)
           m == Len(t)
<1>1. /\ n \in Nat /\ m \in Nat /\ k \in 0..n /\ k \in 0..m
      /\ n - k \in 0..n /\ m - k \in 0..m /\ n - (n - k) = k /\ m - (m - k) = k
  BY LenProperties
<1>2. /\ Page!Upto(s, k) \in Seq(S) /\ Len(Page!Upto(s, k)) = k
      /\ \A i \in 1..k : Page!Upto(s, k)[i] = s[i]
  BY <1>1, EndsAre
<1>3. /\ Page!Upto(t, k) \in Seq(S) /\ Len(Page!Upto(t, k)) = k
      /\ \A i \in 1..k : Page!Upto(t, k)[i] = t[i]
  BY <1>1, EndsAre
<1>4. /\ Page!After(s, n - k) \in Seq(S) /\ Len(Page!After(s, n - k)) = k
      /\ \A i \in 1..k : Page!After(s, n - k)[i] = s[n - k + i]
  <2>1. /\ Page!After(s, n - k) \in Seq(S) /\ Len(Page!After(s, n - k)) = n - (n - k)
        /\ \A i \in 1..(n - (n - k)) : Page!After(s, n - k)[i] = s[n - k + i]
    BY <1>1, EndsAre
  <2> QED BY <1>1, <2>1
<1>5. /\ Page!After(t, m - k) \in Seq(S) /\ Len(Page!After(t, m - k)) = k
      /\ \A i \in 1..k : Page!After(t, m - k)[i] = t[m - k + i]
  <2>1. /\ Page!After(t, m - k) \in Seq(S) /\ Len(Page!After(t, m - k)) = m - (m - k)
        /\ \A i \in 1..(m - (m - k)) : Page!After(t, m - k)[i] = t[m - k + i]
    BY <1>1, EndsAre
  <2> QED BY <1>1, <2>1
<1>6. Page!Upto(s, k) = Page!Upto(t, k) <=> \A i \in 1..k : s[i] = t[i]
  <2>1. ASSUME Page!Upto(s, k) = Page!Upto(t, k)
        PROVE  \A i \in 1..k : s[i] = t[i]
    BY <1>2, <1>3, <2>1
  <2>2. ASSUME \A i \in 1..k : s[i] = t[i]
        PROVE  Page!Upto(s, k) = Page!Upto(t, k)
    <3>1. \A i \in 1..k : Page!Upto(s, k)[i] = Page!Upto(t, k)[i]
      BY <1>2, <1>3, <2>2
    <3> QED BY <1>2, <1>3, <3>1, SeqEqual
  <2> QED BY <2>1, <2>2
<1>7. Page!After(s, n - k) = Page!After(t, m - k)
        <=> \A i \in 1..k : s[n - k + i] = t[m - k + i]
  <2>1. ASSUME Page!After(s, n - k) = Page!After(t, m - k)
        PROVE  \A i \in 1..k : s[n - k + i] = t[m - k + i]
    BY <1>4, <1>5, <2>1
  <2>2. ASSUME \A i \in 1..k : s[n - k + i] = t[m - k + i]
        PROVE  Page!After(s, n - k) = Page!After(t, m - k)
    <3>1. \A i \in 1..k : Page!After(s, n - k)[i] = Page!After(t, m - k)[i]
      BY <1>4, <1>5, <2>2
    <3> QED BY <1>4, <1>5, <3>1, SeqEqual
  <2> QED BY <2>1, <2>2
<1> QED BY <1>6, <1>7

\* The edit a keystroke sends turns the old text into the new one, and of the edits
\* that do so none replaces less (text-surface.ts, diffRange): a peer's characters
\* beside the change are never in the range that is taken out.
THEOREM KeystrokesAreLeast ==
  ASSUME NEW S, NEW old \in Seq(S), NEW new \in Seq(S)
  PROVE  LET e == Page!diffRange(old, new)
         IN /\ e.from \in Nat /\ e.to \in e.from..Len(old) /\ e.value \in Seq(S)
            /\ Page!Splice(old, e) = new
            /\ \A from \in 0..Len(old) : \A to \in from..Len(old), value \in Seq(S) :
                 Page!Splice(old, [from |-> from, to |-> to, value |-> value]) = new
                   => /\ from <= e.from
                      /\ e.to - e.from <= to - from
                      /\ Len(e.value) <= Len(value)
<1> DEFINE n == Len(old)
           m == Len(new)
           shorter == Page!Lesser(n, m)
           heads == {k \in 0..shorter : Page!Upto(old, k) = Page!Upto(new, k)}
           start == Page!Max(heads)
           tails == {k \in 0..(shorter - start) :
                       Page!After(old, n - k) = Page!After(new, m - k)}
           tail == Page!Max(tails)
           written == SubSeq(new, start + 1, m - tail)
<1>1. Page!diffRange(old, new) = [from |-> start, to |-> n - tail, value |-> written]
  BY DEF Page!diffRange
<1>2. /\ n \in Nat /\ m \in Nat /\ shorter \in Nat /\ shorter <= n /\ shorter <= m
      /\ shorter = n \/ shorter = m
  BY LenProperties DEF Page!Lesser
<1> HIDE DEF shorter, n, m
<1>3. \A k \in 0..shorter :
        /\ Page!Upto(old, k) = Page!Upto(new, k) <=> \A i \in 1..k : old[i] = new[i]
        /\ Page!After(old, n - k) = Page!After(new, m - k)
             <=> \A i \in 1..k : old[n - k + i] = new[m - k + i]
  <2> SUFFICES ASSUME NEW k \in 0..shorter
               PROVE  /\ Page!Upto(old, k) = Page!Upto(new, k) <=> \A i \in 1..k : old[i] = new[i]
                      /\ Page!After(old, n - k) = Page!After(new, m - k)
                           <=> \A i \in 1..k : old[n - k + i] = new[m - k + i]
    OBVIOUS
  <2>1. k \in Nat /\ k <= n /\ k <= m
    BY <1>2
  <2> QED BY <2>1, CommonEnds DEF n, m
<1>4. /\ start \in 0..shorter /\ \A i \in 1..start : old[i] = new[i]
      /\ \A k \in 0..shorter : (\A i \in 1..k : old[i] = new[i]) => k <= start
  <2>1. 0 \in heads
    BY <1>2, <1>3
  <2>2. start \in heads /\ \A k \in heads : k <= start
    <3> HIDE DEF heads
    <3>1. heads \in SUBSET (0..shorter)
      BY DEF heads
    <3> QED BY <1>2, <2>1, <3>1, LongestExists
  <2> HIDE DEF start
  <2> QED BY <1>3, <2>2
<1>5. Page!Upto(old, start) = Page!Upto(new, start)
  BY <1>3, <1>4
<1> HIDE DEF start, heads
<1>6. /\ tail \in 0..(shorter - start) /\ Page!After(old, n - tail) = Page!After(new, m - tail)
      /\ \A k \in 0..(shorter - start) :
           (\A i \in 1..k : old[n - k + i] = new[m - k + i]) => k <= tail
  <2>1. \A k \in 0..(shorter - start) : k \in 0..shorter
    BY <1>2, <1>4
  <2>2. 0 \in tails
    BY <1>2, <1>3, <1>4
  <2>3. tail \in tails /\ \A k \in tails : k <= tail
    <3> HIDE DEF tails
    <3>1. tails \in SUBSET (0..(shorter - start)) /\ shorter - start \in Nat
      BY <1>2, <1>4 DEF tails
    <3> QED BY <2>2, <3>1, LongestExists
  <2> HIDE DEF tail
  <2> QED BY <1>3, <2>1, <2>3
<1> HIDE DEF tail, tails
<1>7. /\ start \in 0..m /\ n - tail \in 0..n /\ m - tail \in start..m
      /\ start <= n - tail /\ n - (n - tail) = m - (m - tail)
      /\ start \in Nat /\ tail \in Nat /\ start + tail <= shorter
  BY <1>2, <1>4, <1>6
<1>8. written \in Seq(S) /\ Len(written) = m - tail - start
  <2>1. \A i \in (start + 1)..(m - tail) : new[i] \in S
    BY <1>2, <1>7, ElementOfSeq DEF m
  <2>2. start + 1 \in Int /\ m - tail \in Int
    BY <1>2, <1>7
  <2>3. /\ written \in Seq(S)
        /\ Len(written) = IF start + 1 <= m - tail THEN m - tail - (start + 1) + 1 ELSE 0
    BY <2>1, <2>2, SubSeqProperties
  <2> QED BY <1>2, <1>7, <2>3
<1>9. Page!Splice(old, [from |-> start, to |-> n - tail, value |-> written]) = new
  <2> DEFINE b == m - tail
             c == n - tail
  <2>1. /\ start \in 0..Len(new) /\ c \in 0..Len(old) /\ b \in start..Len(new)
        /\ Len(old) - c = Len(new) - b /\ start <= c
        /\ Page!Upto(old, start) = Page!Upto(new, start)
        /\ Page!After(old, c) = Page!After(new, b)
    BY <1>5, <1>6, <1>7 DEF n, m
  <2> HIDE DEF b, c
  <2>2. Page!Splice(old, [from |-> start, to |-> c, value |-> SubSeq(new, start + 1, b)]) = new
    BY <2>1, EndsJoin
  <2> QED BY <2>2 DEF b, c
<1>10. ASSUME NEW from \in 0..n, NEW to \in from..n, NEW value \in Seq(S),
              Page!Splice(old, [from |-> from, to |-> to, value |-> value]) = new
       PROVE  from <= start /\ n - tail - start <= to - from /\ m - tail - start <= Len(value)
  <2> DEFINE rest == n - to
             left == Page!Upto(old, from)
             right == Page!After(old, to)
             front == left \o value
  <2>1. /\ from \in Nat /\ to \in Nat /\ rest \in Nat /\ from <= to /\ to <= n
        /\ to \in 0..n /\ Len(value) \in Nat
    BY <1>2, LenProperties
  <2>2. left \in Seq(S) /\ Len(left) = from /\ \A i \in 1..from : left[i] = old[i]
    BY EndsAre DEF n
  <2>3. right \in Seq(S) /\ Len(right) = rest /\ \A i \in 1..rest : right[i] = old[to + i]
    BY <2>1, EndsAre DEF n
  <2>4. new = front \o right
    BY <1>10 DEF Page!Splice
  <2> HIDE DEF left, right
  <2>5. /\ front \in Seq(S) /\ Len(front) = from + Len(value)
        /\ \A i \in 1..from : front[i] = old[i]
    <3>1. /\ front \in Seq(S) /\ Len(front) = Len(left) + Len(value)
          /\ \A i \in 1..(Len(left) + Len(value)) :
               front[i] = IF i <= Len(left) THEN left[i] ELSE value[i - Len(left)]
      BY <2>2, ConcatProperties
    <3>2. \A i \in 1..from : i \in 1..(Len(left) + Len(value)) /\ i <= Len(left)
      BY <2>1, <2>2
    <3> QED BY <2>2, <3>1, <3>2
  <2> HIDE DEF front
  <2>6. /\ m = Len(front) + rest
        /\ \A i \in 1..(Len(front) + rest) :
             new[i] = IF i <= Len(front) THEN front[i] ELSE right[i - Len(front)]
    <3>1. /\ Len(front \o right) = Len(front) + Len(right)
          /\ \A i \in 1..(Len(front) + Len(right)) :
               (front \o right)[i] = IF i <= Len(front) THEN front[i] ELSE right[i - Len(front)]
      BY <2>3, <2>5, ConcatProperties
    <3> HIDE DEF rest
    <3> QED BY <2>3, <2>4, <3>1 DEF m
  <2> HIDE DEF rest
  <2>7. m = from + Len(value) + rest /\ from + rest <= m /\ from + rest <= n /\ from <= shorter
    BY <1>2, <2>1, <2>5, <2>6 DEF rest
  <2>8. \A i \in 1..from : new[i] = old[i]
    <3>1. \A i \in 1..from : i \in 1..(Len(front) + rest) /\ i <= Len(front)
      BY <2>1, <2>5
    <3> QED BY <2>5, <2>6, <3>1
  <2>9. \A i \in 1..rest : new[m - rest + i] = old[n - rest + i]
    <3> SUFFICES ASSUME NEW i \in 1..rest
                 PROVE  new[m - rest + i] = old[n - rest + i]
      OBVIOUS
    <3>1. /\ m - rest + i \in 1..(Len(front) + rest) /\ ~ (m - rest + i <= Len(front))
          /\ m - rest + i - Len(front) = i
      BY <2>1, <2>5, <2>6
    <3>2. n - rest + i = to + i
      BY <1>2, <2>1 DEF rest
    <3> QED BY <2>3, <2>6, <3>1, <3>2
  <2>10. from <= start
    BY <1>4, <2>1, <2>7, <2>8
  <2>11. from + rest <= start + tail
    <3>1. CASE rest <= shorter - start
      <4>1. rest <= tail
        BY <1>6, <2>1, <2>9, <3>1
      <4> QED BY <1>7, <2>1, <2>10, <4>1
    <3>2. CASE ~ (rest <= shorter - start)
      <4> DEFINE k == shorter - start
      <4>1. k \in Nat /\ k <= rest /\ k \in 0..k
        BY <1>2, <1>4, <2>1, <3>2
      <4>2. ASSUME NEW i \in 1..k
            PROVE  old[n - k + i] = new[m - k + i]
        <5>1. /\ i + (rest - k) \in 1..rest
              /\ n - rest + (i + (rest - k)) = n - k + i
              /\ m - rest + (i + (rest - k)) = m - k + i
          BY <1>2, <2>1, <4>1
        <5> QED BY <2>9, <5>1
      <4>3. k <= tail
        BY <1>6, <4>1, <4>2
      <4> QED BY <1>2, <1>4, <1>7, <2>1, <2>7, <4>3
    <3> QED BY <3>1, <3>2
  <2> QED BY <1>2, <1>7, <2>1, <2>7, <2>10, <2>11 DEF rest
<1> HIDE DEF written
<1> DEFINE e == [from |-> start, to |-> n - tail, value |-> written]
<1>11. e.from = start /\ e.to = n - tail /\ e.value = written
  OBVIOUS
<1> HIDE DEF e
<1>12. e = Page!diffRange(old, new)
  BY <1>1 DEF e
<1>13. e.from \in Nat /\ e.to \in e.from..n /\ e.value \in Seq(S)
  BY <1>2, <1>7, <1>8, <1>11
<1>14. Page!Splice(old, e) = new
  BY <1>9 DEF e
<1>15. \A from \in 0..n : \A to \in from..n, value \in Seq(S) :
         Page!Splice(old, [from |-> from, to |-> to, value |-> value]) = new
           => /\ from <= e.from /\ e.to - e.from <= to - from
              /\ Len(e.value) <= Len(value)
  BY <1>8, <1>10, <1>11
<1> QED BY <1>12, <1>13, <1>14, <1>15 DEF n
=============================================================================
