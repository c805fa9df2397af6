------------------------------- MODULE Browser -------------------------------
(***************************************************************************)
(* The components of a browser that show what others change, or what the   *)
(* person arranges: the lists, the tabs, the follow, the place and the ink *)
(* it shows, the windows, an open document and a table in it.  They share  *)
(* no state; a behavior is one component's, that of `scenario', and the    *)
(* variables of the others are absent from it.                             *)
(***************************************************************************)
EXTENDS Integers, FiniteSets, Sequences

CONSTANTS
  Scenarios,                                              \* those that are checked
  ListDocuments, ListEdits, ListQueue,                    \* see DocumentList
  MirrorDocuments, MirrorEdits, MirrorQueue, MirrorRuns,  \* see Mirrors
  TabDocs, TabMoves,                                      \* see Tabs
  Others, FollowDocs, FollowEvents, FollowActs,           \* see Follow
  InkBlocks, MaxPoints, MaxSegments, MarkCap, InkActs, InkFeed, \* see Ink
  Refs, MaxViews, Viewports, Content, Drags, WindowActs,  \* see Windows
  EditorIds, EditorLen, MaxDepth, MaxUndo, EditorLocal, EditorPeer, EditorDone, \* see Editor
  TableIds, TableLen, TableLocal, TablePeer, TableDone,   \* see TableView
  ScrollBlocks, Opening, Heights, Views, Gap, RATIO_STEPS, ScrollEdits, ScrollActs \* see Scroll

VARIABLES
  scenario,
  listCatalogue, trash, clock, listSocket, listFeed, refreshes, live, dialog, listLost,
  mirrorCatalogue, restored, request, mirrorSocket, mirrorFeed, names, mirrorLost,
  mirrorBlock, runs, mirror,
  documents, tabStorage, tabs, read, tabRoute, seen, tabGoing, moves,
  members, lastRoster, current, drawn, followPresenting, shareStarted, shareEnded,
  followRoute, seenPath, sentTo, followGoing, returnTo, scrollTarget, joined, strayed,
  own, events, followActs,
  inkPresenting, picked, mine, drawing, pointer, accepted, inkTimer, published, inkFeed,
  known, following, received, trail, lastPointer, inkActs,
  viewport, views, windowStorage, chat, order, gesture, dragging, disturbed, windowActs,
  editorDoc, blocks, shown, rows, heard, remount, editorComposing, history, job,
  fileAnchor, editorMade, editorDone,
  table, tableBlock, cells, tableComposing, tableMade, tableDone,
  scrollDoc, at, top, scrollPresenting, lastPublished, scrollTimer, presenting, followed,
  follow, target, rendered, commanded, scroll, unread, apart, edits, scrollActs

List == INSTANCE DocumentList WITH
  Documents <- ListDocuments, MaxEdits <- ListEdits, MaxQueue <- ListQueue,
  catalogue <- listCatalogue, socket <- listSocket, feed <- listFeed, lost <- listLost

Mirror == INSTANCE Mirrors WITH
  Documents <- MirrorDocuments, MaxEdits <- MirrorEdits, MaxQueue <- MirrorQueue,
  MaxRuns <- MirrorRuns,
  catalogue <- mirrorCatalogue, socket <- mirrorSocket, feed <- mirrorFeed,
  lost <- mirrorLost, block <- mirrorBlock

Tab == INSTANCE Tabs WITH
  Docs <- TabDocs, MaxMoves <- TabMoves,
  storage <- tabStorage, route <- tabRoute, going <- tabGoing

Focus == INSTANCE Follow WITH
  Docs <- FollowDocs, MaxEvents <- FollowEvents, MaxActs <- FollowActs,
  isPresenting <- followPresenting, route <- followRoute, going <- followGoing,
  acts <- followActs

Pens == INSTANCE Ink WITH
  Blocks <- InkBlocks, MaxActs <- InkActs, MaxFeed <- InkFeed,
  isPresenting <- inkPresenting, timer <- inkTimer, feed <- inkFeed, acts <- inkActs

Frame == INSTANCE Windows WITH
  MaxActs <- WindowActs, storage <- windowStorage, acts <- windowActs

Page == INSTANCE Editor WITH
  MaxIds <- EditorIds, MaxLen <- EditorLen, MaxLocal <- EditorLocal, MaxPeer <- EditorPeer,
  MaxDone <- EditorDone,
  doc <- editorDoc, composing <- editorComposing, made <- editorMade, done <- editorDone

Grid == INSTANCE TableView WITH
  MaxIds <- TableIds, MaxLen <- TableLen, MaxLocal <- TableLocal, MaxPeer <- TablePeer,
  MaxDone <- TableDone,
  block <- tableBlock, composing <- tableComposing, made <- tableMade, done <- tableDone

Place == INSTANCE Scroll WITH
  Blocks <- ScrollBlocks, MaxEdits <- ScrollEdits, MaxActs <- ScrollActs,
  doc <- scrollDoc, isPresenting <- scrollPresenting, timer <- scrollTimer,
  acts <- scrollActs

\* There are finitely many documents.
ASSUME ListAssumption == IsFiniteSet(ListDocuments)

\* A member and a document are told from the absence of either.
ASSUME FollowAssumption ==
  Focus!None \notin Others /\ {Focus!None, Focus!Gone} \cap FollowDocs = {}

\* A document is told from none.
ASSUME TabAssumption == Tab!None \notin TabDocs

\* Some changes can be undone.
ASSUME EditorAssumption == MaxUndo \in Nat \ {0}

\* A document has a block at first.
ASSUME ScrollAssumption == Opening \in Seq(ScrollBlocks) /\ Opening # <<>>

listVars == <<listCatalogue, trash, clock, listSocket, listFeed, refreshes, live, dialog,
              listLost>>
mirrorVars == <<mirrorCatalogue, restored, request, mirrorSocket, mirrorFeed, names,
                mirrorLost, mirrorBlock, runs, mirror>>
tabVars == <<documents, tabStorage, tabs, read, tabRoute, seen, tabGoing, moves>>
followVars == <<members, lastRoster, current, drawn, followPresenting, shareStarted,
                shareEnded, followRoute, seenPath, sentTo, followGoing, returnTo,
                scrollTarget, joined, strayed, own, events, followActs>>
inkVars == <<inkPresenting, picked, mine, drawing, pointer, accepted, inkTimer, published,
             inkFeed, known, following, received, trail, lastPointer, inkActs>>
windowVars == <<viewport, views, windowStorage, chat, order, gesture, dragging, disturbed,
                windowActs>>
editorVars == <<editorDoc, blocks, shown, rows, heard, remount, editorComposing, history,
                job, fileAnchor, editorMade, editorDone>>
tableVars == <<table, tableBlock, cells, tableComposing, tableMade, tableDone>>
scrollVars == <<scrollDoc, at, top, scrollPresenting, lastPublished, scrollTimer,
                presenting, followed, follow, target, rendered, commanded, scroll, unread,
                apart, edits, scrollActs>>

vars == <<scenario, listVars, mirrorVars, tabVars, followVars, inkVars, windowVars,
          editorVars, tableVars, scrollVars>>

-----------------------------------------------------------------------------
(* The components that are absent *)

Absent == "absent"

NoList ==
  /\ listCatalogue = Absent /\ trash = Absent /\ clock = Absent /\ listSocket = Absent
  /\ listFeed = Absent /\ refreshes = Absent /\ live = Absent /\ dialog = Absent
  /\ listLost = Absent

NoMirror ==
  /\ mirrorCatalogue = Absent /\ restored = Absent /\ request = Absent
  /\ mirrorSocket = Absent /\ mirrorFeed = Absent /\ names = Absent
  /\ mirrorLost = Absent /\ mirrorBlock = Absent /\ runs = Absent /\ mirror = Absent

NoTab ==
  /\ documents = Absent /\ tabStorage = Absent /\ tabs = Absent /\ read = Absent
  /\ tabRoute = Absent /\ seen = Absent /\ tabGoing = Absent /\ moves = Absent

NoFocus ==
  /\ members = Absent /\ lastRoster = Absent /\ current = Absent /\ drawn = Absent
  /\ followPresenting = Absent /\ shareStarted = Absent /\ shareEnded = Absent
  /\ followRoute = Absent /\ seenPath = Absent /\ sentTo = Absent /\ followGoing = Absent
  /\ returnTo = Absent /\ scrollTarget = Absent /\ joined = Absent /\ strayed = Absent
  /\ own = Absent /\ events = Absent /\ followActs = Absent

NoPens ==
  /\ inkPresenting = Absent /\ picked = Absent /\ mine = Absent /\ drawing = Absent
  /\ pointer = Absent /\ accepted = Absent /\ inkTimer = Absent /\ published = Absent
  /\ inkFeed = Absent /\ known = Absent /\ following = Absent /\ received = Absent
  /\ trail = Absent /\ lastPointer = Absent /\ inkActs = Absent

NoFrame ==
  /\ viewport = Absent /\ views = Absent /\ windowStorage = Absent /\ chat = Absent
  /\ order = Absent /\ gesture = Absent /\ dragging = Absent /\ disturbed = Absent
  /\ windowActs = Absent

NoPage ==
  /\ editorDoc = Absent /\ blocks = Absent /\ shown = Absent /\ rows = Absent
  /\ heard = Absent /\ remount = Absent /\ editorComposing = Absent /\ history = Absent
  /\ job = Absent /\ fileAnchor = Absent /\ editorMade = Absent /\ editorDone = Absent

NoGrid ==
  /\ table = Absent /\ tableBlock = Absent /\ cells = Absent /\ tableComposing = Absent
  /\ tableMade = Absent /\ tableDone = Absent

NoPlace ==
  /\ scrollDoc = Absent /\ at = Absent /\ top = Absent /\ scrollPresenting = Absent
  /\ lastPublished = Absent /\ scrollTimer = Absent /\ presenting = Absent
  /\ followed = Absent /\ follow = Absent /\ target = Absent /\ rendered = Absent
  /\ commanded = Absent /\ scroll = Absent /\ unread = Absent /\ apart = Absent
  /\ edits = Absent /\ scrollActs = Absent

-----------------------------------------------------------------------------

Init ==
  /\ scenario \in Scenarios
  /\ IF scenario = "list" THEN List!Init ELSE NoList
  /\ IF scenario = "mirrors" THEN Mirror!Init ELSE NoMirror
  /\ IF scenario = "tabs" THEN Tab!Init ELSE NoTab
  /\ IF scenario = "follow" THEN Focus!Init ELSE NoFocus
  /\ IF scenario = "ink" THEN Pens!Init ELSE NoPens
  /\ IF scenario = "windows" THEN Frame!Init ELSE NoFrame
  /\ IF scenario = "editor" THEN Page!Init ELSE NoPage
  /\ IF scenario = "table" THEN Grid!Init ELSE NoGrid
  /\ IF scenario = "scroll" THEN Place!Init ELSE NoPlace

Next ==
  \/ /\ scenario = "list" /\ List!Next
     /\ UNCHANGED <<scenario, mirrorVars, tabVars, followVars, inkVars, windowVars,
                    editorVars, tableVars, scrollVars>>
  \/ /\ scenario = "mirrors" /\ Mirror!Next
     /\ UNCHANGED <<scenario, listVars, tabVars, followVars, inkVars, windowVars,
                    editorVars, tableVars, scrollVars>>
  \/ /\ scenario = "tabs" /\ Tab!Next
     /\ UNCHANGED <<scenario, listVars, mirrorVars, followVars, inkVars, windowVars,
                    editorVars, tableVars, scrollVars>>
  \/ /\ scenario = "follow" /\ Focus!Next
     /\ UNCHANGED <<scenario, listVars, mirrorVars, tabVars, inkVars, windowVars,
                    editorVars, tableVars, scrollVars>>
  \/ /\ scenario = "ink" /\ Pens!Next
     /\ UNCHANGED <<scenario, listVars, mirrorVars, tabVars, followVars, windowVars,
                    editorVars, tableVars, scrollVars>>
  \/ /\ scenario = "windows" /\ Frame!Next
     /\ UNCHANGED <<scenario, listVars, mirrorVars, tabVars, followVars, inkVars,
                    editorVars, tableVars, scrollVars>>
  \/ /\ scenario = "editor" /\ Page!Next
     /\ UNCHANGED <<scenario, listVars, mirrorVars, tabVars, followVars, inkVars,
                    windowVars, tableVars, scrollVars>>
  \/ /\ scenario = "table" /\ Grid!Next
     /\ UNCHANGED <<scenario, listVars, mirrorVars, tabVars, followVars, inkVars,
                    windowVars, editorVars, scrollVars>>
  \/ /\ scenario = "scroll" /\ Place!Next
     /\ UNCHANGED <<scenario, listVars, mirrorVars, tabVars, followVars, inkVars,
                    windowVars, editorVars, tableVars>>

Spec == Init /\ [][Next]_vars

-----------------------------------------------------------------------------
(* What each component promises, of its own behaviors *)

\* Of the lists derived from events and reads (document-list.tsx and
\* floating-views.tsx, onmessage):
ViewsCatchUp ==
  /\ scenario = "list" => List!ListCatchesUp
  /\ scenario = "mirrors" => Mirror!MirrorsCatchUp

\* of an open document and of a table in it (use-block-document.ts and
\* text-block.tsx):
ShowsTheDocument ==
  /\ scenario = "editor" => Page!ShowsTheDocument
  /\ scenario = "table" => Grid!ShowsTheTable

\* of its first undo (use-block-document.ts, undoFloorRef):
OpeningIsNotUndone == scenario = "editor" => Page!OpeningIsNotUndone

\* of a composition among peers (text-block.tsx, flushQueuedRemoteEdits):
CompositionKeepsPeers ==
  [][/\ scenario = "editor" => Page!CompositionAdds
     /\ scenario = "table" => Grid!CellCompositionAdds]_vars

\* of a split, a merge and an upload (editor.tsx, handleSplit):
TextIsKept == [][scenario = "editor" => Page!KeepsCharacters]_vars

\* of a tab that is closed (document-tabs.tsx, close):
CloseMovesOn == [][scenario = "tabs" => Tab!ClosesOntoATab]_vars

\* of a follow, and of the place it shows (focus-follow-provider.tsx and
\* use-focus-presence.ts, the effects):
FollowsAsChosen ==
  /\ scenario = "follow" => Focus!FollowsAsChosen
  /\ scenario = "scroll" => Place!ShowsThePlace

\* of what a follower sees drawn (ink-overlay.tsx, publishNow):
FollowerSeesTheInk == scenario = "ink" => Pens!FollowerSeesTheInk

\* and of the windows (window-frame.ts and floating-views.tsx, fit):
WindowsReachable == scenario = "windows" => Frame!WindowsReachable
=============================================================================
