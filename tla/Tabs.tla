-------------------------------- MODULE Tabs --------------------------------
(***************************************************************************)
(* The open documents of one browser as tabs: lib/tabs.ts and              *)
(* document-tabs.tsx.  What is open lives in React's state, in the         *)
(* localStorage that every window of the browser shares, and in the route; *)
(* the layout's documents decide which tabs are shown.                     *)
(***************************************************************************)
EXTENDS Integers, Sequences, FiniteSets, SequencesExt

CONSTANTS Docs, MaxMoves  \* the documents; bounds what the person does

VARIABLES
  documents, \* the layout's documents, in the order of the tree
  storage,   \* localStorage: what is open and which was shown last
  tabs,      \* the tabs' state
  read,      \* whether `tabs' has been read from the storage
  route,     \* the document the page shows, or None (another page)
  seen,      \* the route a tab was last opened for
  going,     \* a navigation that has not landed, or route
  moves

vars == <<documents, storage, tabs, read, route, seen, going, moves>>

None == "none"
NO_TABS == [open |-> <<>>, active |-> None]

-----------------------------------------------------------------------------
(* lib/tabs.ts *)

\* What a filter keeps: the ids at these places, in their order.
At(seq, places) ==
  LET upTo(i) == Cardinality({j \in places : j <= i})
  IN [n \in 1..Cardinality(places) |-> seq[CHOOSE i \in places : upTo(i) = n]]

\* Whatever is stored: each id once, and an active one only among them.
parseTabs(raw) ==
  LET first(i) == \A j \in 1..(i - 1) : raw.open[j] # raw.open[i]
      ids == At(raw.open, {i \in DOMAIN raw.open : first(i)})
  IN [open |-> ids, active |-> IF raw.active \in ToSet(ids) THEN raw.active ELSE None]

openTab(ts, id) ==
  [open |-> IF id \in ToSet(ts.open) THEN ts.open ELSE Append(ts.open, id),
   active |-> id]

WithoutId(seq, id) == At(seq, {i \in DOMAIN seq : seq[i] # id})

\* The right neighbour of a closed active tab, else the left one.
closeTab(ts, id) ==
  LET index == SelectInSeq(ts.open, LAMBDA other : other = id)
      rest == WithoutId(ts.open, id)
      neighbour == IF index <= Len(rest) THEN rest[index]
                   ELSE IF rest # <<>> THEN Last(rest) ELSE None
  IN IF index = 0 THEN ts
     ELSE [open |-> rest, active |-> IF ts.active = id THEN neighbour ELSE ts.active]

moveTab(ts, id, beforeId) ==
  LET rest == WithoutId(ts.open, id)
      at == SelectInSeq(rest, LAMBDA other : other = beforeId)
  IN IF id = beforeId \/ id \notin ToSet(ts.open) THEN ts
     ELSE [ts EXCEPT !.open = InsertAt(rest, IF at = 0 THEN Len(rest) + 1 ELSE at, id)]

landingId(ts, docs) ==
  IF ts.active \in ToSet(docs) THEN ts.active
  ELSE IF docs = <<>> THEN None ELSE Head(docs)

-----------------------------------------------------------------------------
(* document-tabs.tsx *)

shown == At(tabs.open, {i \in DOMAIN tabs.open : tabs.open[i] \in ToSet(documents)})

\* The effect that writes what is open, unless the storage refuses it.
Stored(ts) == storage' \in {ts, storage}

Move == moves < MaxMoves /\ moves' = moves + 1

ReadTabs ==
  /\ ~read /\ read' = TRUE
  /\ tabs' = parseTabs(storage)
  /\ UNCHANGED <<documents, storage, route, seen, going, moves>>

\* During a render after the route has changed.
OpenOnRoute ==
  /\ read /\ route # seen /\ seen' = route
  /\ tabs' = IF route = None THEN tabs ELSE openTab(tabs, route)
  /\ Stored(tabs')
  /\ UNCHANGED <<documents, read, route, going, moves>>

\* A link, a follow, a jump; the last navigation wins.
Navigate ==
  /\ Move
  /\ going' \in Docs \cup {None} /\ going' # going
  /\ UNCHANGED <<documents, storage, tabs, read, route, seen>>

Land ==
  /\ going # route /\ route' = going
  /\ UNCHANGED <<documents, storage, tabs, read, seen, going, moves>>

\* Mutant: over every tab, those of deleted documents included.
CloseAmongAll(id) ==
  /\ Move /\ read /\ route = seen
  /\ Len(shown) > 1 /\ id \in ToSet(shown)
  /\ tabs' = closeTab(tabs, id)
  /\ Stored(tabs')
  /\ going' = IF tabs'.active \notin {None, tabs.active} THEN tabs'.active ELSE going
  /\ UNCHANGED <<documents, read, route, seen>>

\* close, over the tabs shown; the only one has no button.
Close(id) ==
  /\ Move /\ read /\ route = seen
  /\ Len(shown) > 1 /\ id \in ToSet(shown)
  /\ tabs' = closeTab([tabs EXCEPT !.open = shown], id)
  /\ Stored(tabs')
  /\ going' = IF tabs'.active \notin {None, tabs.active} THEN tabs'.active ELSE going
  /\ UNCHANGED <<documents, read, route, seen>>

\* drop, before a tab or after it.
Drop ==
  /\ Move /\ read /\ route = seen
  /\ \E id \in ToSet(shown), index \in DOMAIN shown, after \in BOOLEAN :
       tabs' = moveTab(tabs, id, IF ~after THEN shown[index]
                                 ELSE IF index < Len(shown) THEN shown[index + 1]
                                 ELSE None)
  /\ Stored(tabs')
  /\ UNCHANGED <<documents, read, route, seen, going>>

\* The layout's rows are read again: documents come and go.
DocumentsChange ==
  /\ Move
  /\ \E gone \in ToSet(documents) : documents' = WithoutId(documents, gone)
     \/ \E new \in Docs \ ToSet(documents) : documents' = <<new>> \o documents
  /\ UNCHANGED <<storage, tabs, read, route, seen, going>>

\* The page is loaded anew, at `/' or where it was.
Landing == landingId(parseTabs(storage), documents)

Load ==
  /\ Move
  /\ route' \in {route, Landing} /\ going' = route'
  /\ read' = FALSE /\ tabs' = NO_TABS /\ seen' = None
  /\ UNCHANGED <<documents, storage>>

\* Another window of this browser, an older build, or an extension.
OtherWindow ==
  /\ Move
  /\ \E n \in {0, 2}, active \in Docs \cup {None} : \E open \in [1..n -> Docs] :
       storage' = [open |-> open, active |-> active]
  /\ UNCHANGED <<documents, tabs, read, route, seen, going>>

Init ==
  /\ documents = SetToSeq(Docs) /\ storage = NO_TABS
  /\ tabs = NO_TABS /\ read = FALSE /\ moves = 0
  /\ route \in Docs \cup {None} /\ seen = None /\ going = route

Next ==
  \/ ReadTabs \/ OpenOnRoute \/ Navigate \/ Land \/ Drop \/ DocumentsChange
  \/ Load \/ OtherWindow \/ \E id \in Docs : Close(id)

Spec == Init /\ [][Next]_vars

-----------------------------------------------------------------------------
(* Properties *)

ClosesOntoATab ==
  \A id \in Docs : Close(id) /\ id = route /\ going = route
    => going' \in ToSet(shown') \ {id}

\* Closing the tab of the page one is on takes one to a document that still
\* exists and whose tab stays, whatever was deleted, dragged, closed, stored by
\* another window or left behind by a navigation before.
CloseMovesOn == [][ClosesOntoATab]_vars
=============================================================================
