---------------------------- MODULE DocumentList ----------------------------
(***************************************************************************)
(* The document list of one browser (document-list.tsx) and the dialogs    *)
(* that change it (document-actions.tsx, new-document.tsx), over the       *)
(* catalogue's routes: the list is the layout's rows, then the events the  *)
(* hub sends, then the rows of every refresh an event asks for.  A row is  *)
(* its document's id and `updatedAt', which is what the rows are sorted by.*)
(***************************************************************************)
EXTENDS Integers, Sequences, FiniteSets, SequencesExt

CONSTANTS
  Documents,  \* the documents there may ever be
  MaxEdits,   \* bounds `updatedAt'
  MaxQueue    \* bounds the events and the refreshes on their way

VARIABLES
  catalogue,  \* documents.json: the rows, by id
  trash,      \* deleted.json
  clock,      \* the time of the last edit
  socket,     \* opening, open or closed: nothing reconnects it
  feed,       \* the events on their way to this browser
  refreshes,  \* the refreshes asked for; the first is on its way
  live,       \* what the list shows
  dialog,     \* the dialog that is open, or NoDialog
  lost        \* whether a change was broadcast past this browser since the
              \* catalogue was last read for it

vars == <<catalogue, trash, clock, socket, feed, refreshes, live, dialog, lost>>

server == <<catalogue, trash, clock>>

NoDialog == [kind |-> "none"]

Row(id, time) == [id |-> id, updatedAt |-> time]

\* Newest edit first.
InOrder(rows) == SetToSortSeq(rows, LAMBDA a, b : a.updatedAt > b.updatedAt)
readDocuments == InOrder(catalogue)

Ids(rows) == {row.id : row \in rows}

\* A request of the layout's rows, and what the server read for it.
Refresh == [handled |-> FALSE, rows |-> <<>>]

\* Next answers one refresh after the other.
refreshed(queue) == Append(queue, Refresh)

-----------------------------------------------------------------------------
(* The routes: every write of the catalogue broadcasts. *)

Broadcast(events) ==
  /\ feed' = IF socket = "open" THEN feed \o events ELSE feed
  /\ Len(feed') <= MaxQueue
  /\ lost' = (lost \/ socket # "open")

Created(id) ==
  /\ id \notin Ids(catalogue) \cup Ids(trash)
  /\ clock' = clock + 1
  /\ catalogue' = catalogue \cup {Row(id, clock')}
  /\ Broadcast(<<[event |-> "created", document |-> Row(id, clock')]>>)
  /\ UNCHANGED trash

\* A rename or a move.
Changed(id) ==
  /\ id \in Ids(catalogue)
  /\ clock' = clock + 1
  /\ catalogue' = {row \in catalogue : row.id # id} \cup {Row(id, clock')}
  /\ Broadcast(<<[event |-> "changed", document |-> Row(id, clock')]>>)
  /\ UNCHANGED trash

\* The document and what lies under it, which the events do not show.
Deleted(id) ==
  /\ id \in Ids(catalogue)
  /\ \E under \in SUBSET (Ids(catalogue) \ {id}) :
       LET gone == {row \in catalogue : row.id \in under \cup {id}}
       IN /\ catalogue' = catalogue \ gone
          /\ trash' = trash \cup gone
          /\ Broadcast(<<[event |-> "deleted", ids |-> Ids(gone)]>>)
  /\ UNCHANGED clock

Restored ==
  /\ \E entry \in (SUBSET trash) \ {{}} :
       /\ trash' = trash \ entry /\ catalogue' = catalogue \cup entry
       /\ Broadcast([i \in 1..Cardinality(entry) |->
            [event |-> "created", document |-> SetToSeq(entry)[i]]])
  /\ UNCHANGED clock

Written(kind, id) ==
  /\ clock < MaxEdits
  /\ \/ kind = "create" /\ Created(id)
     \/ kind = "change" /\ Changed(id)
     \/ kind = "delete" /\ Deleted(id)

OthersWrite ==
  /\ \/ \E kind \in {"create", "change", "delete"}, id \in Documents : Written(kind, id)
     \/ Restored
  /\ UNCHANGED <<socket, refreshes, live, dialog>>

-----------------------------------------------------------------------------
(* The list *)

Open ==
  /\ socket = "opening" /\ socket' = "open"
  /\ UNCHANGED <<server, feed, refreshes, live, dialog, lost>>

Drop ==
  /\ socket = "open" /\ socket' = "closed" /\ feed' = <<>>
  /\ lost' = (lost \/ feed # <<>>)
  /\ UNCHANGED <<server, refreshes, live, dialog>>

\* What an event makes of the rows shown.
Applied(event, rows) ==
  IF event.event = "deleted"
  THEN SelectSeq(rows, LAMBDA row : row.id \notin event.ids)
  ELSE <<event.document>> \o SelectSeq(rows, LAMBDA row : row.id # event.document.id)

\* Mutant: the list trusts the events alone.
ReceiveOnly ==
  /\ feed # <<>> /\ feed' = Tail(feed)
  /\ live' = Applied(Head(feed), live)
  /\ UNCHANGED <<server, socket, refreshes, dialog, lost>>

Receive ==
  /\ feed # <<>> /\ feed' = Tail(feed)
  /\ Len(refreshes) < MaxQueue
  /\ live' = Applied(Head(feed), live)
  /\ refreshes' = refreshed(refreshes)
  /\ UNCHANGED <<server, socket, dialog, lost>>

RefreshHandled ==
  /\ refreshes # <<>> /\ ~Head(refreshes).handled
  /\ refreshes' = [refreshes EXCEPT ![1] = [handled |-> TRUE, rows |-> readDocuments]]
  /\ lost' = FALSE
  /\ UNCHANGED <<server, socket, feed, live, dialog>>

\* The layout's new rows seed the list again.
RefreshAnswered ==
  /\ refreshes # <<>> /\ Head(refreshes).handled
  /\ refreshes' = Tail(refreshes) /\ live' = Head(refreshes).rows
  /\ UNCHANGED <<server, socket, feed, dialog, lost>>

-----------------------------------------------------------------------------
(* The dialogs.  One carries its document, which may be gone by the time it is *)
(* submitted; the server's refusal is shown in it. *)

OpenDialog ==
  /\ dialog = NoDialog
  /\ \/ \E row \in ToSet(live), kind \in {"change", "delete"} :
          dialog' = [kind |-> kind, id |-> row.id, state |-> "asked"]
     \/ \E id \in Documents \ (Ids(catalogue) \cup Ids(trash)) :
          dialog' = [kind |-> "create", id |-> id, state |-> "asked"]
  /\ UNCHANGED <<server, socket, feed, refreshes, live, lost>>

\* Not while a request is pending.
CloseDialog ==
  /\ dialog # NoDialog /\ dialog.state # "pending"
  /\ dialog' = NoDialog
  /\ UNCHANGED <<server, socket, feed, refreshes, live, lost>>

Submit ==
  /\ dialog # NoDialog /\ dialog.state \in {"asked", "refused"}
  /\ dialog' = [dialog EXCEPT !.state = "pending"]
  /\ UNCHANGED <<server, socket, feed, refreshes, live, lost>>

SubmitHandled ==
  /\ dialog # NoDialog /\ dialog.state = "pending"
  /\ Written(dialog.kind, dialog.id)
  /\ dialog' = [dialog EXCEPT !.state = "done"]
  /\ UNCHANGED <<socket, refreshes, live>>

SubmitRefused ==
  /\ dialog # NoDialog /\ dialog.state = "pending"
  /\ dialog' = [dialog EXCEPT !.state = "refused"]
  /\ UNCHANGED <<server, socket, feed, refreshes, live, lost>>

\* onDone and onClose; the new-document dialog does the same.
SubmitAnswered ==
  /\ dialog # NoDialog /\ dialog.state = "done"
  /\ Len(refreshes) < MaxQueue
  /\ refreshes' = refreshed(refreshes) /\ dialog' = NoDialog
  /\ UNCHANGED <<server, socket, feed, live, lost>>

-----------------------------------------------------------------------------

Init ==
  /\ \E ids \in SUBSET Documents :
       /\ Cardinality(ids) = Cardinality(Documents) - 1
       /\ catalogue = {Row(id, 0) : id \in ids}
  /\ trash = {} /\ clock = 0 /\ socket = "opening" /\ feed = <<>>
  /\ refreshes = <<>> /\ live = readDocuments /\ dialog = NoDialog
  /\ lost = FALSE

Next ==
  \/ OthersWrite \/ Open \/ Drop \/ Receive \/ RefreshHandled \/ RefreshAnswered
  \/ OpenDialog \/ CloseDialog \/ Submit
  \/ SubmitHandled \/ SubmitRefused \/ SubmitAnswered

Spec == Init /\ [][Next]_vars

-----------------------------------------------------------------------------
(* Properties *)

\* Once every event has been heard and every refresh answered, the list shows
\* the catalogue's rows in the catalogue's order, though a refresh that was read
\* early may land late: unless a change went past the socket since the last read.
ListCatchesUp ==
  feed = <<>> /\ refreshes = <<>> /\ ~lost => live = readDocuments
=============================================================================
