-------------------------------- MODULE Mirrors --------------------------------
(***************************************************************************)
(* What a floating window of a block shows: the name of the document, by   *)
(* the catalogue read once and the events after it (useDocumentNames), and *)
(* the block itself, by a share of its document (useMirroredBlock,         *)
(* floating-views.tsx), which AttachPool is the model of.                  *)
(***************************************************************************)
EXTENDS Integers, Sequences, FiniteSets, SequencesExt

CONSTANTS
  Documents, \* those a window may be of
  MaxEdits,  \* bounds the catalogue's writes and the block's edits
  MaxQueue,  \* bounds the events on their way
  MaxRuns    \* bounds how often the effect of a window is run

VARIABLES
  catalogue, \* each document's name, its version, or Gone
  restored,  \* the documents of the windows that were open before the page
  request,   \* the one read of the catalogue
  socket, feed,
  names,     \* the state: a name, Gone, or Unknown
  lost,      \* whether a change was broadcast past this browser since the read
  block,     \* the block in the document, or Gone
  runs,      \* the runs of a window's effect, the last one not cancelled
  mirror     \* what the window shows of the block

vars == <<catalogue, restored, request, socket, feed, names, lost, block, runs, mirror>>

named == <<catalogue, restored, request, socket, feed, names, lost>>
mirrored == <<block, runs, mirror>>

Gone == 0     \* null, or deleted
Unknown == -1 \* not in the map

Version == Max({catalogue[d] : d \in Documents} \cup {block})

Broadcast(d, name) ==
  IF socket = "open"
  THEN Len(feed) < MaxQueue /\ feed' = Append(feed, [id |-> d, name |-> name]) /\ UNCHANGED lost
  ELSE lost' = TRUE /\ UNCHANGED feed

\* Created, renamed, restored; or deleted.
Write(d) ==
  /\ \E name \in 0..MaxEdits :
       /\ name \in {Gone, Version + 1} /\ name # catalogue[d] /\ catalogue' = [catalogue EXCEPT ![d] = name]
       /\ Broadcast(d, name)
  /\ UNCHANGED <<restored, request, socket, names, mirrored>>

OpenSocket ==
  /\ socket = "opening" /\ socket' = "open"
  /\ UNCHANGED <<catalogue, restored, request, feed, names, lost, mirrored>>

\* Nothing reconnects it.
DropSocket ==
  /\ socket = "open" /\ socket' = "closed" /\ feed' = <<>> /\ lost' = TRUE
  /\ UNCHANGED <<catalogue, restored, request, names, mirrored>>

\* merge
Receive ==
  /\ feed # <<>> /\ feed' = Tail(feed)
  /\ names' = [names EXCEPT ![Head(feed).id] = Head(feed).name]
  /\ UNCHANGED <<catalogue, restored, request, socket, lost, mirrored>>

Requested == request.stage = "asked"

\* What a socket that dropped has said stays over what is read after it.
Read ==
  /\ Requested /\ request' = [stage |-> "read", rows |-> catalogue]
  /\ lost' = (socket = "closed")
  /\ UNCHANGED <<catalogue, restored, socket, feed, names, mirrored>>

\* What the answer says of d: its name, and of a restored window's, that it is
\* gone.
Answer(d) ==
  IF request.rows[d] = Gone /\ d \notin restored THEN Unknown ELSE request.rows[d]

\* Under what the socket said while it loaded.
Merged(d) == IF names[d] = Unknown THEN Answer(d) ELSE names[d]

Answered ==
  /\ request.stage = "read" /\ request' = [request EXCEPT !.stage = "done"]
  /\ names' = [d \in Documents |-> Merged(d)]
  /\ UNCHANGED <<catalogue, restored, socket, feed, lost, mirrored>>

ReadFails ==
  /\ request.stage \in {"asked", "read"} /\ request' = [request EXCEPT !.stage = "failed"]
  /\ UNCHANGED <<catalogue, restored, socket, feed, names, lost, mirrored>>

-----------------------------------------------------------------------------
(* The block *)

Live == Len(runs)

Shows(r) == r = Live /\ runs[r].stage = "held" /\ ~runs[r].cancelled

\* A document of the pool is edited, by this browser or by peers; read follows
\* every change of content in the window that holds it.
EditBlock ==
  /\ \E b \in 0..MaxEdits :
       /\ b \in {Gone, Version + 1} /\ block' = b /\ b # block
       /\ mirror' = IF \E r \in DOMAIN runs : Shows(r)
                    THEN [status |-> "read", block |-> b] ELSE mirror
  /\ UNCHANGED <<named, runs>>

Cancelled(rs) == [i \in DOMAIN rs |-> [rs[i] EXCEPT !.cancelled = TRUE]]

\* The effect: a new client, or who one is, ends the run before it.
Run ==
  /\ Live < MaxRuns
  /\ runs' = Append(Cancelled(runs), [stage |-> "acquiring", cancelled |-> FALSE])
  /\ UNCHANGED <<named, block, mirror>>

Unmount ==
  /\ Live > 0 /\ ~Last(runs).cancelled /\ runs' = Cancelled(runs)
  /\ UNCHANGED <<named, block, mirror>>

\* The share is there: nothing is shown of one that is not wanted any more.
Acquired(r) ==
  /\ runs[r].stage = "acquiring" /\ runs' = [runs EXCEPT ![r].stage = "held"]
  /\ mirror' = IF runs[r].cancelled THEN mirror ELSE [status |-> "read", block |-> block]
  /\ UNCHANGED <<named, block>>

Refused(r) ==
  /\ runs[r].stage = "acquiring" /\ runs' = [runs EXCEPT ![r].stage = "failed"]
  /\ mirror' = IF runs[r].cancelled THEN mirror ELSE [status |-> "failed", block |-> Gone]
  /\ UNCHANGED <<named, block>>

\* setup.finally of a run that is over: what it held it gives back.
Released(r) ==
  /\ runs[r].cancelled /\ runs[r].stage \in {"held", "failed"}
  /\ runs' = [runs EXCEPT ![r].stage = "over"]
  /\ UNCHANGED <<named, block, mirror>>

Init ==
  /\ catalogue \in [Documents -> 0..1] /\ restored \in SUBSET Documents
  /\ request = [stage |-> "asked", rows |-> <<>>] /\ socket = "opening" /\ feed = <<>>
  /\ names = [d \in Documents |-> Unknown] /\ lost = FALSE
  /\ block \in 0..1 /\ runs = <<>> /\ mirror = [status |-> "loading", block |-> Gone]

Next ==
  \/ \E d \in Documents : Write(d)
  \/ OpenSocket \/ DropSocket \/ Receive \/ Read \/ Answered \/ ReadFails
  \/ EditBlock \/ Run \/ Unmount
  \/ \E r \in DOMAIN runs : Acquired(r) \/ Refused(r) \/ Released(r)

Spec == Init /\ [][Next]_vars

-----------------------------------------------------------------------------
(* Properties *)

\* When the catalogue was answered and every event heard, each document has the
\* name it has, in whatever order the two arrived: a window that was open before
\* is told of a deletion it missed, and of a restore during the read.  And while
\* a window holds its document, it shows the block as it is, whatever became of
\* the runs before it.
MirrorsCatchUp ==
  /\ request.stage = "done" /\ feed = <<>> /\ ~lost =>
       \A d \in Documents :
         names[d] = catalogue[d] \/ (names[d] = Unknown /\ catalogue[d] = Gone /\ d \notin restored)
  /\ \A r \in DOMAIN runs :
       Shows(r) => mirror = [status |-> "read", block |-> block]
=============================================================================
