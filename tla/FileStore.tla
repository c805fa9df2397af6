------------------------------ MODULE FileStore ------------------------------
(***************************************************************************)
(* The file store: lib/files/file-repository.ts.  The bytes of a file lie  *)
(* under its id, its record in one index.json.  The index is read and      *)
(* written without an await between; the bytes are written and unlinked    *)
(* asynchronously, one await at a time, and other handlers run meanwhile.  *)
(***************************************************************************)
EXTENDS Naturals, FiniteSets, Functions

CONSTANTS
  Ids,        \* the documents a file may belong to
  NoDocument, \* the owner of a chat file: no documentId is recorded
  Files,      \* every id randomUUID may hand out to a file
  Requests,   \* the requests that may wait for a purge at the same time
  MaxFaults   \* bound: how many faults happen

VARIABLES
  index,   \* index.json: the owner of every recorded file
  bytes,   \* the files whose bytes are on disk
  saves,   \* how far the save of each file is, and the owner it was given
  unlinks, \* the files each waiting purge still has to unlink
  faults   \* how many faults have happened, for MaxFaults

vars == <<index, bytes, saves, unlinks, faults>>

Owners == Ids \cup {NoDocument}

\* unused: no such upload yet; writing: awaiting the bytes' rename; landed:
\* the rename is done, the handler has not resumed; saved: recorded, the
\* uploader has its answer; undoing: awaiting the unlink after the record
\* failed; failed: over, the uploader has an error or nothing.
Stages == {"unused", "writing", "landed", "saved", "undoing", "failed"}

InFlight == {"writing", "landed", "undoing"}

TypeOK ==
  /\ \E S \in SUBSET Files : index \in [S -> Owners]
  /\ bytes \subseteq Files
  /\ saves \in [Files -> [stage : Stages, owner : Owners]]
  /\ unlinks \in [Requests -> SUBSET Files]
  /\ faults \in Nat

Recorded == DOMAIN index

\* list() and find(): a document's file shows only while its document is live.
Listed(live) == {f \in Recorded : index[f] \in live \cup {NoDocument}}

Moves(f, from, to) ==
  /\ saves[f].stage = from
  /\ saves' = [saves EXCEPT ![f].stage = to]

-----------------------------------------------------------------------------
(* save *)

BeginSave(f, owner) ==
  /\ saves[f].stage = "unused"
  /\ saves' = [saves EXCEPT ![f] = [stage |-> "writing", owner |-> owner]]
  /\ UNCHANGED <<index, bytes, unlinks, faults>>

BytesLand(f) ==
  /\ Moves(f, "writing", "landed")
  /\ bytes' = bytes \cup {f}
  /\ UNCHANGED <<index, unlinks, faults>>

Record(f) ==
  /\ Moves(f, "landed", "saved")
  /\ index' = [g \in Recorded \cup {f} |->
                 IF g = f THEN saves[f].owner ELSE index[g]]
  /\ UNCHANGED <<bytes, unlinks, faults>>

\* Mutant: the failed save rethrows without removing the bytes.
UndoNothing(f) ==
  /\ Moves(f, "undoing", "failed")
  /\ UNCHANGED <<index, bytes, unlinks, faults>>

\* The bytes of a file whose record could not be written are removed.
Undo(f) ==
  /\ Moves(f, "undoing", "failed")
  /\ bytes' = bytes \ {f}
  /\ UNCHANGED <<index, unlinks, faults>>

-----------------------------------------------------------------------------
(* purge *)

OwnedBy(documentIds) == {f \in Recorded : index[f] \in documentIds}

\* purge up to its await: the records go at once, the unlinks are started.
Purge(r, documentIds) ==
  /\ unlinks[r] = {}
  /\ index' = Restrict(index, Recorded \ OwnedBy(documentIds))
  /\ unlinks' = [unlinks EXCEPT ![r] = OwnedBy(documentIds)]
  /\ UNCHANGED <<bytes, saves, faults>>

Unlink(r, f) ==
  /\ f \in unlinks[r]
  /\ bytes' = bytes \ {f}
  /\ unlinks' = [unlinks EXCEPT ![r] = @ \ {f}]
  /\ UNCHANGED <<index, saves, faults>>

\* Promise.all has resolved, or purge returned without one.
Purged(r) == unlinks[r] = {}

-----------------------------------------------------------------------------
(* Errors the store handles, and faults it does not *)

Fault ==
  /\ faults < MaxFaults
  /\ faults' = faults + 1

\* The disk refuses the bytes: save throws before anything is in place.
WriteFails(f) ==
  /\ Fault
  /\ Moves(f, "writing", "failed")
  /\ UNCHANGED <<index, bytes, unlinks>>

\* The index cannot be written: save goes on to remove the bytes again.
RecordFails(f) ==
  /\ Fault
  /\ Moves(f, "landed", "undoing")
  /\ UNCHANGED <<index, bytes, unlinks>>

\* Both unlinks swallow their errors: the bytes stay, nothing is retried.
UndoFails(f) ==
  /\ Fault
  /\ Moves(f, "undoing", "failed")
  /\ UNCHANGED <<index, bytes, unlinks>>

UnlinkFails(r, f) ==
  /\ Fault
  /\ f \in unlinks[r]
  /\ unlinks' = [unlinks EXCEPT ![r] = @ \ {f}]
  /\ UNCHANGED <<index, bytes, saves>>

\* The process dies and is started again: index and bytes are as they were.
Restart ==
  /\ Fault
  /\ saves' = [f \in Files |->
                 IF saves[f].stage \in InFlight
                   THEN [saves[f] EXCEPT !.stage = "failed"]
                   ELSE saves[f]]
  /\ unlinks' = [r \in Requests |-> {}]
  /\ UNCHANGED <<index, bytes>>

-----------------------------------------------------------------------------
Init ==
  /\ index = [f \in {} |-> NoDocument]
  /\ bytes = {}
  /\ saves = [f \in Files |-> [stage |-> "unused", owner |-> NoDocument]]
  /\ unlinks = [r \in Requests |-> {}]
  /\ faults = 0

\* What a save does when its await is over.
ResumeSave(f) == BytesLand(f) \/ Record(f) \/ Undo(f)

Errors == \E f \in Files : WriteFails(f) \/ RecordFails(f)

Next ==
  \/ \E f \in Files, owner \in Owners : BeginSave(f, owner)
  \/ \E r \in Requests, documentIds \in (SUBSET Ids) \ {{}} :
       Purge(r, documentIds)
  \/ \E f \in Files : ResumeSave(f)
  \/ \E r \in Requests, f \in Files : Unlink(r, f)
  \/ Errors

Faults ==
  \/ \E f \in Files : UndoFails(f)
  \/ \E r \in Requests, f \in Files : UnlinkFails(r, f)
  \/ Restart

\* The disk answers every request sooner or later.
Fairness ==
  /\ \A f \in Files : WF_vars(ResumeSave(f))
  /\ \A r \in Requests, f \in Files : WF_vars(Unlink(r, f))

Spec == Init /\ [][Next]_vars /\ Fairness

FaultySpec == Init /\ [][Next \/ Faults]_vars /\ Fairness

-----------------------------------------------------------------------------
(* Properties *)

\* save, and purge's "record first, then bytes": a recorded file can be read,
\* whatever interleaves and wherever the process stops.
RecordHasBytes == Recorded \subseteq bytes

\* save, "keeps the two in step": while the process lives and can unlink, bytes
\* without a record are on their way to a record or to removal, also after the
\* index could not be written.
BytesSettle ==
  \A f \in Files : f \in bytes \ Recorded ~> (f \in Recorded <=> f \in bytes)
=============================================================================
