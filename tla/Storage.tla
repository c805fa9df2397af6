------------------------------- MODULE Storage -------------------------------
(***************************************************************************)
(* The catalogue, the trash and the file store as the routes put them      *)
(* together: an upload is accepted for a live document and recorded some   *)
(* awaits later; a delete hides its files by taking the document out of    *)
(* the catalogue; a purge hands the ids of expired entries to the file     *)
(* store, waits for the unlinks, and drops the entries.                    *)
(***************************************************************************)
EXTENDS Naturals, Sequences, FiniteSets, TLC

CONSTANTS
  Ids, NoParent, Bases, TypedNames, Requests, TrashTTL, MaxTime, MaxFaults,
  NoDocument, Files

ASSUME NoDocumentAssumption == NoDocument \notin Ids

VARIABLES
  docs, trash, issued, purging, now, \* the catalogue's
  index, bytes, saves, unlinks,      \* the file store's
  faults                             \* counted once for both

catalogueVars == <<docs, trash, issued, purging, now>>
fileVars == <<index, bytes, saves, unlinks>>
vars == <<catalogueVars, fileVars, faults>>

C == INSTANCE Catalogue
F == INSTANCE FileStore

\* What Catalogue assumes of its constants.
ASSUME NoParentAssumption == NoParent \notin Ids
ASSUME TypedNamesAssumption == TypedNames \subseteq C!Names
ASSUME TrashTTLAssumption == TrashTTL \in Nat \ {0}
ASSUME BoundsAssumption == MaxTime \in Nat /\ MaxFaults \in Nat

TypeOK == C!TypeOK /\ F!TypeOK

-----------------------------------------------------------------------------
(* Handlers that touch one store *)

Edit ==
  /\ \/ \E name \in TypedNames, parentId \in Ids \cup {NoParent} :
          C!createDocument(name, parentId)
     \/ \E id \in Ids, name \in TypedNames : C!renameDocument(id, name)
     \/ \E id \in Ids, parentId \in Ids \cup {NoParent} :
          C!moveDocument(id, parentId)
     \/ \E id \in Ids : C!restoreDocument(id)
  /\ UNCHANGED fileVars

\* POST /api/chat/files: no document is recorded.
ChatUpload(f) ==
  /\ F!BeginSave(f, NoDocument)
  /\ UNCHANGED catalogueVars

\* Mutant: the upload route does not look for the document.
DocumentUploadUnchecked(f, id) ==
  /\ F!BeginSave(f, id)
  /\ UNCHANGED catalogueVars

\* POST /api/documents/:id/files: the document has to be there before its
\* bytes are read; nobody looks again when they have landed.
DocumentUpload(f, id) ==
  /\ id \in C!Live
  /\ F!BeginSave(f, id)
  /\ UNCHANGED catalogueVars

ResumeSave(f) ==
  /\ F!ResumeSave(f)
  /\ UNCHANGED catalogueVars

Unlink(r, f) ==
  /\ F!Unlink(r, f)
  /\ UNCHANGED catalogueVars

SaveError ==
  /\ F!Errors
  /\ UNCHANGED catalogueVars

-----------------------------------------------------------------------------
(* Handlers that touch both *)

\* DELETE /api/documents/:id, up to its await.
DeleteRoute(r, id) ==
  /\ C!DeleteRoute(r, id)
  /\ F!Purge(r, purging'[r].ids)

\* GET /admin, up to its await.
AdminPage(r) ==
  /\ C!AdminPage(r)
  /\ F!Purge(r, purging'[r].ids)

\* Either request, when every unlink is over.
FinishPurge(r) ==
  /\ F!Purged(r)
  /\ C!FinishPurge(r)
  /\ UNCHANGED fileVars

\* A tick is days long: no request waits across one, uploads included.
Tick ==
  /\ \A f \in Files : saves[f].stage \notin F!InFlight
  /\ C!Tick
  /\ UNCHANGED fileVars

-----------------------------------------------------------------------------
Init == C!Init /\ F!Init

Next ==
  \/ Edit
  \/ \E f \in Files :
       \/ ChatUpload(f)
       \/ \E id \in Ids : DocumentUpload(f, id)
       \/ ResumeSave(f)
       \/ \E r \in Requests : Unlink(r, f)
  \/ SaveError
  \/ \E r \in Requests :
       \/ \E id \in Ids : DeleteRoute(r, id)
       \/ AdminPage(r)
       \/ FinishPurge(r)
  \/ Tick

\* Each half of a handler that touches both may fail by itself; a restart
\* takes every waiting request of both.
Faults ==
  \/ /\ \E id \in Ids :
          \/ C!DeleteStopsHalfWay(id)
          \/ C!RestoreStopsHalfWay(id)
          \/ C!DeleteWithoutPurge(id)
     /\ UNCHANGED fileVars
  \/ /\ \E r \in Requests : F!Purged(r) /\ C!PurgeFails(r)
     /\ UNCHANGED fileVars
  \/ /\ \/ \E f \in Files : F!UndoFails(f)
        \/ \E r \in Requests, f \in Files : F!UnlinkFails(r, f)
     /\ UNCHANGED catalogueVars
  \/ C!Restart /\ F!Restart

\* The disk answers every request sooner or later.
Fairness ==
  /\ \A f \in Files : WF_vars(ResumeSave(f))
  /\ \A r \in Requests, f \in Files : WF_vars(Unlink(r, f))
  /\ \A r \in Requests : WF_vars(FinishPurge(r))

Spec == Init /\ [][Next]_vars /\ Fairness

FaultySpec == Init /\ [][Next \/ Faults]_vars /\ Fairness

-----------------------------------------------------------------------------
(* Properties *)

\* The answer 201 was given for f, which belongs to document id.
Uploaded(f, id) == saves[f].stage = "saved" /\ saves[f].owner = id

\* file-repository.ts, list, save and purge, and the upload route: the record of
\* a document's file always has its document in the catalogue or in the trash,
\* so a purge will reach it, and its bytes on the disk: an upload that outlives
\* its document leaves no record that nobody can see and nothing will remove.
RecordsWhole ==
  /\ \A f \in F!Recorded : index[f] \in C!Live \cup C!Trashed \cup {NoDocument}
  /\ F!RecordHasBytes

\* documents.ts, purgeExpiredTrash, and FileRepository, "two concurrent uploads
\* cannot drop each other's record": a record goes only while its document is
\* out of the catalogue and in an entry that has expired; never with another
\* upload, a save that failed or a purge of other documents.
OnlyExpiredFilesGo ==
  [][\A f \in F!Recorded \ F!Recorded' :
       /\ index[f] \notin C!Live
       /\ \E i \in DOMAIN trash :
            /\ index[f] \in C!InEntry(trash[i])
            /\ C!Expired(trash[i], now)]_vars

\* documents.ts, purgeExpiredTrash, "purgeFiles first, then the entries": when
\* the last trace of a document goes, no record of a file of it is left.
EntriesGoWithoutFiles ==
  [][\A id \in C!Trashed :
       id \notin C!Live' \cup C!Trashed' =>
         \A f \in F!Recorded' : index'[f] # id]_vars

\* file-repository.ts:86, "in the trash, it is hidden, and a restore shows it
\* again": an uploaded file is listed whenever its document is live.
RestoreShowsFiles ==
  \A f \in Files, id \in Ids :
    Uploaded(f, id) /\ id \in C!Live => f \in F!Listed(C!Live)

\* file-repository.ts, save, "keeps the two in step":
BytesSettle == F!BytesSettle

-----------------------------------------------------------------------------
(* Small instances for TLC *)

OneName == {[base |-> "a", suffixes |-> <<>>]}

Symmetry ==
  Permutations(Ids) \cup Permutations(Files) \cup Permutations(Requests)

\* Names never decide where a document or a file is: every guard that reads one
\* only refuses a rename.  For properties of places alone, states that differ in
\* names alone are the same.
Parents(documents) == [d \in DOMAIN documents |-> documents[d].parent]

PlacesOnly ==
  <<Parents(docs),
    [i \in DOMAIN trash |->
       <<trash[i].root, Parents(trash[i].docs), trash[i].deletedAt>>],
    issued, purging, now, index, bytes, saves, unlinks, faults>>
=============================================================================
