---------------------------- MODULE StorageProofs ----------------------------
(***************************************************************************)
(* Proofs about Storage, for every set of documents, files and requests:   *)
(* what CatalogueProofs shows of the two files holds whatever the uploads  *)
(* and the unlinks do, and with it no record outlives its document.        *)
(***************************************************************************)
EXTENDS Storage, Functions, TLAPS

P == INSTANCE CatalogueProofs

\* The constants are as the catalogue takes them to be.
LEMMA Assumed ==
  /\ NoParent \notin Ids
  /\ TypedNames \subseteq P!Names
  /\ TrashTTL \in Nat \ {0}
  /\ MaxTime \in Nat /\ MaxFaults \in Nat
BY NoParentAssumption, TypedNamesAssumption, TrashTTLAssumption, BoundsAssumption
   DEF P!Names, C!Names

-----------------------------------------------------------------------------
(* The catalogue that CatalogueProofs is about is the catalogue of the routes *)

\* The pieces the handlers are made of are those of the proofs.
LEMMA SameUniqueName ==
  ASSUME NEW name, NEW taken
  PROVE  C!uniqueName(name, taken) = P!uniqueName(name, taken)
BY DEF C!uniqueName, C!FreeSuffix, C!Suffixed, P!uniqueName, P!FreeSuffix, P!Suffixed,
       C!Cardinality, C!IsFiniteSet, P!Cardinality, P!IsFiniteSet

LEMMA SameSubtree ==
  ASSUME NEW documents, NEW id
  PROVE  C!subtreeIds(documents, id) = P!subtreeIds(documents, id)
BY DEF C!subtreeIds, C!ClosedUnderChildren, P!subtreeIds, P!ClosedUnderChildren

LEMMA SameFiltered ==
  ASSUME NEW s, NEW keep, NEW t
  PROVE  C!IsFiltered(s, keep, t) <=> P!IsFiltered(s, keep, t)
BY DEF C!IsFiltered, P!IsFiltered,
       C!Cardinality, C!IsFiniteSet, P!Cardinality, P!IsFiniteSet

LEMMA SameRestoredDocs ==
  ASSUME NEW entry
  PROVE  C!RestoredDocs(entry) = P!RestoredDocs(entry)
BY SameUniqueName
   DEF C!RestoredDocs, C!Without, C!Restrict, C!InEntry, C!SiblingNames, C!NamesOf,
       C!childrenOf, C!With, C!Row,
       P!RestoredDocs, P!Without, P!Restrict, P!InEntry, P!SiblingNames, P!NamesOf,
       P!childrenOf, P!With, P!Row

LEMMA SameCreate ==
  ASSUME NEW name, NEW parentId
  PROVE  C!createDocument(name, parentId) <=> P!createDocument(name, parentId)
BY SameUniqueName
   DEF C!createDocument, C!IsPlace, C!Live, C!Fresh, C!SiblingNames, C!NamesOf,
       C!childrenOf, C!WithOne, C!With, C!Row,
       P!createDocument, P!IsPlace, P!Live, P!Fresh, P!SiblingNames, P!NamesOf,
       P!childrenOf, P!WithOne, P!With, P!Row

LEMMA SameRename ==
  ASSUME NEW id, NEW name
  PROVE  C!renameDocument(id, name) <=> P!renameDocument(id, name)
BY DEF C!renameDocument, C!Live, C!childrenOf, P!renameDocument, P!Live, P!childrenOf

LEMMA SameMove ==
  ASSUME NEW id, NEW parentId
  PROVE  C!moveDocument(id, parentId) <=> P!moveDocument(id, parentId)
BY SameUniqueName, SameSubtree
   DEF C!moveDocument, C!Live, C!IsPlace, C!wouldCycle, C!childrenOf, C!NamesOf, C!Row,
       P!moveDocument, P!Live, P!IsPlace, P!wouldCycle, P!childrenOf, P!NamesOf, P!Row

LEMMA SameDelete ==
  ASSUME NEW id
  PROVE  C!deleteDocument(id) <=> P!deleteDocument(id)
BY SameSubtree
   DEF C!deleteDocument, C!Live, C!DeletedEntry, C!Restrict, C!Without,
       P!deleteDocument, P!Live, P!DeletedEntry, P!Restrict, P!Without

LEMMA SameStartPurge ==
  ASSUME NEW r, NEW t
  PROVE  C!StartPurge(r, t) <=> P!StartPurge(r, t)
BY DEF C!StartPurge, C!Expired, C!InEntry, P!StartPurge, P!Expired, P!InEntry

LEMMA SameDeleteRoute ==
  ASSUME NEW r, NEW id
  PROVE  C!DeleteRoute(r, id) <=> P!DeleteRoute(r, id)
BY SameDelete, SameStartPurge
   DEF C!DeleteRoute, C!Idle, C!NoPurge, P!DeleteRoute, P!Idle, P!NoPurge

LEMMA SameRestore ==
  ASSUME NEW id
  PROVE  C!restoreDocument(id) <=> P!restoreDocument(id)
BY SameRestoredDocs, SameFiltered
   DEF C!restoreDocument, C!IsFirstOf, P!restoreDocument, P!IsFirstOf

LEMMA SameAdminPage ==
  ASSUME NEW r
  PROVE  C!AdminPage(r) <=> P!AdminPage(r)
BY SameStartPurge
   DEF C!AdminPage, C!Idle, C!NoPurge, P!AdminPage, P!Idle, P!NoPurge

LEMMA SameFinishPurge ==
  ASSUME NEW r
  PROVE  C!FinishPurge(r) <=> P!FinishPurge(r)
BY SameFiltered
   DEF C!FinishPurge, C!Idle, C!NoPurge, C!Expired,
       P!FinishPurge, P!Idle, P!NoPurge, P!Expired

LEMMA SameTick == C!Tick <=> P!Tick
BY DEF C!Tick, C!Idle, C!NoPurge, P!Tick, P!Idle, P!NoPurge

LEMMA SameDeleteStops ==
  ASSUME NEW id
  PROVE  C!DeleteStopsHalfWay(id) <=> P!DeleteStopsHalfWay(id)
BY SameSubtree
   DEF C!DeleteStopsHalfWay, C!Fault, C!Live, C!DeletedEntry, C!Restrict,
       P!DeleteStopsHalfWay, P!Fault, P!Live, P!DeletedEntry, P!Restrict

LEMMA SameRestoreStops ==
  ASSUME NEW id
  PROVE  C!RestoreStopsHalfWay(id) <=> P!RestoreStopsHalfWay(id)
BY SameRestoredDocs
   DEF C!RestoreStopsHalfWay, C!Fault, C!IsFirstOf,
       P!RestoreStopsHalfWay, P!Fault, P!IsFirstOf

LEMMA SameDeleteWithoutPurge ==
  ASSUME NEW id
  PROVE  C!DeleteWithoutPurge(id) <=> P!DeleteWithoutPurge(id)
BY SameDelete DEF C!DeleteWithoutPurge, C!Fault, P!DeleteWithoutPurge, P!Fault

LEMMA SamePurgeFails ==
  ASSUME NEW r
  PROVE  C!PurgeFails(r) <=> P!PurgeFails(r)
BY DEF C!PurgeFails, C!Fault, C!Idle, C!NoPurge, P!PurgeFails, P!Fault, P!Idle, P!NoPurge

LEMMA SameRestart == C!Restart <=> P!Restart
BY DEF C!Restart, C!Fault, C!NoPurge, P!Restart, P!Fault, P!NoPurge

LEMMA SameInit == C!Init <=> P!Init
BY DEF C!Init, C!EmptyCatalogue, C!NoPurge, P!Init, P!EmptyCatalogue, P!NoPurge

-----------------------------------------------------------------------------
(* The invariant *)

\* A document that no purge under way, and none started in this tick, takes.
Kept(id) ==
  \/ id \in C!Live
  \/ \E i \in DOMAIN trash :
       id \in C!InEntry(trash[i]) /\ ~ C!Expired(trash[i], now)

\* A file on its way into the index or out of it is not in it.
SavesHold ==
  /\ \A f \in F!Recorded : saves[f].stage = "saved"
  /\ \A f \in Files : saves[f].stage = "landed" => f \in bytes
  /\ \A r \in Requests : \A f \in unlinks[r] :
       saves[f].stage = "saved" /\ f \notin F!Recorded

\* What a waiting purge has taken: every entry that has expired by now, with
\* every record of a file of it but those of documents restored since.
PurgesHold ==
  \A r \in Requests : purging[r] # C!NoPurge =>
    /\ purging[r].at = now
    /\ \A i \in DOMAIN trash :
         C!Expired(trash[i], now) => C!InEntry(trash[i]) \subseteq purging[r].ids
    /\ \A f \in F!Recorded : index[f] \in purging[r].ids => Kept(index[f])

\* The document an upload under way is for may be deleted meanwhile, but its
\* entry does not expire before the upload is over.
UploadsHold ==
  \A f \in Files :
    saves[f].stage \in {"writing", "landed"} => saves[f].owner = NoDocument \/ Kept(saves[f].owner)

SInv ==
  /\ P!FaultyInv
  /\ F!TypeOK
  /\ RecordsWhole
  /\ SavesHold
  /\ PurgesHold
  /\ UploadsHold

-----------------------------------------------------------------------------
(* What the steps of the catalogue do to the places a document can be in *)

\* No document leaves both files, none that is kept stops being kept, and no
\* entry comes that has expired already.
Keeps ==
  /\ C!Live \cup C!Trashed \subseteq (C!Live \cup C!Trashed)'
  /\ \A id : Kept(id) => Kept(id)'
  /\ \A k \in DOMAIN trash' :
       C!Expired(trash'[k], now) => \E i \in DOMAIN trash : trash[i] = trash'[k]

\* createDocument, renameDocument, moveDocument.
LEMMA GrowingKeeps ==
  ASSUME DOMAIN docs \subseteq DOMAIN docs', UNCHANGED <<trash, now>>
  PROVE  Keeps
BY DEF Keeps, Kept, C!Live, C!Trashed, C!InEntry, C!Expired

LEMMA CreateGrows ==
  ASSUME NEW name, NEW parentId, P!createDocument(name, parentId)
  PROVE  DOMAIN docs \subseteq DOMAIN docs' /\ UNCHANGED <<trash, purging, now>>
BY DEF P!createDocument, P!WithOne, P!With

LEMMA RenameGrows ==
  ASSUME NEW id, NEW name, P!renameDocument(id, name)
  PROVE  DOMAIN docs \subseteq DOMAIN docs' /\ UNCHANGED <<trash, purging, now>>
BY DEF P!renameDocument

LEMMA MoveGrows ==
  ASSUME NEW id, NEW parentId, P!moveDocument(id, parentId)
  PROVE  DOMAIN docs \subseteq DOMAIN docs' /\ UNCHANGED <<trash, purging, now>>
BY DEF P!moveDocument

\* The half of a delete that writes the trash: the new entry is not expired.
LEMMA AppendKeeps ==
  ASSUME P!FaultyInv, NEW id \in P!Live,
         trash' = Append(trash, P!DeletedEntry(id)),
         \/ docs' = P!Without(docs, P!subtreeIds(docs, id))
         \/ docs' = docs,
         UNCHANGED now
  PROVE  Keeps
<1> DEFINE e == P!DeletedEntry(id)
<1>1. P!TypeOK /\ P!IsCatalogue(docs) /\ trash \in Seq(P!Range(trash)) /\ now \in Nat
  BY Assumed, P!FaultyInvHolds DEF P!FaultyInv, P!CatalogueHolds, P!TrashHolds, P!RequestsHold
<1>2. e.deletedAt = now /\ P!InEntry(e) = P!subtreeIds(docs, id)
  BY <1>1, Assumed, P!DeletedEntryHolds
<1>3. ~ C!Expired(e, now)
  BY <1>1, <1>2, TrashTTLAssumption DEF C!Expired
<1> HIDE DEF e
<1>4. /\ DOMAIN trash' = DOMAIN trash \cup {Len(trash) + 1}
      /\ trash'[Len(trash) + 1] = e
      /\ \A i \in DOMAIN trash : trash'[i] = trash[i]
  BY <1>1, Assumed, P!Appending DEF e
<1>5. DOMAIN docs \ P!InEntry(e) \subseteq DOMAIN docs'
  <2>1. DOMAIN P!Without(docs, P!subtreeIds(docs, id)) = DOMAIN docs \ P!subtreeIds(docs, id)
    BY <1>1, Assumed, P!WithoutIsCatalogue
  <2>2. QED
    BY <1>2, <2>1
<1>6. DOMAIN docs \subseteq DOMAIN docs' \cup C!InEntry(e)
  BY <1>5 DEF P!InEntry, C!InEntry
<1>7. \A i \in DOMAIN trash : i \in DOMAIN trash' /\ trash'[i] = trash[i]
  BY <1>4
<1>8. Len(trash) + 1 \in DOMAIN trash'
  BY <1>4
<1>9. C!Live \cup C!Trashed \subseteq (C!Live \cup C!Trashed)'
  BY <1>4, <1>6, <1>7, <1>8 DEF C!Live, C!Trashed, C!InEntry
<1>10. \A d : Kept(d) => Kept(d)'
  BY <1>3, <1>4, <1>6, <1>7, <1>8 DEF Kept, C!Live, C!InEntry, C!Expired
<1>11. \A k \in DOMAIN trash' :
         C!Expired(trash'[k], now) => \E i \in DOMAIN trash : trash[i] = trash'[k]
  BY <1>3, <1>4
<1>12. QED
  BY <1>9, <1>10, <1>11 DEF Keeps

\* A restore: what the entry held is live, whether the trash is written or not.
LEMMA RestoreKeepsAll ==
  ASSUME P!FaultyInv, NEW i \in DOMAIN trash,
         docs' = P!RestoredDocs(trash[i]),
         \/ P!IsFiltered(trash, DOMAIN trash \ {i}, trash')
         \/ trash' = trash,
         UNCHANGED now
  PROVE  Keeps
<1>1. P!IsCatalogue(docs) /\ trash \in Seq(P!Range(trash))
  BY DEF P!FaultyInv, P!CatalogueHolds, P!TrashHolds
<1>2. DOMAIN docs' = DOMAIN docs \cup C!InEntry(trash[i])
  <2>1. DOMAIN P!Without(docs, P!InEntry(trash[i])) = DOMAIN docs \ P!InEntry(trash[i])
    BY <1>1, Assumed, P!WithoutIsCatalogue
  <2>2. PICK row :
          docs' = P!With(P!Without(docs, P!InEntry(trash[i])),
                         [trash[i].docs EXCEPT ![trash[i].root] = row])
    BY Assumed, P!RestoredDocsHolds
  <2>3. QED
    BY <2>1, <2>2 DEF P!With, P!InEntry, C!InEntry
<1>3. /\ \A j \in DOMAIN trash \ {i} : \E k \in DOMAIN trash' : trash'[k] = trash[j]
      /\ \A k \in DOMAIN trash' : \E j \in DOMAIN trash : trash[j] = trash'[k]
  <2>1. CASE trash' = trash
    BY <2>1
  <2>2. CASE P!IsFiltered(trash, DOMAIN trash \ {i}, trash')
    <3>1. P!Selects(trash, DOMAIN trash \ {i}, trash')
      BY <1>1, <2>2, Assumed, P!Filtering
    <3>2. QED
      BY <3>1 DEF P!Selects
  <2>3. QED
    BY <2>1, <2>2
<1>4. C!Live \cup C!Trashed \subseteq (C!Live \cup C!Trashed)'
  BY <1>2, <1>3 DEF C!Live, C!Trashed, C!InEntry
<1>5. \A d : Kept(d) => Kept(d)'
  BY <1>2, <1>3 DEF Kept, C!Live, C!InEntry, C!Expired
<1>6. QED
  BY <1>3, <1>4, <1>5 DEF Keeps

\* The end of a purge: of the entries only those go that have expired.
LEMMA FinishKeeps ==
  ASSUME P!FaultyInv, PurgesHold, NEW r \in Requests, P!FinishPurge(r)
  PROVE  /\ UNCHANGED <<docs, now>>
         /\ \A id : Kept(id) => Kept(id)'
         /\ \A k \in DOMAIN trash' : \E i \in DOMAIN trash : trash[i] = trash'[k]
         /\ \A i \in DOMAIN trash :
              ~ C!Expired(trash[i], now) => \E k \in DOMAIN trash' : trash'[k] = trash[i]
<1> DEFINE keep == {i \in DOMAIN trash : ~ P!Expired(trash[i], purging[r].at)}
<1>1. P!IsFiltered(trash, keep, trash') /\ UNCHANGED <<docs, now>> /\ ~ P!Idle(r)
  BY DEF P!FinishPurge
<1>2. purging[r].at = now
  BY <1>1 DEF PurgesHold, P!Idle, P!NoPurge, C!NoPurge
<1>3. keep = {i \in DOMAIN trash : ~ C!Expired(trash[i], now)}
  BY <1>2 DEF P!Expired, C!Expired
<1>4. P!Selects(trash, keep, trash')
  <2>1. keep \in SUBSET DOMAIN trash /\ trash \in Seq(P!Range(trash))
    BY DEF P!FaultyInv, P!TrashHolds
  <2> HIDE DEF keep
  <2>2. QED
    BY <1>1, <2>1, Assumed, P!Filtering
<1> HIDE DEF keep
<1>5. /\ \A k \in DOMAIN trash' : \E i \in DOMAIN trash : trash[i] = trash'[k]
      /\ \A i \in keep : \E k \in DOMAIN trash' : trash'[k] = trash[i]
  BY <1>3, <1>4 DEF P!Selects
<1>6. \A id : Kept(id) => Kept(id)'
  BY <1>1, <1>3, <1>5 DEF Kept, C!Live, C!InEntry, C!Expired
<1>7. QED
  BY <1>1, <1>3, <1>5, <1>6

-----------------------------------------------------------------------------
(* The steps *)

\* The files as they are, while the catalogue keeps what it has to keep.
LEMMA CatalogueStepKeeps ==
  ASSUME SInv, Keeps, P!FaultyInv', UNCHANGED <<fileVars, purging, now>>,
         faults' \in Nat
  PROVE  SInv'
<1>1. F!TypeOK' /\ SavesHold' /\ UploadsHold'
  BY DEF SInv, F!TypeOK, SavesHold, UploadsHold, Keeps, fileVars, F!Recorded
<1>2. RecordsWhole'
  BY DEF SInv, RecordsWhole, Keeps, fileVars, F!RecordHasBytes, F!Recorded
<1>3. PurgesHold'
  <2>1. SUFFICES ASSUME NEW r \in Requests, purging[r] # C!NoPurge
                 PROVE  /\ purging[r].at = now
                        /\ \A i \in DOMAIN trash' : C!Expired(trash'[i], now) =>
                             C!InEntry(trash'[i]) \subseteq purging[r].ids
                        /\ \A f \in F!Recorded :
                             index[f] \in purging[r].ids => Kept(index[f])'
    BY DEF PurgesHold, fileVars, C!NoPurge, C!Expired, C!InEntry, F!Recorded
  <2>2. QED
    BY <2>1 DEF SInv, PurgesHold, Keeps, fileVars
<1>4. QED
  BY <1>1, <1>2, <1>3 DEF SInv

\* A purge that starts: the records of the files of the ids it takes are gone
\* with the same step.
LEMMA PurgeStarts ==
  ASSUME SInv, Keeps, P!FaultyInv', NEW r \in Requests, C!Idle(r),
         C!StartPurge(r, trash'), F!Purge(r, purging'[r].ids), UNCHANGED now
  PROVE  SInv'
<1> DEFINE taken == F!OwnedBy(purging'[r].ids)
<1>1. purging \in [Requests -> P!Purges] /\ purging' \in [Requests -> P!Purges]
  BY DEF SInv, P!FaultyInv, P!RequestsHold
<1>2. /\ purging'[r].ids = UNION {C!InEntry(trash'[i]) :
                                   i \in {j \in DOMAIN trash' : C!Expired(trash'[j], now)}}
      /\ purging'[r] # C!NoPurge => purging'[r].at = now
      /\ \A q \in Requests \ {r} : purging'[q] = purging[q]
  BY <1>1 DEF C!StartPurge, C!Idle, C!NoPurge
<1>3. /\ F!Recorded' = F!Recorded \ taken
      /\ \A f \in F!Recorded' : index'[f] = index[f]
      /\ unlinks' = [unlinks EXCEPT ![r] = taken]
      /\ UNCHANGED <<bytes, saves, faults>>
  BY DEF F!Purge, F!Restrict, F!Recorded
<1>4. taken \subseteq F!Recorded /\ \A f \in F!Recorded \ taken : index[f] \notin purging'[r].ids
  BY DEF F!OwnedBy
<1>5. F!TypeOK'
  <2>1. PICK S \in SUBSET Files : index \in [S -> F!Owners]
    BY DEF SInv, F!TypeOK
  <2>2. index' \in [S \ taken -> F!Owners]
    BY <2>1 DEF F!Purge, F!Restrict, F!Recorded
  <2>3. taken \in SUBSET Files
    BY <2>1, <1>4 DEF F!Recorded
  <2> HIDE DEF taken
  <2>4. unlinks' \in [Requests -> SUBSET Files]
    BY <1>3, <2>3 DEF SInv, F!TypeOK
  <2>5. QED
    BY <1>3, <2>1, <2>2, <2>4 DEF SInv, F!TypeOK
<1> HIDE DEF taken
<1>6. RecordsWhole'
  BY <1>3, <1>4 DEF SInv, RecordsWhole, Keeps, F!RecordHasBytes, F!Recorded
<1>7. SavesHold'
  <2>1. \A q \in Requests : unlinks'[q] = IF q = r THEN taken ELSE unlinks[q]
    BY <1>3 DEF SInv, F!TypeOK
  <2>2. QED
    BY <1>3, <1>4, <2>1 DEF SInv, SavesHold, F!Recorded
<1>8. UploadsHold'
  BY <1>3 DEF SInv, UploadsHold, Keeps
<1>9. PurgesHold'
  <2>1. SUFFICES ASSUME NEW q \in Requests, purging'[q] # C!NoPurge
                 PROVE  /\ purging'[q].at = now
                        /\ \A i \in DOMAIN trash' : C!Expired(trash'[i], now) =>
                             C!InEntry(trash'[i]) \subseteq purging'[q].ids
                        /\ \A f \in F!Recorded' :
                             index'[f] \in purging'[q].ids => Kept(index[f])'
    BY DEF PurgesHold, C!NoPurge, C!Expired, C!InEntry, F!Recorded
  <2>2. CASE q = r
    BY <1>2, <1>3, <1>4, <2>1, <2>2
  <2>3. CASE q # r
    <3>1. purging'[q] = purging[q]
      BY <1>2, <2>3
    <3>2. QED
      BY <1>3, <2>1, <3>1 DEF SInv, PurgesHold, Keeps
  <2>4. QED
    BY <2>2, <2>3
<1>10. QED
  BY <1>5, <1>6, <1>7, <1>8, <1>9 DEF SInv

\* The end of a purge: what it drops from the trash it has taken the records of.
LEMMA PurgeEnds ==
  ASSUME SInv, P!FaultyInv', NEW r \in Requests, F!Purged(r), C!FinishPurge(r),
         UNCHANGED fileVars
  PROVE  SInv'
<1>1. /\ UNCHANGED <<docs, now>>
      /\ \A id : Kept(id) => Kept(id)'
      /\ \A k \in DOMAIN trash' : \E i \in DOMAIN trash : trash[i] = trash'[k]
      /\ \A i \in DOMAIN trash :
           ~ C!Expired(trash[i], now) => \E k \in DOMAIN trash' : trash'[k] = trash[i]
  BY FinishKeeps, SameFinishPurge DEF SInv
<1>2. /\ purging \in [Requests -> P!Purges]
      /\ purging' = [purging EXCEPT ![r] = C!NoPurge]
      /\ purging[r] # C!NoPurge
      /\ UNCHANGED faults
  BY DEF C!FinishPurge, C!Idle, SInv, P!FaultyInv, P!RequestsHold
<1>3. F!TypeOK' /\ SavesHold' /\ UploadsHold'
  BY <1>1, <1>2 DEF SInv, F!TypeOK, SavesHold, UploadsHold, fileVars, F!Recorded
<1>4. RecordsWhole'
  <2>1. SUFFICES ASSUME NEW f \in F!Recorded, index[f] # NoDocument
                 PROVE  Kept(index[f])
    <3>1. \A id : Kept(id) => id \in (C!Live \cup C!Trashed)'
      BY <1>1 DEF Kept, C!Live, C!Trashed, C!InEntry
    <3>2. QED
      BY <3>1 DEF SInv, RecordsWhole, fileVars, F!RecordHasBytes, F!Recorded
  <2>2. index[f] \in C!Live \cup C!Trashed
    BY <2>1 DEF SInv, RecordsWhole
  <2>3. CASE \E i \in DOMAIN trash :
               index[f] \in C!InEntry(trash[i]) /\ C!Expired(trash[i], now)
    BY <1>2, <2>1, <2>3 DEF SInv, PurgesHold
  <2>4. QED
    BY <2>2, <2>3 DEF Kept, C!Trashed
<1>5. PurgesHold'
  <2>1. SUFFICES ASSUME NEW q \in Requests, purging'[q] # C!NoPurge
                 PROVE  /\ purging'[q].at = now
                        /\ \A i \in DOMAIN trash' : C!Expired(trash'[i], now) =>
                             C!InEntry(trash'[i]) \subseteq purging'[q].ids
                        /\ \A f \in F!Recorded :
                             index[f] \in purging'[q].ids => Kept(index[f])'
    BY <1>1 DEF PurgesHold, fileVars, C!NoPurge, C!Expired, C!InEntry, F!Recorded
  <2>2. purging'[q] = purging[q]
    BY <1>2, <2>1
  <2>3. QED
    BY <1>1, <2>1, <2>2 DEF SInv, PurgesHold, fileVars
<1>6. QED
  BY <1>3, <1>4, <1>5 DEF SInv

\* A step of the file store alone.
LEMMA FileStepKeeps ==
  ASSUME SInv, P!FaultyInv', UNCHANGED catalogueVars, F!TypeOK', SavesHold',
         \* a record that comes has its bytes and comes from an upload under way
         F!RecordHasBytes',
         \A f \in F!Recorded' :
           \/ f \in F!Recorded /\ index'[f] = index[f]
           \/ index'[f] = NoDocument \/ Kept(index[f])',
         UploadsHold'
  PROVE  SInv'
<1>1. \A id : Kept(id) <=> Kept(id)'
  BY DEF Kept, catalogueVars, C!Live, C!InEntry, C!Expired
<1>2. \A id : Kept(id) => id \in C!Live \cup C!Trashed
  BY DEF Kept, C!Trashed
<1>3. RecordsWhole'
  BY <1>1, <1>2 DEF SInv, RecordsWhole, catalogueVars, C!Live, C!Trashed, C!InEntry, F!Recorded
<1>4. PurgesHold'
  <2>1. SUFFICES ASSUME NEW r \in Requests, purging[r] # C!NoPurge,
                        NEW f \in F!Recorded', index'[f] \in purging[r].ids
                 PROVE  Kept(index[f])'
    BY DEF SInv, PurgesHold, catalogueVars, C!NoPurge, C!Expired, C!InEntry, F!Recorded
  <2>2. purging \in [Requests -> P!Purges]
    BY DEF SInv, P!FaultyInv, P!RequestsHold
  <2>3. index'[f] # NoDocument
    BY <2>1, <2>2, NoDocumentAssumption DEF P!Purges
  <2>4. CASE f \in F!Recorded /\ index'[f] = index[f]
    BY <1>1, <2>1, <2>4 DEF SInv, PurgesHold
  <2>5. QED
    BY <2>1, <2>3, <2>4
<1>5. QED
  BY <1>3, <1>4 DEF SInv

\* The catalogue as it is.
LEMMA StillFaultyInv ==
  ASSUME SInv, UNCHANGED catalogueVars, F!TypeOK'
  PROVE  P!FaultyInv'
BY Assumed, P!FaultyInvUntouched DEF SInv, catalogueVars, F!TypeOK

\* A save that moves on: what its stage says of its bytes and its record.
LEMMA SaveMoves ==
  ASSUME SInv, UNCHANGED <<catalogueVars, unlinks>>, NEW f \in Files,
         NEW save \in [stage : F!Stages, owner : F!Owners],
         saves' = [saves EXCEPT ![f] = save],
         saves[f].stage # "saved", saves[f].stage # "failed",
         \/ index' = index
         \/ /\ saves[f].stage = "landed" /\ save.stage = "saved"
            /\ save.owner = saves[f].owner
            /\ index' = [g \in F!Recorded \cup {f} |-> IF g = f THEN save.owner ELSE index[g]],
         \/ bytes' = bytes /\ save.stage # "landed"
         \/ bytes' = bytes \cup {f}
         \/ bytes' = bytes \ {f} /\ save.stage = "failed",
         save.stage \in {"writing", "landed"} => save.owner = NoDocument \/ Kept(save.owner),
         save.stage = "saved" => index' # index,
         faults' \in Nat
  PROVE  SInv'
<1>1. /\ saves' \in [Files -> [stage : F!Stages, owner : F!Owners]]
      /\ saves'[f] = save
      /\ \A g \in Files \ {f} : saves'[g] = saves[g]
  BY DEF SInv, F!TypeOK
<1>2. PICK S \in SUBSET Files : index \in [S -> F!Owners]
  BY DEF SInv, F!TypeOK
<1>3. /\ f \notin F!Recorded
      /\ F!Recorded \subseteq F!Recorded' /\ F!Recorded' \subseteq F!Recorded \cup {f}
      /\ \A g \in F!Recorded : index'[g] = index[g]
      /\ f \in F!Recorded' => /\ saves[f].stage = "landed" /\ save.stage = "saved"
                              /\ index'[f] = saves[f].owner
                              /\ f \in bytes
  BY <1>2 DEF SInv, SavesHold, F!Recorded
<1>4. F!TypeOK'
  <2>1. \E T \in SUBSET Files : index' \in [T -> F!Owners]
    <3>1. CASE index' = index
      BY <1>2, <3>1
    <3>2. CASE index' = [g \in F!Recorded \cup {f} |-> IF g = f THEN save.owner ELSE index[g]]
      <4>1. index' \in [S \cup {f} -> F!Owners]
        BY <1>2, <3>2 DEF F!Recorded
      <4>2. S \cup {f} \in SUBSET Files
        BY <1>2
      <4>3. QED
        BY <4>1, <4>2
    <3>3. QED
      BY <3>1, <3>2
  <2>2. QED
    BY <1>1, <2>1 DEF SInv, F!TypeOK
<1>5. P!FaultyInv'
  BY <1>4, StillFaultyInv
<1>6. \A g \in F!Recorded \cup {f} : g \in Files
  BY <1>2 DEF F!Recorded
<1>7. SavesHold'
  <2>1. \A g \in F!Recorded' : saves'[g].stage = "saved"
    BY <1>1, <1>3, <1>6 DEF SInv, SavesHold
  <2>2. \A g \in Files : saves'[g].stage = "landed" => g \in bytes'
    BY <1>1 DEF SInv, SavesHold
  <2>3. \A r \in Requests : \A g \in unlinks'[r] : saves'[g].stage = "saved" /\ g \notin F!Recorded'
    BY <1>1, <1>3 DEF SInv, SavesHold, F!TypeOK
  <2>4. QED
    BY <2>1, <2>2, <2>3 DEF SavesHold, F!Recorded
<1>8. F!RecordHasBytes'
  BY <1>3 DEF SInv, RecordsWhole, F!RecordHasBytes, F!Recorded
<1>9. \A id : Kept(id) <=> Kept(id)'
  BY DEF Kept, catalogueVars, C!Live, C!InEntry, C!Expired
<1>10. UploadsHold'
  <2>1. SUFFICES ASSUME NEW g \in Files, saves'[g].stage \in {"writing", "landed"}
                 PROVE  saves'[g].owner = NoDocument \/ Kept(saves[g].owner)'
    BY DEF UploadsHold
  <2>2. QED
    BY <1>1, <1>9, <2>1 DEF SInv, UploadsHold
<1>11. \A g \in F!Recorded' :
         \/ g \in F!Recorded /\ index'[g] = index[g]
         \/ index'[g] = NoDocument \/ Kept(index[g])'
  <2>1. f \in F!Recorded' => saves[f].owner = NoDocument \/ Kept(saves[f].owner)
    BY <1>3 DEF SInv, UploadsHold
  <2>2. QED
    BY <1>3, <1>9, <2>1
<1>12. UNCHANGED catalogueVars
  OBVIOUS
<1>13. QED
  BY <1>4, <1>5, <1>7, <1>8, <1>10, <1>11, <1>12, FileStepKeeps

LEMMA BeginKeeps ==
  ASSUME SInv, NEW f \in Files, NEW owner \in F!Owners,
         owner = NoDocument \/ owner \in C!Live,
         F!BeginSave(f, owner), UNCHANGED catalogueVars
  PROVE  SInv'
<1>1. [stage |-> "writing", owner |-> owner] \in [stage : F!Stages, owner : F!Owners]
  BY DEF F!Stages
<1>2. QED
  BY <1>1, SaveMoves DEF F!BeginSave, Kept, SInv, F!TypeOK

\* BytesLand, Record, Undo, WriteFails, RecordFails, UndoFails.
LEMMA ResumeKeeps ==
  ASSUME SInv, NEW f \in Files,
         \/ F!ResumeSave(f) \/ F!UndoFails(f) \/ F!WriteFails(f) \/ F!RecordFails(f),
         UNCHANGED catalogueVars
  PROVE  SInv'
<1>1. saves \in [Files -> [stage : F!Stages, owner : F!Owners]] /\ faults \in Nat
  BY DEF SInv, F!TypeOK
<1>2. ASSUME NEW to \in F!Stages
      PROVE  /\ [saves[f] EXCEPT !.stage = to] \in [stage : F!Stages, owner : F!Owners]
             /\ [saves[f] EXCEPT !.stage = to].stage = to
             /\ [saves[f] EXCEPT !.stage = to].owner = saves[f].owner
             /\ [saves EXCEPT ![f].stage = to] = [saves EXCEPT ![f] = [saves[f] EXCEPT !.stage = to]]
  BY <1>1
<1>3. saves[f].stage \in {"writing", "landed"} => saves[f].owner = NoDocument \/ Kept(saves[f].owner)
  BY DEF SInv, UploadsHold
<1>4. f \in F!Recorded => saves[f].stage = "saved"
  BY DEF SInv, SavesHold
<1>5. CASE F!BytesLand(f)
  <2>1. "landed" \in F!Stages
    BY DEF F!Stages
  <2>2. QED
    BY <1>1, <1>2, <1>3, <1>5, <2>1, SaveMoves DEF F!BytesLand, F!Moves
<1>6. CASE F!Record(f)
  <2>1. "saved" \in F!Stages
    BY DEF F!Stages
  <2>2. index' # index
    BY <1>4, <1>6 DEF F!Record, F!Moves, F!Recorded
  <2> DEFINE save == [saves[f] EXCEPT !.stage = "saved"]
  <2>3. /\ save \in [stage : F!Stages, owner : F!Owners]
        /\ save.stage = "saved" /\ save.owner = saves[f].owner
        /\ saves' = [saves EXCEPT ![f] = save]
    BY <1>2, <1>6, <2>1 DEF F!Record, F!Moves
  <2> HIDE DEF save
  <2>4. /\ saves[f].stage = "landed"
        /\ index' = [g \in F!Recorded \cup {f} |-> IF g = f THEN save.owner ELSE index[g]]
        /\ UNCHANGED <<bytes, unlinks, faults>>
    BY <1>6, <2>3 DEF F!Record, F!Moves
  <2>5. QED
    BY <1>1, <2>2, <2>3, <2>4, SaveMoves
<1>7. CASE F!Undo(f) \/ F!UndoFails(f) \/ F!WriteFails(f)
  <2>1. "failed" \in F!Stages
    BY DEF F!Stages
  <2> DEFINE save == [saves[f] EXCEPT !.stage = "failed"]
  <2>2. /\ save \in [stage : F!Stages, owner : F!Owners]
        /\ save.stage = "failed"
        /\ saves' = [saves EXCEPT ![f] = save]
    BY <1>2, <1>7, <2>1 DEF F!Undo, F!UndoFails, F!WriteFails, F!Moves
  <2> HIDE DEF save
  <2>3. /\ saves[f].stage \in {"undoing", "writing"}
        /\ bytes' = bytes \/ bytes' = bytes \ {f}
        /\ UNCHANGED <<index, unlinks>>
        /\ faults' \in Nat
    BY <1>1, <1>7 DEF F!Undo, F!UndoFails, F!WriteFails, F!Moves, F!Fault
  <2>4. QED
    BY <2>2, <2>3, SaveMoves
<1>8. CASE F!RecordFails(f)
  <2>1. "undoing" \in F!Stages
    BY DEF F!Stages
  <2> DEFINE save == [saves[f] EXCEPT !.stage = "undoing"]
  <2>2. /\ save \in [stage : F!Stages, owner : F!Owners]
        /\ save.stage = "undoing"
        /\ saves' = [saves EXCEPT ![f] = save]
    BY <1>2, <1>8, <2>1 DEF F!RecordFails, F!Moves
  <2> HIDE DEF save
  <2>3. /\ saves[f].stage = "landed"
        /\ UNCHANGED <<index, bytes, unlinks>>
        /\ faults' \in Nat
    BY <1>1, <1>8 DEF F!RecordFails, F!Moves, F!Fault
  <2>4. QED
    BY <2>2, <2>3, SaveMoves
<1>9. QED
  BY <1>5, <1>6, <1>7, <1>8 DEF F!ResumeSave

\* An unlink takes the bytes of a file that has no record, or leaves them.
LEMMA UnlinkKeeps ==
  ASSUME SInv, NEW r \in Requests, NEW f, F!Unlink(r, f) \/ F!UnlinkFails(r, f),
         UNCHANGED catalogueVars
  PROVE  SInv'
<1>1. /\ unlinks \in [Requests -> SUBSET Files] /\ faults \in Nat
      /\ f \in unlinks[r]
      /\ unlinks' = [unlinks EXCEPT ![r] = unlinks[r] \ {f}]
      /\ UNCHANGED <<index, saves>>
      /\ bytes' = bytes \/ bytes' = bytes \ {f}
      /\ faults' \in Nat
  BY DEF F!Unlink, F!UnlinkFails, F!Fault, SInv, F!TypeOK
<1>2. /\ saves[f].stage = "saved" /\ f \notin F!Recorded
  BY <1>1 DEF SInv, SavesHold
<1>3. F!TypeOK'
  BY <1>1 DEF SInv, F!TypeOK
<1>4. P!FaultyInv'
  BY <1>3, StillFaultyInv
<1>5. \A q \in Requests : unlinks'[q] \subseteq unlinks[q]
  BY <1>1
<1>6. SavesHold'
  BY <1>1, <1>2, <1>5 DEF SInv, SavesHold, F!Recorded
<1>7. F!RecordHasBytes'
  BY <1>1, <1>2 DEF SInv, RecordsWhole, F!RecordHasBytes, F!Recorded
<1>8. UploadsHold'
  BY <1>1 DEF SInv, UploadsHold, Kept, catalogueVars, C!Live, C!InEntry, C!Expired
<1>9. \A g \in F!Recorded' : g \in F!Recorded /\ index'[g] = index[g]
  BY <1>1 DEF F!Recorded
<1>10. QED
  BY <1>3, <1>4, <1>6, <1>7, <1>8, <1>9, FileStepKeeps

\* A step of the routes is a step of the catalogue.
LEMMA CatalogueStays ==
  ASSUME SInv, P!Next \/ P!Faults
  PROVE  P!FaultyInv' /\ faults' \in Nat
<1>1. P!FaultyInv'
  BY Assumed, P!FaultyStepKeeps DEF SInv
<1>2. QED
  BY <1>1 DEF P!FaultyInv, P!RequestsHold

LEMMA EditKeeps ==
  ASSUME SInv, Edit
  PROVE  SInv'
<1>1. UNCHANGED fileVars
  BY DEF Edit
<1>2. ASSUME NEW name \in TypedNames, NEW parentId \in Ids \cup {NoParent},
             P!createDocument(name, parentId)
      PROVE  SInv'
  BY <1>1, <1>2, CreateGrows, GrowingKeeps, CatalogueStays, CatalogueStepKeeps DEF P!Next
<1>3. ASSUME NEW id \in Ids, NEW name \in TypedNames, P!renameDocument(id, name)
      PROVE  SInv'
  BY <1>1, <1>3, RenameGrows, GrowingKeeps, CatalogueStays, CatalogueStepKeeps DEF P!Next
<1>4. ASSUME NEW id \in Ids, NEW parentId \in Ids \cup {NoParent}, P!moveDocument(id, parentId)
      PROVE  SInv'
  BY <1>1, <1>4, MoveGrows, GrowingKeeps, CatalogueStays, CatalogueStepKeeps DEF P!Next
<1>5. ASSUME NEW id \in Ids, P!restoreDocument(id)
      PROVE  SInv'
  <2>1. PICK i \in DOMAIN trash :
          /\ docs' = P!RestoredDocs(trash[i])
          /\ P!IsFiltered(trash, DOMAIN trash \ {i}, trash')
    BY <1>5 DEF P!restoreDocument
  <2>2. UNCHANGED <<purging, now>>
    BY <1>5 DEF P!restoreDocument
  <2>3. Keeps
    BY <2>1, <2>2, RestoreKeepsAll DEF SInv
  <2>4. QED
    BY <1>1, <1>5, <2>2, <2>3, CatalogueStays, CatalogueStepKeeps DEF P!Next
<1>6. QED
  BY <1>2, <1>3, <1>4, <1>5, SameCreate, SameRename, SameMove, SameRestore DEF Edit

LEMMA DeleteRouteKeeps ==
  ASSUME SInv, NEW r \in Requests, NEW id \in Ids, DeleteRoute(r, id)
  PROVE  SInv'
<1>1. C!DeleteRoute(r, id) /\ F!Purge(r, purging'[r].ids)
  BY DEF DeleteRoute
<1>2. P!DeleteRoute(r, id)
  BY <1>1, SameDeleteRoute
<1>3. P!FaultyInv'
  BY <1>2, CatalogueStays DEF P!Next
<1>4. Keeps
  BY <1>2, AppendKeeps DEF P!DeleteRoute, P!deleteDocument, SInv
<1>5. QED
  BY <1>1, <1>3, <1>4, PurgeStarts DEF C!DeleteRoute

LEMMA AdminPageKeeps ==
  ASSUME SInv, NEW r \in Requests, AdminPage(r)
  PROVE  SInv'
<1>1. C!AdminPage(r) /\ F!Purge(r, purging'[r].ids)
  BY DEF AdminPage
<1>2. P!FaultyInv'
  BY <1>1, SameAdminPage, CatalogueStays DEF P!Next
<1>3. Keeps
  BY <1>1, GrowingKeeps DEF C!AdminPage
<1>4. C!StartPurge(r, trash')
  BY <1>1 DEF C!AdminPage, C!StartPurge
<1>5. QED
  BY <1>1, <1>2, <1>3, <1>4, PurgeStarts DEF C!AdminPage

LEMMA FinishPurgeKeeps ==
  ASSUME SInv, NEW r \in Requests, FinishPurge(r)
  PROVE  SInv'
<1>1. F!Purged(r) /\ C!FinishPurge(r) /\ UNCHANGED fileVars
  BY DEF FinishPurge
<1>2. P!FaultyInv'
  BY <1>1, SameFinishPurge, CatalogueStays DEF P!Next
<1>3. QED
  BY <1>1, <1>2, PurgeEnds

\* No purge and no upload is under way when the clock ticks.
LEMMA TickKeeps ==
  ASSUME SInv, Tick
  PROVE  SInv'
<1>1. C!Tick /\ UNCHANGED <<docs, trash, purging, faults>> /\ UNCHANGED fileVars
  BY DEF Tick, C!Tick
<1>2. P!FaultyInv'
  BY <1>1, SameTick, CatalogueStays DEF P!Next
<1>3. F!TypeOK' /\ SavesHold' /\ RecordsWhole'
  BY <1>1
     DEF SInv, F!TypeOK, SavesHold, RecordsWhole, fileVars, F!Recorded, F!RecordHasBytes,
         C!Live, C!Trashed, C!InEntry
<1>4. PurgesHold'
  BY <1>1 DEF PurgesHold, C!Tick, C!Idle, C!NoPurge
<1>5. UploadsHold'
  BY <1>1 DEF UploadsHold, Tick, F!InFlight, fileVars
<1>6. QED
  BY <1>2, <1>3, <1>4, <1>5 DEF SInv

LEMMA NextKeeps ==
  ASSUME SInv, Next
  PROVE  SInv'
<1>1. ASSUME NEW f \in Files, ChatUpload(f)
      PROVE  SInv'
  BY <1>1, BeginKeeps DEF ChatUpload, F!Owners
<1>2. ASSUME NEW f \in Files, NEW id \in Ids, DocumentUpload(f, id)
      PROVE  SInv'
  BY <1>2, BeginKeeps DEF DocumentUpload, F!Owners
<1>3. ASSUME NEW f \in Files, ResumeSave(f)
      PROVE  SInv'
  BY <1>3, ResumeKeeps DEF ResumeSave
<1>4. ASSUME NEW f \in Files, NEW r \in Requests, Unlink(r, f)
      PROVE  SInv'
  BY <1>4, UnlinkKeeps DEF Unlink
<1>5. CASE SaveError
  BY <1>5, ResumeKeeps DEF SaveError, F!Errors
<1>6. QED
  BY <1>1, <1>2, <1>3, <1>4, <1>5, EditKeeps, DeleteRouteKeeps, AdminPageKeeps,
     FinishPurgeKeeps, TickKeeps
     DEF Next

\* A handler of the catalogue that stops half way.
LEMMA HalfWayKeeps ==
  ASSUME SInv, NEW id \in Ids,
         \/ P!DeleteStopsHalfWay(id)
         \/ P!RestoreStopsHalfWay(id)
         \/ P!DeleteWithoutPurge(id),
         UNCHANGED fileVars
  PROVE  SInv'
<1>1. Keeps /\ UNCHANGED <<purging, now>>
  <2>1. CASE P!DeleteStopsHalfWay(id)
    BY <2>1, AppendKeeps DEF P!DeleteStopsHalfWay, SInv
  <2>2. CASE P!DeleteWithoutPurge(id)
    BY <2>2, AppendKeeps DEF P!DeleteWithoutPurge, P!deleteDocument, SInv
  <2>3. CASE P!RestoreStopsHalfWay(id)
    <3>1. PICK i \in DOMAIN trash : docs' = P!RestoredDocs(trash[i])
      BY <2>3 DEF P!RestoreStopsHalfWay
    <3>2. UNCHANGED <<trash, purging, now>>
      BY <2>3 DEF P!RestoreStopsHalfWay
    <3>3. QED
      BY <3>1, <3>2, RestoreKeepsAll DEF SInv
  <2>4. QED
    BY <2>1, <2>2, <2>3
<1>2. P!FaultyInv' /\ faults' \in Nat
  BY CatalogueStays DEF P!Faults
<1>3. QED
  BY <1>1, <1>2, CatalogueStepKeeps

\* A request that goes without its purge's end, one of them or all.
LEMMA PurgesStop ==
  ASSUME SInv, P!FaultyInv', UNCHANGED <<docs, trash, now, index, bytes>>, faults' \in Nat,
         \A r \in Requests : purging'[r] = purging[r] \/ purging'[r] = C!NoPurge,
         unlinks' \in [Requests -> SUBSET Files],
         \A r \in Requests : unlinks'[r] \subseteq unlinks[r],
         saves' \in [Files -> [stage : F!Stages, owner : F!Owners]],
         \A f \in Files :
           saves'[f] = saves[f] \/ (saves[f].stage # "saved" /\ saves'[f].stage = "failed")
  PROVE  SInv'
<1>1. \E S \in SUBSET Files : index \in [S -> F!Owners]
  BY DEF SInv, F!TypeOK
<1>2. F!TypeOK' /\ F!Recorded \subseteq Files
  BY <1>1 DEF SInv, F!TypeOK, F!Recorded
<1>3. RecordsWhole'
  BY DEF SInv, RecordsWhole, F!RecordHasBytes, F!Recorded, C!Live, C!Trashed, C!InEntry
<1>4. unlinks \in [Requests -> SUBSET Files]
  BY DEF SInv, F!TypeOK
<1>5. SavesHold'
  BY <1>2, <1>4 DEF SInv, SavesHold, F!Recorded
<1>6. PurgesHold'
  BY DEF SInv, PurgesHold, Kept, F!Recorded, C!NoPurge, C!Live, C!InEntry, C!Expired
<1>7. UploadsHold'
  BY DEF SInv, UploadsHold, Kept, C!Live, C!InEntry, C!Expired
<1>8. QED
  BY <1>2, <1>3, <1>5, <1>6, <1>7 DEF SInv

LEMMA FaultsKeep ==
  ASSUME SInv, Faults
  PROVE  SInv'
<1>1. /\ unlinks \in [Requests -> SUBSET Files]
      /\ saves \in [Files -> [stage : F!Stages, owner : F!Owners]]
      /\ purging \in [Requests -> P!Purges]
  BY DEF SInv, F!TypeOK, P!FaultyInv, P!RequestsHold
<1>2. ASSUME NEW id \in Ids,
             C!DeleteStopsHalfWay(id) \/ C!RestoreStopsHalfWay(id) \/ C!DeleteWithoutPurge(id),
             UNCHANGED fileVars
      PROVE  SInv'
  BY <1>2, SameDeleteStops, SameRestoreStops, SameDeleteWithoutPurge, HalfWayKeeps
<1>3. ASSUME NEW r \in Requests, C!PurgeFails(r), UNCHANGED fileVars
      PROVE  SInv'
  <2>1. P!FaultyInv' /\ faults' \in Nat
    BY <1>3, SamePurgeFails, CatalogueStays DEF P!Faults
  <2>2. \A q \in Requests : purging'[q] = purging[q] \/ purging'[q] = C!NoPurge
    BY <1>1, <1>3 DEF C!PurgeFails
  <2>3. /\ UNCHANGED <<docs, trash, now, index, bytes>>
        /\ \A f \in Files :
             saves'[f] = saves[f] \/ (saves[f].stage # "saved" /\ saves'[f].stage = "failed")
        /\ \A q \in Requests : unlinks'[q] \subseteq unlinks[q]
        /\ saves' \in [Files -> [stage : F!Stages, owner : F!Owners]]
        /\ unlinks' \in [Requests -> SUBSET Files]
    BY <1>1, <1>3 DEF C!PurgeFails, fileVars
  <2>4. QED
    BY <2>1, <2>2, <2>3, PurgesStop
<1>4. ASSUME NEW f \in Files, F!UndoFails(f), UNCHANGED catalogueVars
      PROVE  SInv'
  BY <1>4, ResumeKeeps
<1>5. ASSUME NEW r \in Requests, NEW f \in Files, F!UnlinkFails(r, f), UNCHANGED catalogueVars
      PROVE  SInv'
  BY <1>5, UnlinkKeeps
<1>6. CASE C!Restart /\ F!Restart
  <2>1. P!FaultyInv' /\ faults' \in Nat
    BY <1>6, SameRestart, CatalogueStays DEF P!Faults
  <2>2. \A f \in Files :
          saves'[f] = saves[f] \/ (saves[f].stage # "saved" /\ saves'[f].stage = "failed")
    BY <1>1, <1>6 DEF F!Restart, F!InFlight
  <2>3. saves' \in [Files -> [stage : F!Stages, owner : F!Owners]]
    BY <1>1, <1>6 DEF F!Restart, F!Stages
  <2>4. /\ UNCHANGED <<docs, trash, now, index, bytes>>
        /\ \A r \in Requests : purging'[r] = purging[r] \/ purging'[r] = C!NoPurge
        /\ \A r \in Requests : unlinks'[r] \subseteq unlinks[r]
        /\ unlinks' \in [Requests -> SUBSET Files]
    BY <1>1, <1>6 DEF C!Restart, F!Restart
  <2>5. QED
    BY <2>1, <2>2, <2>3, <2>4, PurgesStop
<1>7. QED
  BY <1>2, <1>3, <1>4, <1>5, <1>6 DEF Faults

LEMMA StutterKeeps ==
  ASSUME SInv, UNCHANGED vars
  PROVE  SInv'
<1>1. F!TypeOK' /\ SavesHold' /\ UploadsHold' /\ PurgesHold' /\ RecordsWhole'
  BY DEF SInv, F!TypeOK, SavesHold, UploadsHold, PurgesHold, RecordsWhole, Kept, vars,
         catalogueVars, fileVars, F!Recorded, F!RecordHasBytes, C!Live, C!Trashed, C!InEntry,
         C!Expired, C!NoPurge
<1>2. P!FaultyInv'
  BY <1>1, StillFaultyInv DEF vars
<1>3. QED
  BY <1>1, <1>2 DEF SInv

LEMMA InitHolds ==
  Init => SInv
<1> SUFFICES ASSUME Init PROVE SInv
  OBVIOUS
<1>1. P!FaultyInv
  BY Assumed, SameInit, P!InitHolds DEF Init
<1>2. F!TypeOK
  <2>1. index \in [{} -> F!Owners] /\ {} \in SUBSET Files
    BY DEF Init, F!Init
  <2>2. QED
    BY <2>1 DEF Init, F!Init, F!TypeOK, F!Stages, F!Owners
<1>3. RecordsWhole /\ SavesHold /\ UploadsHold
  BY DEF Init, F!Init, RecordsWhole, SavesHold, UploadsHold, F!Recorded, F!RecordHasBytes
<1>4. PurgesHold
  BY DEF Init, C!Init, PurgesHold
<1>5. QED
  BY <1>1, <1>2, <1>3, <1>4 DEF SInv

\* The invariant of the two stores, whatever stops half way.
LEMMA Invariant ==
  FaultySpec => []SInv
<1>1. SInv /\ [Next \/ Faults]_vars => SInv'
  BY NextKeeps, FaultsKeep, StutterKeeps
<1>2. QED
  BY <1>1, InitHolds, PTL DEF FaultySpec

-----------------------------------------------------------------------------
(* What it is for *)

\* The types of both stores.
THEOREM TypesCorrect ==
  FaultySpec => []TypeOK
<1>1. SInv => TypeOK
  <2>1. P!FaultyInv => P!TypeOK
    BY Assumed, P!FaultyInvHolds
  <2>2. P!TypeOK => C!TypeOK
    BY DEF P!TypeOK, P!IsCatalogue, P!Rows, P!Names, P!Purges, P!IsEntry, P!Range,
           C!TypeOK, C!IsCatalogue, C!Rows, C!Names, C!Purges, C!IsEntry, C!Range
  <2>3. QED
    BY <2>1, <2>2 DEF SInv, TypeOK
<1>2. QED
  BY <1>1, Invariant, PTL

\* file-repository.ts, list, save and purge, and the upload route: wherever a
\* handler stops and whatever interleaves, a record has its bytes, and its
\* document in the catalogue or in the trash.
THEOREM RecordsAlwaysWhole ==
  FaultySpec => []RecordsWhole
<1>1. SInv => RecordsWhole
  BY DEF SInv
<1>2. QED
  BY <1>1, Invariant, PTL

\* documents.ts, purgeExpiredTrash: when the last trace of a document goes, no
\* record of a file of it is left, also when purges overlap restores, uploads
\* and each other and stop half way.
THEOREM EntriesAlwaysGoWithoutFiles ==
  FaultySpec => EntriesGoWithoutFiles
<1>1. SInv /\ SInv' /\ [Next \/ Faults]_vars =>
        [\A id \in C!Trashed :
           id \notin C!Live' \cup C!Trashed' =>
             \A f \in F!Recorded' : index'[f] # id]_vars
  <2> SUFFICES ASSUME SInv, SInv',
                      NEW id \in C!Trashed, id \notin C!Live' \cup C!Trashed',
                      NEW f \in F!Recorded', index'[f] = id
               PROVE  FALSE
    OBVIOUS
  <2>1. id \in Ids
    BY DEF SInv, P!FaultyInv, P!TrashHolds, P!RequestsHold, C!Trashed, C!InEntry, P!InEntry
  <2>2. QED
    BY <2>1, NoDocumentAssumption DEF SInv, RecordsWhole
<1>2. QED
  BY <1>1, Invariant, PTL DEF FaultySpec, EntriesGoWithoutFiles

-----------------------------------------------------------------------------
(* While no handler stops half way *)

\* CatalogueProofs' Inv is kept by every step of the routes.
LEMMA StepKeepsInv ==
  ASSUME P!Inv, SInv', [Next]_vars
  PROVE  P!Inv'
<1>1. faults' \in Nat
  BY DEF SInv, F!TypeOK
<1>2. CASE UNCHANGED catalogueVars
  BY <1>1, <1>2, Assumed, P!InvUntouched DEF catalogueVars
<1>3. CASE P!Next
  BY <1>3, Assumed, P!StepKeeps
<1>4. CASE UNCHANGED vars
  BY <1>2, <1>4 DEF vars
<1>5. CASE Edit
  BY <1>3, <1>5, SameCreate, SameRename, SameMove, SameRestore DEF Edit, P!Next
<1>6. ASSUME NEW r \in Requests, FinishPurge(r) \/ AdminPage(r)
      PROVE  P!Inv'
  BY <1>3, <1>6, SameFinishPurge, SameAdminPage DEF FinishPurge, AdminPage, P!Next
<1>7. ASSUME NEW r \in Requests, NEW id \in Ids, DeleteRoute(r, id)
      PROVE  P!Inv'
  BY <1>3, <1>7, SameDeleteRoute DEF DeleteRoute, P!Next
<1>8. CASE Tick
  BY <1>3, <1>8, SameTick DEF Tick, P!Next
<1>9. ASSUME NEW f \in Files,
             \/ ChatUpload(f)
             \/ \E id \in Ids : DocumentUpload(f, id)
             \/ ResumeSave(f)
             \/ \E r \in Requests : Unlink(r, f)
      PROVE  P!Inv'
  BY <1>2, <1>9 DEF ChatUpload, DocumentUpload, ResumeSave, Unlink
<1>10. CASE SaveError
  BY <1>2, <1>10 DEF SaveError
<1>11. QED
  BY <1>4, <1>5, <1>6, <1>7, <1>8, <1>9, <1>10 DEF Next

\* A purge that starts takes records of documents only whose entry has expired.
LEMMA TakenHaveExpired ==
  ASSUME SInv, P!Inv, Keeps, NEW r \in Requests, C!Idle(r),
         C!StartPurge(r, trash'), F!Purge(r, purging'[r].ids),
         NEW f \in F!Recorded \ F!Recorded'
  PROVE  /\ index[f] \notin C!Live
         /\ \E i \in DOMAIN trash :
              index[f] \in C!InEntry(trash[i]) /\ C!Expired(trash[i], now)
<1>1. purging'[r].ids = UNION {C!InEntry(trash'[i]) :
                               i \in {j \in DOMAIN trash' : C!Expired(trash'[j], now)}}
  <2>1. purging \in [Requests -> P!Purges]
    BY DEF SInv, P!FaultyInv, P!RequestsHold
  <2>2. QED
    BY <2>1 DEF C!StartPurge, C!Idle, C!NoPurge
<1>2. f \in F!OwnedBy(purging'[r].ids)
  BY DEF F!Purge, F!Restrict, F!Recorded
<1>3. PICK k \in DOMAIN trash' : index[f] \in C!InEntry(trash'[k]) /\ C!Expired(trash'[k], now)
  BY <1>1, <1>2 DEF F!OwnedBy
<1>4. PICK i \in DOMAIN trash : trash[i] = trash'[k]
  BY <1>3 DEF Keeps
<1>5. index[f] \notin C!Live
  BY <1>3, <1>4 DEF P!Inv, P!OnePlace, P!InEntry, P!Live, C!InEntry, C!Live
<1>6. QED
  BY <1>3, <1>4, <1>5

\* The steps that start no purge drop no record.
LEMMA RecordsStay ==
  ASSUME SInv, [Next]_vars,
         ~ \E r \in Requests : AdminPage(r) \/ \E id \in Ids : DeleteRoute(r, id)
  PROVE  F!Recorded \subseteq F!Recorded'
<1>1. CASE UNCHANGED index
  BY <1>1 DEF F!Recorded
<1>2. CASE \E f \in Files : F!Record(f)
  BY <1>2 DEF F!Record, F!Recorded
<1>3. CASE \/ Edit \/ Tick \/ UNCHANGED vars
           \/ \E r \in Requests : FinishPurge(r)
  BY <1>1, <1>3 DEF Edit, Tick, FinishPurge, vars, fileVars
<1>4. ASSUME NEW f \in Files,
             \/ ChatUpload(f)
             \/ \E id \in Ids : DocumentUpload(f, id)
             \/ \E r \in Requests : Unlink(r, f)
      PROVE  UNCHANGED index
  BY <1>4 DEF ChatUpload, DocumentUpload, Unlink, F!BeginSave, F!Unlink
<1>5. ASSUME NEW f \in Files, ResumeSave(f)
      PROVE  F!Record(f) \/ UNCHANGED index
  BY <1>5 DEF ResumeSave, F!ResumeSave, F!BytesLand, F!Undo
<1>6. CASE SaveError
  BY <1>1, <1>6 DEF SaveError, F!Errors, F!WriteFails, F!RecordFails
<1>7. QED
  BY <1>1, <1>2, <1>3, <1>4, <1>5, <1>6 DEF Next

\* documents.ts, purgeExpiredTrash: a record goes only while its document is
\* out of the catalogue and in an entry that has expired.
THEOREM OnlyExpiredFilesEverGo ==
  Spec => OnlyExpiredFilesGo
<1>1. Init => SInv /\ P!Inv
  BY InitHolds, Assumed, SameInit, P!InitKeeps DEF Init
<1>2. SInv /\ P!Inv /\ [Next]_vars => (SInv /\ P!Inv)'
  BY NextKeeps, StutterKeeps, StepKeepsInv
<1>3. SInv /\ P!Inv /\ [Next]_vars =>
        [\A f \in F!Recorded \ F!Recorded' :
           /\ index[f] \notin C!Live
           /\ \E i \in DOMAIN trash :
                /\ index[f] \in C!InEntry(trash[i])
                /\ C!Expired(trash[i], now)]_vars
  <2> SUFFICES ASSUME SInv, P!Inv, [Next]_vars, NEW f \in F!Recorded \ F!Recorded'
               PROVE  /\ index[f] \notin C!Live
                      /\ \E i \in DOMAIN trash :
                           /\ index[f] \in C!InEntry(trash[i])
                           /\ C!Expired(trash[i], now)
    OBVIOUS
  <2>1. PICK r \in Requests : AdminPage(r) \/ \E id \in Ids : DeleteRoute(r, id)
    BY RecordsStay
  <2>2. /\ C!Idle(r) /\ C!StartPurge(r, trash') /\ F!Purge(r, purging'[r].ids)
    BY <2>1 DEF AdminPage, DeleteRoute, C!AdminPage, C!DeleteRoute, C!StartPurge
  <2>3. Keeps
    <3>1. CASE AdminPage(r)
      BY <3>1, GrowingKeeps DEF AdminPage, C!AdminPage
    <3>2. ASSUME NEW id \in Ids, DeleteRoute(r, id)
          PROVE  Keeps
      BY <3>2, SameDeleteRoute, AppendKeeps
         DEF DeleteRoute, P!DeleteRoute, P!deleteDocument, SInv
    <3>3. QED
      BY <2>1, <3>1, <3>2
  <2>4. QED
    BY <2>2, <2>3, TakenHaveExpired
<1>4. QED
  BY <1>1, <1>2, <1>3, PTL DEF Spec, OnlyExpiredFilesGo
=============================================================================
