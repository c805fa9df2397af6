------------------------------ MODULE Catalogue ------------------------------
(***************************************************************************)
(* The document catalogue and the host's trash: lib/documents/documents.ts *)
(* as the document routes call it.  Two JSON files, documents.json (docs)  *)
(* and deleted.json (trash), are the whole state; every function reads     *)
(* them afresh, so nothing survives in memory but the requests that wait   *)
(* for a purge.                                                            *)
(*                                                                         *)
(* Node runs one handler at a time up to its next await, so a handler with *)
(* no await in it is one action.  Only the purge awaits.  A write is       *)
(* temp-file-then-rename and happens or does not; a handler with two       *)
(* writes may stop between them.                                           *)
(***************************************************************************)
EXTENDS DocumentTree, TLC

CONSTANTS
  TypedNames, \* the names people type
  Requests,   \* the requests that may wait for a purge at the same time
  TrashTTL,   \* TRASH_TTL_MS, in ticks of the model's clock
  MaxTime,    \* bound: the last tick
  MaxFaults   \* bound: how often a handler is stopped half way

ASSUME TypedNamesAssumption == TypedNames \subseteq Names
ASSUME TrashTTLAssumption == TrashTTL \in Nat \ {0}
ASSUME BoundsAssumption == MaxTime \in Nat /\ MaxFaults \in Nat

VARIABLES
  docs,    \* documents.json: the rows of the live documents
  trash,   \* deleted.json: the entries in file order, oldest append first
  issued,  \* the ids randomUUID has handed out; none comes twice
  purging, \* what each waiting purge works on: the ids it read, its now
  now,     \* the wall clock, Date.now()
  faults   \* how many faults have happened, for MaxFaults

vars == <<docs, trash, issued, purging, now, faults>>

\* A TrashEntry: the document deleted, with everything under it, as it was.
IsEntry(e) ==
  /\ IsCatalogue(e.docs)
  /\ e.root \in DOMAIN e.docs
  /\ e.deletedAt \in Nat

NoPurge == [ids |-> {}, at |-> 0]

\* ids is empty exactly when the request has no purge under way.
Purges == [ids : SUBSET Ids, at : Nat]

TypeOK ==
  /\ IsCatalogue(docs)
  /\ trash \in Seq(Range(trash))
  /\ \A i \in DOMAIN trash : IsEntry(trash[i])
  /\ issued \subseteq Ids
  /\ purging \in [Requests -> Purges]
  /\ now \in Nat
  /\ faults \in Nat

Live == DOMAIN docs

InEntry(e) == DOMAIN e.docs

Trashed == UNION {InEntry(trash[i]) : i \in DOMAIN trash}

-----------------------------------------------------------------------------
(* Pieces of the handlers *)

Idle(r) == purging[r] = NoPurge

Expired(entry, at) == at - entry.deletedAt >= TrashTTL

\* trash.filter(...): s with only the positions in keep, in the same order.
IsFiltered(s, keep, t) ==
  \E position \in [1 .. Cardinality(keep) -> keep] :
    /\ \A j, k \in 1 .. Cardinality(keep) : j < k => position[j] < position[k]
    /\ t = [k \in 1 .. Cardinality(keep) |-> s[position[k]]]

Fresh == Ids \ issued

\* A parent is the root, or a document of the catalogue.
IsPlace(parentId) == parentId = NoParent \/ parentId \in Live

SiblingNames(documents, parentId) ==
  NamesOf(documents, childrenOf(documents, parentId))

\* Mutant: every entry is taken, expired or not.
StartPurgeOfEverything(r, t) ==
  LET ids == UNION {InEntry(t[i]) : i \in DOMAIN t}
  IN  purging' = IF ids = {}
                   THEN purging
                   ELSE [purging EXCEPT ![r] = [ids |-> ids, at |-> now]]

\* Mutant: only the roots of the expired entries are handed on.
StartPurgeOfRoots(r, t) ==
  LET expired == {i \in DOMAIN t : Expired(t[i], now)}
      ids     == {t[i].root : i \in expired}
  IN  purging' = IF ids = {}
                   THEN purging
                   ELSE [purging EXCEPT ![r] = [ids |-> ids, at |-> now]]

\* purgeExpiredTrash up to its await: the ids of the entries of t that are
\* expired now; without one it returns at once.
StartPurge(r, t) ==
  LET expired == {i \in DOMAIN t : Expired(t[i], now)}
      ids     == UNION {InEntry(t[i]) : i \in expired}
  IN  purging' = IF ids = {}
                   THEN purging
                   ELSE [purging EXCEPT ![r] = [ids |-> ids, at |-> now]]

-----------------------------------------------------------------------------
(* The document routes *)

createDocument(name, parentId) ==
  /\ IsPlace(parentId)
  /\ \E id \in Fresh :
       LET unique == uniqueName(name, SiblingNames(docs, parentId))
       IN  /\ docs' = WithOne(docs, id, Row(parentId, unique))
           /\ issued' = issued \cup {id}
  /\ UNCHANGED <<trash, purging, now, faults>>

renameDocument(id, name) ==
  /\ id \in Live
  /\ \A sibling \in childrenOf(docs, docs[id].parent) \ {id} :
       docs[sibling].name # name
  /\ docs' = [docs EXCEPT ![id].name = name]
  /\ UNCHANGED <<trash, issued, purging, now, faults>>

moveDocument(id, parentId) ==
  /\ id \in Live
  /\ IsPlace(parentId)
  /\ ~ wouldCycle(docs, id, parentId)
  /\ LET siblings == childrenOf(docs, parentId) \ {id}
         unique   == uniqueName(docs[id].name, NamesOf(docs, siblings))
     IN  docs' = [docs EXCEPT ![id] = Row(parentId, unique)]
  /\ UNCHANGED <<trash, issued, purging, now, faults>>

\* The entry a delete of id appends to the trash.
DeletedEntry(id) ==
  [root      |-> id,
   docs      |-> Restrict(docs, subtreeIds(docs, id)),
   deletedAt |-> now]

\* Mutant: the catalogue loses only the document itself.
deleteDocumentAlone(id) ==
  /\ id \in Live
  /\ trash' = Append(trash, DeletedEntry(id))
  /\ docs' = Without(docs, {id})

deleteDocument(id) ==
  /\ id \in Live
  /\ trash' = Append(trash, DeletedEntry(id))
  /\ docs' = Without(docs, subtreeIds(docs, id))

\* DELETE /api/documents/:id: the trash is written, then the catalogue, and
\* then the same request purges what has expired.
DeleteRoute(r, id) ==
  /\ Idle(r)
  /\ deleteDocument(id)
  /\ StartPurge(r, trash')
  /\ UNCHANGED <<issued, now, faults>>

\* The first entry of the file whose root is rootId.
IsFirstOf(i, rootId) ==
  /\ trash[i].root = rootId
  /\ \A j \in 1 .. i - 1 : trash[j].root # rootId

\* Mutant: the root keeps its name although a sibling may have taken it.
RestoredAsItWas(entry) ==
  LET kept     == Without(docs, InEntry(entry))
      root     == entry.docs[entry.root]
      parentId == IF root.parent \in DOMAIN kept THEN root.parent ELSE NoParent
  IN  With(kept, [entry.docs EXCEPT ![entry.root] = Row(parentId, root.name)])

\* Mutant: the descendants are forgotten.
RestoredAlone(entry) ==
  LET kept     == Without(docs, InEntry(entry))
      root     == entry.docs[entry.root]
      parentId == IF root.parent \in DOMAIN kept THEN root.parent ELSE NoParent
      unique   == uniqueName(root.name, SiblingNames(kept, parentId))
  IN  WithOne(kept, entry.root, Row(parentId, unique))

\* The catalogue once entry is back in it: the entry's copies replace live
\* ones, and only the root is placed and named anew.
RestoredDocs(entry) ==
  LET kept     == Without(docs, InEntry(entry))
      root     == entry.docs[entry.root]
      parentId == IF root.parent \in DOMAIN kept THEN root.parent ELSE NoParent
      unique   == uniqueName(root.name, SiblingNames(kept, parentId))
  IN  With(kept, [entry.docs EXCEPT ![entry.root] = Row(parentId, unique)])

\* POST /api/workspace/trash/:id/restore: the catalogue is written, then the
\* trash.
restoreDocument(rootId) ==
  /\ \E i \in DOMAIN trash :
       /\ IsFirstOf(i, rootId)
       /\ docs' = RestoredDocs(trash[i])
       /\ IsFiltered(trash, DOMAIN trash \ {i}, trash')
  /\ UNCHANGED <<issued, purging, now, faults>>

\* The host opens /admin, which purges before it reads the trash.
AdminPage(r) ==
  /\ Idle(r)
  /\ StartPurge(r, trash)
  /\ purging' # purging
  /\ UNCHANGED <<docs, trash, issued, now, faults>>

\* purgeFiles has resolved.  The trash is read again, and what had expired at
\* the purge's own now goes.
FinishPurge(r) ==
  /\ ~ Idle(r)
  /\ IsFiltered(trash,
                {i \in DOMAIN trash : ~ Expired(trash[i], purging[r].at)},
                trash')
  /\ purging' = [purging EXCEPT ![r] = NoPurge]
  /\ UNCHANGED <<docs, issued, now, faults>>

\* A tick is days long and a request seconds: none waits across one.
Tick ==
  /\ now < MaxTime
  /\ \A r \in Requests : Idle(r)
  /\ now' = now + 1
  /\ UNCHANGED <<docs, trash, issued, purging, faults>>

-----------------------------------------------------------------------------
(* Faults *)

Fault ==
  /\ faults < MaxFaults
  /\ faults' = faults + 1

\* The delete stops between its two writes: the process dies there, or the
\* second write throws (disk full) and the route answers 500.
DeleteStopsHalfWay(id) ==
  /\ Fault
  /\ id \in Live
  /\ trash' = Append(trash, DeletedEntry(id))
  /\ UNCHANGED <<docs, issued, purging, now>>

RestoreStopsHalfWay(rootId) ==
  /\ Fault
  /\ \E i \in DOMAIN trash :
       /\ IsFirstOf(i, rootId)
       /\ docs' = RestoredDocs(trash[i])
  /\ UNCHANGED <<trash, issued, purging, now>>

\* The purge a delete ends with fails at once (the file index cannot be
\* written): logged, and the entries stay for the next.
DeleteWithoutPurge(id) ==
  /\ Fault
  /\ deleteDocument(id)
  /\ UNCHANGED <<issued, purging, now>>

\* The files are gone but the trash cannot be written: the entries stay.
PurgeFails(r) ==
  /\ Fault
  /\ ~ Idle(r)
  /\ purging' = [purging EXCEPT ![r] = NoPurge]
  /\ UNCHANGED <<docs, trash, issued, now>>

\* The process dies and is started again: the files are as they were, the
\* waiting requests are gone.
Restart ==
  /\ Fault
  /\ purging' = [r \in Requests |-> NoPurge]
  /\ UNCHANGED <<docs, trash, issued, now>>

-----------------------------------------------------------------------------
Init ==
  /\ docs = EmptyCatalogue
  /\ trash = <<>>
  /\ issued = {}
  /\ purging = [r \in Requests |-> NoPurge]
  /\ now = 0
  /\ faults = 0

Next ==
  \/ \E name \in TypedNames, parentId \in Ids \cup {NoParent} :
       createDocument(name, parentId)
  \/ \E id \in Ids, name \in TypedNames : renameDocument(id, name)
  \/ \E id \in Ids, parentId \in Ids \cup {NoParent} :
       moveDocument(id, parentId)
  \/ \E r \in Requests, id \in Ids : DeleteRoute(r, id)
  \/ \E id \in Ids : restoreDocument(id)
  \/ \E r \in Requests : AdminPage(r) \/ FinishPurge(r)
  \/ Tick

Faults ==
  \/ \E id \in Ids :
       \/ DeleteStopsHalfWay(id)
       \/ RestoreStopsHalfWay(id)
       \/ DeleteWithoutPurge(id)
  \/ \E r \in Requests : PurgeFails(r)
  \/ Restart

\* The process runs undisturbed.
Spec == Init /\ [][Next]_vars

\* Handlers may stop half way.
FaultySpec == Init /\ [][Next \/ Faults]_vars
-----------------------------------------------------------------------------
(* Properties *)

\* tree.ts, wouldCycle: no sequence of creates, moves, deletes and restores
\* makes a document its own ancestor.
NoCycle == Acyclic(docs)

\* documents.ts, deleteDocument: a delete takes the whole subtree in one write
\* and a restore never puts a document under one that is gone, so no live
\* document hangs under a missing one.
NoOrphans == ParentsPresent(docs)

\* documents.ts, uniqueName (FR-021-03): two documents in one place never have
\* the same name, however they came to be there: created, renamed, moved,
\* restored with a subtree.
SiblingNamesUnique == NamesUnique(docs)

\* documents.ts, deleteDocument and restoreDocument: while no handler stops half
\* way, a document is in the catalogue or in one trash entry, never in two
\* places.
OnePlace ==
  \A i \in DOMAIN trash :
    /\ InEntry(trash[i]) \cap Live = {}
    /\ \A j \in DOMAIN trash \ {i} :
         InEntry(trash[i]) \cap InEntry(trash[j]) = {}

\* documents.ts, "never in neither": a document leaves both files at once only
\* when it was not live and every trash entry that held it had expired.
NeverLost ==
  [][\A d \in Live \cup Trashed :
       d \notin Live' \cup Trashed' =>
         /\ d \notin Live
         /\ \A i \in DOMAIN trash :
              d \in InEntry(trash[i]) => Expired(trash[i], now)]_vars

\* documents.ts, TrashEntry, "one delete": the files implement the promise of
\* DocumentLife, whatever moves, renames and other deletes come between a
\* delete and its restore.
Life ==
  INSTANCE DocumentLife WITH
    live    <- Live,
    deleted <- {InEntry(trash[i]) : i \in DOMAIN trash},
    created <- issued

KeepsThePromise == Life!Spec

-----------------------------------------------------------------------------
(* Small instances for TLC *)

OneName == {[base |-> "a", suffixes |-> <<>>]}

Symmetry == Permutations(Ids) \cup Permutations(Requests)
=============================================================================
