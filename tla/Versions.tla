------------------------------ MODULE Versions ------------------------------
(***************************************************************************)
(* The version history of a document: version-history.tsx and              *)
(* lib/documents/revisions.ts over Yorkie's revisions.  A document is the  *)
(* set of changes it is made of, so that a replica, the server and every   *)
(* revision can be compared; a revision's id is its place, oldest first.   *)
(***************************************************************************)
EXTENDS Integers, Sequences, FiniteSets, SequencesExt

CONSTANTS
  PageSize,     \* REVISION_PAGE_SIZE
  MaxRevisions, \* bounds the revisions
  MaxChanges,   \* bounds the changes of the document
  MaxLoads      \* bounds the list requests on their way

VARIABLES
  here,      \* the changes this browser's replica holds
  server,    \* the changes the server holds
  revisions, \* what the server recorded, each with its kind
  panel,     \* the panel's state, or Closed
  loads,     \* the list requests of this panel that are on their way
  job,       \* the naming or the restore that runs, or NoJob
  changes    \* how many changes exist

vars == <<here, server, revisions, panel, loads, job, changes>>

\* The panel as it is mounted; `listed' says whether `entries' is not null.
Closed == [open |-> FALSE]
Opened == [open |-> TRUE, listed |-> FALSE, entries |-> <<>>, oldest |-> FALSE, loading |-> TRUE,
           selected |-> 0, shown |-> FALSE, prompt |-> "none"]
NoJob == [kind |-> "none"]

Kinds == {"automatic", "before-restore", "named"}

\* toRevisionEntries
Sorted(ids) == SortSeq(ids, >)

PageAt(offset) ==
  LET newest == [i \in DOMAIN revisions |-> Len(revisions) + 1 - i]
  IN SubSeq(newest, offset + 1, Min({offset + PageSize, Len(newest)}))

\* isOldestPage
isOldestPage(page) == Len(page) < PageSize

\* A request, and what the server answered once it has.
Load(offset) == [offset |-> offset, handled |-> FALSE, page |-> <<>>]

-----------------------------------------------------------------------------
(* The document and its server *)

Change ==
  /\ changes < MaxChanges /\ changes' = changes + 1
  /\ \/ here' = here \cup {changes'} /\ UNCHANGED server
     \/ server' = server \cup {changes'} /\ UNCHANGED here
  /\ UNCHANGED <<revisions, panel, loads, job>>

\* What a push and a pull do, whoever asks for them.
Synced == here' = here \cup server /\ server' = here \cup server

Sync ==
  /\ here # server /\ Synced
  /\ UNCHANGED <<revisions, panel, loads, job, changes>>

Recorded(kind) ==
  /\ Len(revisions) < MaxRevisions
  /\ revisions' = Append(revisions, [kind |-> kind, holds |-> server])

\* Yorkie takes one of its own, or a peer names one.
OthersRecord ==
  /\ \E kind \in {"automatic", "named"} : Recorded(kind)
  /\ UNCHANGED <<here, server, panel, loads, job, changes>>

-----------------------------------------------------------------------------
(* The list *)

Open ==
  /\ ~panel.open /\ job = NoJob
  /\ panel' = Opened /\ loads' = <<Load(0)>>
  /\ UNCHANGED <<here, server, revisions, job, changes>>

\* onClose, which a prompt that is open keeps away: answers land nowhere.
Close ==
  /\ panel.open /\ panel.prompt = "none"
  /\ panel' = Closed /\ loads' = <<>>
  /\ UNCHANGED <<here, server, revisions, job, changes>>

Handled ==
  \E i \in DOMAIN loads :
    /\ ~loads[i].handled
    /\ loads' = [loads EXCEPT ![i].handled = TRUE,
                              ![i].page = PageAt(loads[i].offset)]
    /\ UNCHANGED <<here, server, revisions, panel, job, changes>>

\* loadPage's answer, or its failure
Answered ==
  \E i \in DOMAIN loads :
    /\ loads' = RemoveAt(loads, i)
    /\ \/ /\ loads[i].handled
          /\ panel' = [panel EXCEPT
               !.listed = TRUE, !.entries = Sorted(panel.entries \o loads[i].page),
               !.oldest = isOldestPage(loads[i].page), !.loading = FALSE]
       \/ panel' = [panel EXCEPT !.loading = FALSE]
    /\ UNCHANGED <<here, server, revisions, job, changes>>

\* The panel after reload(), which asks for the first page again.
Reloaded == [panel EXCEPT !.listed = FALSE, !.entries = <<>>, !.oldest = FALSE, !.selected = 0,
                          !.shown = FALSE, !.loading = TRUE, !.prompt = "none"]

Reload ==
  /\ panel.open /\ panel.prompt = "none" /\ ~panel.loading
  /\ Len(loads) < MaxLoads
  /\ panel' = Reloaded /\ loads' = Append(loads, Load(0))
  /\ UNCHANGED <<here, server, revisions, job, changes>>

LoadMore ==
  /\ panel.open /\ panel.prompt = "none" /\ ~panel.loading
  /\ panel.listed /\ ~panel.oldest /\ Len(loads) < MaxLoads
  /\ panel' = [panel EXCEPT !.loading = TRUE]
  /\ loads' = Append(loads, Load(Len(panel.entries)))
  /\ UNCHANGED <<here, server, revisions, job, changes>>

\* A revision of the list is selected, whatever its filter leaves of it; the
\* preview of another one starts over.
Select ==
  /\ panel.open /\ panel.prompt = "none"
  /\ \E id \in ToSet(panel.entries) \ {panel.selected} :
       panel' = [panel EXCEPT !.selected = id, !.shown = FALSE]
  /\ UNCHANGED <<here, server, revisions, loads, job, changes>>

\* The preview has read its revision.  One that fails never shows it.
Previewed ==
  /\ panel.open /\ panel.selected # 0 /\ ~panel.shown
  /\ panel' = [panel EXCEPT !.shown = TRUE]
  /\ UNCHANGED <<here, server, revisions, loads, job, changes>>

-----------------------------------------------------------------------------
(* withBusy: createNamed and restore, await by await *)

AskName ==
  /\ panel.open /\ panel.prompt = "none"
  /\ panel' = [panel EXCEPT !.prompt = "name"]
  /\ UNCHANGED <<here, server, revisions, loads, job, changes>>

\* A version that could not be read, or is empty, has its button disabled.
AskRestore ==
  /\ panel.open /\ panel.prompt = "none" /\ panel.shown
  /\ revisions[panel.selected].holds # {}
  /\ panel' = [panel EXCEPT !.prompt = "restore"]
  /\ UNCHANGED <<here, server, revisions, loads, job, changes>>

Cancel ==
  /\ panel.open /\ panel.prompt # "none" /\ job = NoJob
  /\ panel' = [panel EXCEPT !.prompt = "none"]
  /\ UNCHANGED <<here, server, revisions, loads, job, changes>>

\* `asked' is what the document was when its reader confirmed.
Confirm ==
  /\ panel.open /\ panel.prompt # "none" /\ job = NoJob
  /\ job' = [kind |-> panel.prompt, asked |-> here, target |-> panel.selected,
             next |-> IF panel.prompt = "restore" THEN "getRevision" ELSE "sync"]
  /\ UNCHANGED <<here, server, revisions, panel, loads, changes>>

GetRevision ==
  /\ job # NoJob /\ job.next = "getRevision"
  /\ job' = [job EXCEPT !.next = "sync"]
  /\ UNCHANGED <<here, server, revisions, panel, loads, changes>>

\* Mutant: the revision is recorded without a sync before it.
SyncFirstLater ==
  /\ job # NoJob /\ job.next = "sync"
  /\ job' = [job EXCEPT !.next = "createRevision"]
  /\ UNCHANGED <<here, server, revisions, panel, loads, changes>>

SyncFirst ==
  /\ job # NoJob /\ job.next = "sync"
  /\ job' = [job EXCEPT !.next = "createRevision"]
  /\ Synced
  /\ UNCHANGED <<revisions, panel, loads, changes>>

CreateRevision ==
  /\ job # NoJob /\ job.next = "createRevision"
  /\ Recorded(IF job.kind = "name" THEN "named" ELSE "before-restore")
  /\ job' = [job EXCEPT !.next = "finish"]
  /\ UNCHANGED <<here, server, panel, loads, changes>>

\* The answer of createRevision.  onRestore writes where docRef still points
\* to; an editor that was left has none, and nothing is said of it.
Finish ==
  /\ job # NoJob /\ job.next = "finish" /\ job' = NoJob
  /\ IF panel.open
     THEN /\ Len(loads) < MaxLoads
          /\ panel' = Reloaded /\ loads' = Append(loads, Load(0))
     ELSE UNCHANGED <<panel, loads>>
  /\ IF panel.open /\ job.kind = "restore"
     THEN /\ changes' = changes + 1 /\ here' = here \cup {changes'}
     ELSE UNCHANGED <<here, changes>>
  /\ UNCHANGED <<server, revisions>>

\* Any of the awaits is refused: the prompt stays, with an error.
Fail ==
  /\ job # NoJob /\ job' = NoJob
  /\ UNCHANGED <<here, server, revisions, panel, loads, changes>>

\* A follower's browser is taken elsewhere: the editor is torn down, and what
\* awaits goes on without it.
LeaveEditor ==
  /\ panel.open /\ panel' = Closed /\ loads' = <<>>
  /\ UNCHANGED <<here, server, revisions, job, changes>>

Init ==
  /\ here = {1} /\ server = {} /\ changes = 1 /\ revisions = <<>>
  /\ panel = Closed /\ loads = <<>> /\ job = NoJob

Next ==
  \/ Change \/ Sync \/ OthersRecord
  \/ Open \/ Close \/ Handled \/ Answered \/ Reload \/ LoadMore \/ Select \/ Previewed
  \/ AskName \/ AskRestore \/ Cancel \/ Confirm
  \/ GetRevision \/ SyncFirst \/ CreateRevision \/ Finish \/ Fail
  \/ LeaveEditor

Spec == Init /\ [][Next]_vars

-----------------------------------------------------------------------------
(* Properties *)

LeavesATrace ==
  Finish /\ here' # here =>
    \E i \in DOMAIN revisions :
      /\ revisions[i].kind = "before-restore"
      /\ job.asked \subseteq revisions[i].holds

\* By the time a restore writes, everything the document held when its reader
\* confirmed is in a before-restore revision: the restore can be taken back.
RestoreLeavesATrace == [][LeavesATrace]_vars

\* Once the list says it has reached the oldest version, every version from the
\* newest it shows down to the first is in it: nothing is unreachable.
NothingUnreachable ==
  panel.open /\ loads = <<>> /\ panel.oldest =>
    \E k \in 0..Len(revisions) : ToSet(panel.entries) = 1..k
=============================================================================
