# RMF-Block: a TLA+ model of the workspace server and its clients

RMF-Block is a block editor that a team hosts on its own machine: a Next.js
server, a WebSocket hub in the same process, JSON files for everything the server
remembers, and an external Yorkie server that merges the documents' contents. This
directory holds TLA+ modules translated from that code, TLC configurations that
check them on small instances, and TLAPS proofs of what matters most for every
instance. Paths below are relative to the repository's root.

Contents: [the system](#the-system), [what is modelled](#what-is-modelled),
[state and actions against the code](#state-and-actions-against-the-code),
[the runs](#the-runs), [bounds](#bounds), [fairness](#fairness),
[what the runs found](#what-the-runs-found), [the proofs](#the-proofs),
[known divergences without a run](#known-divergences-without-a-run),
[what is not modelled](#what-is-not-modelled), [the plan](#the-plan).

## The system

| Component | State | Operations | Hard behaviour | What makes it correct |
|---|---|---|---|---|
| Document tree rules, `lib/documents/tree.ts` | none: pure functions on the catalogue's rows | `childrenOf`, `subtreeIds`, `wouldCycle`, `treeRows` | must end on a file that holds a cycle | a walk returns exactly the subtree, once each, parents first; a move it allows closes no cycle |
| Document catalogue and trash, `lib/documents/documents.ts` and its routes | `documents.json`, `deleted.json` | create, rename, move, delete, restore, purge | two writes per delete and restore; the purge awaits with stale data | a tree with unique sibling names; a document in one place; a delete's group comes back whole or goes whole |
| File store, `lib/files/file-repository.ts` | `index.json`, one file of bytes per record | save, list, find, purge | every disk access is an await; uploads and purges overlap | a record always has bytes; nobody's record is dropped; unrecorded bytes go |
| Session registry and member store, `lib/auth/session-registry.ts`, `member-repository.ts`, `app/join/join-form.tsx` | four maps of sessions and members; `members.json`; the form | join, take over, kick, look up | rollback across four maps; order of displace and overwrite; a form edited while it waits | one live session per member; the maps agree with each other and with the file; nobody is displaced unasked |
| Workspace configuration, `lib/workspace-config.ts` | `workspace.json` | setup, change password, verify | hashing is an await between check and write | set up once; a change replaces what the host asked to replace |
| Yorkie tokens and the authorization webhook, `lib/auth/yorkie-token.ts` | the map from random tokens to sessions and expiry times, in memory | issue, resolve, authorize | a token outlives its session; the session ends, the token expires, the process restarts | only a live session's token is allowed; a refused one stays refused |
| WebSocket hub, `server/ws-hub.mts` | the sockets per session | register, broadcast, close | a session ends between upgrade and registration | no revoked session keeps a socket |
| Chat, `lib/chat`, `app/(workspace)/chat-panel.tsx` | `messages.json`; the panel's list, sends and socket | post, list, backfill, resend | lost answers, reconnection, frames that overlap a backfill | every message is shown once, in order; a resend stores nothing twice |
| Document list in the browser, `document-list.tsx`, `document-actions.tsx` | the rows a client holds; the open dialog | apply an event, refresh, submit | lost and overtaken events | the list converges to the catalogue |
| Attach pool, `lib/documents/attach-pool.ts` | reference count and pending operations per key | acquire, release | released and reacquired while an attach is under way | attached exactly while someone holds it; attach and detach alternate |
| Block document session, `use-block-document.ts`, `editor.tsx`, `text-block.tsx`, `table-block.tsx` | four copies of every text; the composition; undo; uploads | type, compose, split, merge, undo, restore, upload; rows and columns | remote edits under a composition, stale renders, rows that come back | the screen shows the document; no edit is lost or doubled |
| Presence and focus follow, `presence-provider.tsx`, `focus-follow-provider.tsx`, `use-focus-presence.ts`, `ink-overlay.tsx` | the browser's Yorkie client; whom one follows; scroll positions; strokes | activate, share, follow, pause, jump, draw | torn down while activating; navigations of two people; throttled publications | no leaked client; a follower sees page, place and ink of the leader, and is not pulled back |
| Version history, `lib/documents/revisions.ts`, `version-history.tsx` | Yorkie revisions; the panel's pages | list, name, restore | a restore is a sync, a revision and an update | a restore can be taken back; nothing is out of reach |
| Block operations, `lib/blocks` | none: pure functions on block lists | reorder, indent, number, table edits, diff | indices at the boundary | the result equals its reference definition |
| Tabs and window frames, `lib/tabs.ts`, `lib/chat/window-frame.ts`, `floating-views.tsx` | open tabs; frames and stacking order; localStorage | open, close, drag, measure, resize | shared storage, shrinking viewports | a closed tab leads to a tab; no window out of reach |
| Yorkie administration and startup, `lib/yorkie-admin.ts`, `instrumentation.ts` | the webhook's registration, the admin password | register with retry | bounded retry, lost answers, earlier starts that stopped | nobody serves unguarded |

**Who calls whom.** A route handler authenticates against the session registry,
calls one of the stores, and ends with a broadcast through the hub; a browser holds
a list derived from its first render and the broadcasts. A delete, and the host's
opening of `/admin`, call `purgeExpiredTrash`, which calls the file store and waits
for it. The file list asks the catalogue which documents are live. Yorkie asks the
webhook, which asks the registry. The stores share nothing in memory: each reads its
file at the start of a call and writes it at the end. In the browser, one Yorkie client
carries the presence of all and every attached document; the editor and the floating
windows take shares of a document from one pool; the follow, the ink and the scroll
position travel as presence.

**Scheduling.** Node runs one handler at a time until its next `await`. A handler
without an `await` is therefore one indivisible step, and a handler with one is cut
there: whatever it read before may be stale afterwards. `lib/json-file.ts` writes a
temporary file and renames it, so one write happens or does not; two writes in one
handler can be separated by a crash or by a second write that throws. In a browser the
cuts are the awaits, the timers, and React's commits: a handler closes over the render
it came with, which the document may have left behind.

## What is modelled

| Module | Code | What it is |
|---|---|---|
| `Guests` | | the constants and assumptions of everything about guests |
| `Sessions` | `session-registry.ts`, `member-repository.ts` | the four maps and `members.json`, one action per operation |
| `WorkspaceConfig` | `workspace-config.ts` and its two routes | `workspace.json`, every operation cut at its hash |
| `Admission` | the join route, the members route | `Sessions` and `WorkspaceConfig` composed: joins that hash while others join, kick and reconfigure |
| `JoinForm` | `join-form.tsx`, the join route | what a guest is asked before displacing somebody |
| `Hub` | `ws-hub.mts`, the gate in `server/index.mts` | a socket from its upgrade to its close |
| `YorkieTokens` | `yorkie-token.ts` | tokens, what they stand for, the clock |
| `Access` | the join, members, token and webhook routes | `Sessions`, `Hub` and `YorkieTokens` composed: what a session opens and what its end closes |
| `DocumentTree` | `tree.ts`; the naming rule of `documents.ts` | operators on a catalogue: `subtreeIds`, `wouldCycle`, `uniqueName`, and what a tree is |
| `Catalogue` | `documents.ts`, the document routes, `admin/page.tsx`, the restore route | the two files, one action per route |
| `DocumentLife` | what `documents.ts` promises in its comments | the abstract specification `Catalogue` implements |
| `FileStore` | `file-repository.ts` | save and purge, await by await |
| `Storage` | the routes that use both stores | `Catalogue` and `FileStore` composed |
| `SubtreeWalk` | the loop in `subtreeIds` | a state machine with one pass per step, checked against the least set `DocumentTree!subtreeIds` |
| `BlockRules` | `reorder.ts`, `indent.ts`, `list-numbering.ts`, `text-surface.ts`, the patches of `text-block.tsx` | order and kinds of blocks; the arithmetic of one text and its edits |
| `Tables` | `lib/blocks/table.ts` | axes, fragments, patches of a cell |
| `Snapshots` | `document.ts`, `revision-snapshot.ts`, `replaceBlocks` | what a stored array, damaged or not, is read as, and how a snapshot is written back |
| `Anchors` | `lib/focus/anchor.ts`, `lib/focus/ink.ts` | places of a document that survive another layout |
| `Listings` | `treeRows`, `roster.ts`, `occupancy.ts`, `workspace-files.ts`, `chat/links.ts`, `slash-menu.ts`, `paste.ts` | lists joined from several stores; the links of a text, the items of a menu, the blocks of a paste |
| `Rules` | | the pure definitions above, each against a definition of its result; extends `SubtreeWalk` |
| `Editor` | `editor.tsx`, `text-block.tsx`, `use-block-document.ts`, `use-file-upload.ts`, `operations.ts` | one browser editing a document while peers do |
| `TableView` | `table-block.tsx`, the cells of `text-block.tsx` | one table of an open document |
| `YorkieClient` | external | what Yorkie demands of whoever attaches a document |
| `AttachPool` | `attach-pool.ts`, the effect of `use-block-document.ts` | the shared attachments and the mounts that share them |
| `Mirrors` | `useMirroredBlock`, `useDocumentNames` of `floating-views.tsx` | what a floating window shows of a document elsewhere |
| `Versions` | `version-history.tsx`, `revisions.ts` | the panel, its pages, naming and restoring |
| `Chat` | `chat-panel.tsx`, `chat-service.ts`, `chat-repository.ts`, the chat routes | one panel over a socket that drops |
| `DocumentList` | `document-list.tsx`, `document-actions.tsx`, `new-document.tsx` | the list of one browser and the dialogs that change it |
| `PresenceClient` | `presence-provider.tsx` | the one Yorkie connection, mounted and torn down |
| `Follow` | `focus-follow-provider.tsx`, `focus-share.tsx` | whom this browser follows across documents |
| `Scroll` | `use-focus-presence.ts`, `startSharing`, `readBoxes` | the place a share shows, between two scrollers |
| `Ink` | `ink-overlay.tsx`, `lib/focus/ink.ts` | what a presenter draws and what a follower sees |
| `Tabs` | `lib/tabs.ts`, `document-tabs.tsx` | open documents in state, storage and route |
| `Windows` | `floating-views.tsx`, `chat-window.tsx`, `use-frame-gesture.ts`, `window-stack.tsx`, `window-frame.ts` | windows, their drags and their order |
| `Startup` | `instrumentation.ts`, `yorkie-admin.ts` | the registration of the webhook, call by call |
| `Clients` | | `AttachPool`, `Chat`, `PresenceClient`, `Startup` and `Versions`, one to a behaviour, each with its own variables |
| `Browser` | | `DocumentList`, `Mirrors`, `Tabs`, `Follow`, `Scroll`, `Ink`, `Windows`, `Editor` and `TableView`, in the same way |
| `MCRules`, `MCBrowser` | | the instances of `Rules` and `Browser` that TLC checks, with the values a `.cfg` cannot write; the other modules name their symmetry themselves |
| `CatalogueProofs`, `StorageProofs`, `SessionsProofs`, `AdmissionProofs`, `AccessProofs`, `ClientsProofs`, `BrowserProofs` | | lemmas and proofs; those of `SubtreeWalk` are in the module itself |

**`Clients` and `Browser` are many small models in one.** The components of a browser, and the
server's start, share no state in these models. `scenario`, chosen at first and never changed,
says whose steps a behaviour takes, and a property says what one component (or two, where they
answer one question) promises of its own behaviours. That is the disjoint union of the
components' state graphs, and not their product. Each part has variables and constants of its
own, so that theorems can be stated for all of them. `Clients` holds those that talk to a program
that may refuse, be slow or be gone; where a part of it does not move, one of its initial states
stands for the others (`AsStarted`). `Browser` holds those that show what others change or what
the person arranges; where a part of it does not move, it is absent (`Absent`), and `Scenarios`
says which parts there are.

## State and actions against the code

### The server

**Sessions.** `registry` is a record of the registry's four maps, under their own names;
of `lastJoinedAt` only who has a stamp is kept, since the times order a list and nothing
else. `membersFile` is `members.json`. `issued` remembers every id `randomUUID` has handed
out. `join` is the method after the route's checks: the new member is added or the old one
found, the session it displaces is deleted, the new one put in, the file written; in
`JoinUnrecorded` the write throws, and the roll-back takes a newcomer out of all four maps
and leaves a returning member in. `kick` and `Restart` are the rest.

**Admission.** `BeginJoin` is the join route up to `await isWorkspacePassword`, `EndJoin`
everything after it: the 403, the 409 for a displacement nobody confirmed, the full
workspace, the join. `hashing` holds what each waiting request keeps in its local variables,
among them the stored password it read before the await. A setup and a password change are
cut at their hash in the same way (`BeginSetup`, `BeginChange`, `EndStore`).

**JoinForm.** `nickname` is the input, which stays editable; `request` the join under way,
first checked, then handled by the server; `conflict` the nickname the dialog asks about.
`Handled` is the route. Other devices come and go in `OthersCome`.

**Access.** A join and a kick end with `revoke` of the sessions they ended. `Socket` is any
event of one socket: the gate and the upgrade, the callback that registers it, the close.
`cookies` are the sessions a browser may still present, ended ones included. `TokenRoute`
hands out a token to the live session of the cookie or to the host; `Allows` is the
webhook's answer. The end of a session does not touch the tokens: the webhook asks the
registry, and that this is enough is `RefusedForGood`. `given` is what was ever handed out.

**Catalogue.** `docs` is `documents.json`: a function from ids to rows of a parent and
a name. `trash` is `deleted.json`: a sequence of entries, each the root's id, the
deleted rows as they were, and the time. `issued` remembers which ids `randomUUID`
has handed out, since none comes twice. `purging` holds what a request that waits in
`purgeExpiredTrash` keeps in its local variables: the ids it read before the await and
its own `now`. `createDocument`, `renameDocument`, `moveDocument` and `restoreDocument`
are the handlers of their routes, refusals being guards. `DeleteRoute` is the whole
`DELETE` handler up to its await, that is, both writes of `deleteDocument` and the start
of the purge; `FinishPurge` is the rest. `AdminPage` and `FinishPurge` are the admin
page's. A name is a typed base and the list of ` (n)` suffixes it carries, so `uniqueName`
really searches, and a person may type a name that looks like one it made. The order of
`documents.json` is not kept (only `SubtreeWalk` needs it); record-only fields are not.
Five faults can be switched on (`FaultySpec`): a delete or a restore stops between its two
writes, a delete's purge fails at once, the trash cannot be written after the files are
gone, and the process restarts and loses its waiting requests.

**FileStore.** `index` is `index.json`, `bytes` the files on disk, `saves` how far each
upload is, `unlinks` what each purge still has to unlink. A save is three steps (accepted;
the rename lands; the record is written), four when the record cannot be written and the
bytes are removed again. A purge drops the records in one step and unlinks one file per
step. Beside the errors `save` handles, there are swallowed unlink errors and a restart.

**Storage.** Each route that uses both stores is the conjunction of an action of each: the
upload route looks for the document and then begins a save, and nobody looks again when
the bytes have landed; a delete hands the ids of the entries that have expired to the file
store's purge; `FinishPurge` waits until its unlinks are over.

**DocumentLife** knows neither tree nor names nor files: a document is created once; a
delete takes a group of live documents; a group comes back as a whole or expires as a
whole. `Catalogue!Life` maps its `deleted` to the sets of documents in the entries.

**Startup.** `stage` is the call that is next; each call may be refused, or its answer lost
after Yorkie has done it. `yorkie` holds the admin's password and whether Yorkie asks the
webhook, and outlives the process: a start may stop anywhere and the next one finds what it
left. Only in production does a failed registration end the process.

### The pure rules

`Rules` has one behaviour per input. The loop of `subtreeIds` is walked pass by pass, for
every catalogue of four documents, with cycles and missing parents, and must end
(`Terminates`) with exactly the least closed set, no id twice and each after its parent
(`ReturnsSubtree`). `RulesAgree` compares each other definition with what it should return,
said without its loop: `diffRange` with the shortest edit that leads from old to new;
`shiftCaret` and the flushing of queued edits with where each character ends up; the order
after a drop with the order that has the dragged block moved; list numbers with the count of
elder siblings; indent's bound; `treeRows` with the subtree's preorder; cells, axes and
batches of patches of a table with the text they denote; anchors with the box that holds the
place, and the way back within a pixel; rosters, occupants and the file list with the joins
they stand for; the runs and URLs a message is cut into with the message, no bracket or full stop
lost or wrongly kept; the list of shared links with the conversation; the `/` menu with what its
comment promises (whatever the query names comes first, typing on never brings an item back,
and an item stays while an IME composes one of its words); the menu's scroll with what is then in
view; the blocks of a paste with its lines. `RestoreReadsBack` says that a snapshot written over any document is read
back as itself, whatever damage the document or the snapshot had.

### The browser

**Editor.** `doc` is Yorkie's replica, `blocks` React's state, `shown` the blocks of the last
commit, over which the handlers close, `rows` each mounted row's textarea and its
`lastSyncedRef`, `heard` the rows whose handler is registered. `composing` is an open
composition with the remote edits queued behind it. `history` is Yorkie's undo and redo
stacks and `undoFloorRef`; `job` a file picker, upload or dialog that is open. Typing,
composing, splitting, merging, pasting, inserting, moving, deleting, indenting, undo, redo and a
restore are actions that do all their handler does; `Commit` is a render with its effects. A
picker is cancelled (`CancelPicker`), an upload fails (`FailUpload`) or ends after its anchor is
gone (`FinishUpload`, which falls back on the end of the document, where `FinishLink` does
nothing), a dialog is cancelled (`CancelLink`); a pasted address becomes a link above an empty
row (`PasteAddress`); the keys that move the caret or the menu's highlight change nothing here.
A peer inserts, deletes, moves and types; in `SpecWithPeers` one also restores
(`PeerReplaces`), which is one of the findings.

**TableView** is the same for a cell, whose text the document holds in fragments, and whose
row may be deleted and come back before the next commit. An edit of a peer arrives fragment
by fragment; `reconcile`, the mounting of cells and the flush at the end of a composition are
steps of their own.

**AttachPool.** `live` and `tail` are the module's two maps: the entry of a key, with its
count, and the last detach that has not landed. `attachments` says how far the promises of
each attachment are. `runs` are the runs of the editor's effect: mounted, waiting, open,
torn down while waiting (`late`), released. `KeepsClientRules` says that what the pool asks
of Yorkie is a behaviour of `YorkieClient` for every key.

**Mirrors.** `request` is the one read of the catalogue, `feed` the events past it, `names`
what `useDocumentNames` made of both. `runs` are the runs of a window's effect on
a share of its document; `mirror` is what the window shows.

**Versions.** A document is the set of changes it consists of, so that the replica (`here`),
the server's copy (`server`) and every revision can be compared. A version is selected and its
preview read (`Select`, `Previewed`) before it can be restored. `loads` are the page
requests under way, answered in any order. A restore is cut at each await of `withBusy`:
read the revision, sync, record what is there, write.

**Chat.** `stored` is `messages.json`; `feed` are the frames on their way; `backfills` the
history requests and their answers. `pending` are the panel's sends, with the file that may
have been uploaded before the post. `deliver` is a send up to each await, by hand again when
it failed. `merge` is the filter by id and the stable sort by `sentAt`, each message at its rank.
The socket drops at any moment and `Connect` tries again.

**DocumentList.** `feed` are the hub's events, `refreshes` the refreshes they ask for, of
which the first is on its way: Next answers them in order, but what one has read may be older
than an event that is heard before it lands. `lost` remembers that a change was broadcast past
a socket that was not open yet, or had closed: nothing reconnects it.

**PresenceClient.** Each mount of the provider has its own client; `step` says how far its
`setup` is, `torn` which teardowns have run, `server` what Yorkie holds of the client. The
location effect publishes the page.

**Follow.** `current` is the follow in the provider's state, `drawn` the one of the last
render, and `Render` is a render with the effects that it runs: the notices, the follow
that is forgotten, the crossing to the presenter's document or the pause. Navigations land
later, the last one wins. **Scroll** looks into one document: each reader has boxes of its own,
the presenter's position becomes an anchor when the timer fires, and `FollowerRender` is a
render of the follower with the landing of a jump and the follower's effect, whose
`lastScrolledToRef` is `commanded`.

**Ink.** The presence is published whole: `Send` copies what is shown at that moment, `timer`
is the throttle, `feed` the presences on their way, `received` what a follower renders.

**Tabs, Windows.** `Tabs` has what is open in React's state, in the localStorage that other
windows write as well, and in the route. In `Windows` a frame is an
integer rectangle, a ratio a pair; a drag works on the frame it began with while measurements
and resizes may change the saved one.

## The runs

| Run | Question |
|---|---|
| `catalogue` | Do any four documents, created, renamed, moved, deleted, purged and restored in any order, stay a tree (`NoCycle`) with unique names among siblings (`SiblingNamesUnique`), each in one place (`OnePlace`), and do the two files implement `DocumentLife` (`KeepsThePromise`)? Yes. |
| `storage` | With overlapping uploads and purges and writes that fail as the code expects: are files destroyed only for documents that are not live and whose entry has expired (`OnlyExpiredFilesGo`), and do bytes without a record end up recorded or removed (`BytesSettle`)? Yes. |
| `storage_faulty` | With a fault anywhere, a restart included: has a record always its bytes and a document in the catalogue or the trash, although an upload may outlive a delete (`RecordsWhole`); does no document's last trace go while a record of its files is left (`EntriesGoWithoutFiles`)? Yes. |
| `admission` | When joins, setups and password changes hash at the same time, the host kicks, writes fail and the process restarts: do the four maps tell one story (`MapsAgree`), and the same one as `members.json` (`MembersAreDurable`); do members keep apart (`ColorsApart`) and stay who they are (`SameMember`); does a session end only for its member's own confirmed takeover, a kick or a restart (`SessionsEndForAReason`); does only a change replace the password (`PasswordKept`)? Yes. |
| `access` | Is no socket registered under an ended session, whenever the session ends (`NoRevokedSocket`); does a token work when it is given (`GivenTokenWorks`) and never again once refused (`RefusedForGood`)? Yes. |
| `rules` | Do the pure functions return what their reference definitions say (`ReturnsSubtree`, `Terminates`, `RulesAgree`, `RestoreReadsBack`)? Yes, for every input within the bounds. |
| `browser` | In behaviours of one component each: does every copy of a text and of a cell lead to the document (`ShowsTheDocument`); does a composition take nothing from a peer (`CompositionKeepsPeers`), a split, a merge or an upload no character (`TextIsKept`), an undo nothing that was there at the opening (`OpeningIsNotUndone`); do the list and the mirrors catch up (`ViewsCatchUp`); does closing a tab lead to one (`CloseMovesOn`); is a follow joined by choice, not pulled back, and at the presenter's page and place (`FollowsAsChosen`); is the ink that of the presenter (`FollowerSeesTheInk`); is every window within reach (`WindowsReachable`)? Yes, with the exceptions the properties name. |
| `clients` | In the same way, with fairness of each part's own steps: does the pool count who shares and keep to Yorkie's rules (`CountsSharers`, `KeepsClientRules`) and give back what nobody shows (`NothingLeaks`); does the panel show every message once (`ShowsEveryMessage`), store a send once (`StoresOnce`) and recover from a dropped socket (`Recovers`); does a browser's presence settle where it is, or go (`RosterSettles`); can a restore be taken back (`RestoreLeavesATrace`); does nobody serve unguarded (`ServesGuarded`)? Yes. |
| `restore_during_purge`, `peer_restore`, `revision_unreachable`, `join_unasked` | Four claims of the repository that the code breaks; see [below](#what-the-runs-found). |

Every property of a passing run is matched by a plausible bug in the code that breaks it
under the same configuration, kept in the modules as an operator marked `Mutant` just
before the definition it stands in for: a dropped lookup, a stale index written back,
a roll-back that forgets a map, a check that is not repeated after an await.

## Bounds

The server:

- `Ids`: four documents where moves matter (a cycle that two legal moves and a restore
  could close needs two, a move out of a subtree three, a deleted subtree beside a live
  one with children four); two with files, where the tree plays no part.
- `TypedNames`: one typed name; `uniqueName` makes the others.
- `TrashTTL = 1` and `MaxTime` of 1 or 2: an entry is younger than the TTL, exactly
  as old, or (with 2) older. The real tick is days long and a request takes seconds, so
  `Tick` waits until no request is under way; the purge's own `now` is kept all the same.
- `Requests`: one waiting purge, two where two purges may overlap on the same entries.
- `Files`: two, so that two uploads and a purge overlap.
- Guests, `admission`: three nicknames for a cap of two members, so that the workspace is
  full for somebody; two colours, the fewest that two members can tell apart or share;
  four sessions, so that a member is displaced and comes back; two requests that hash at
  the same time, two passwords. `IdsSuffice` holds a join back that would find no unused id.
- Guests, `access`: two members, three sessions, two sockets, two tokens. `MaxTime` is two
  lifetimes of a token: asked, expired, asked again, expired again. More members or sockets
  repeat what these do, and the theorems hold for any number of them.
- `MaxFaults`: one. After a fault the program runs on as usual, so what one fault
  leaves behind meets every later operation.
- `VIEW PlacesOnly`: in `storage_faulty`, states that differ in names alone are one. Names
  decide nothing there: the only guard that reads one refuses a rename, and no property
  of that run mentions one.

The pure rules: texts of up to four letters over two; lists of up to four items of three
depths and two styles; catalogues of up to four documents in `subtreeIds`; tables of two rows, one
column and up to three fragments; layouts of up to three boxes with and without gaps and with a
height of 0; messages and pastes of up to five characters, of which the scheme of a URL and a
marker with its space are one each; menus of two items and queries of up to three letters, with a
final consonant that may yet become an initial and one that may split.

The browser (`Browser.cfg`, with the layouts of `MCBrowser`):

- `editor`: four block ids, texts of two characters, one level of depth, stacks of two, two
  changes of this browser and two of its peers, three in all: a peer's edit before, under
  and after each edit here. `table`: four row and column ids, fragments of two
  characters, two changes here, three of peers, three in all; it was also run with
  four changes in all, two and two.
- `list`: two documents, two edits, two events on their way; `mirrors`: one document, two edits, two runs
  of the window's effect; `tabs`: three documents, four moves; `follow`: one presenter, two
  documents, three presence events, three acts.
- `scroll`: three blocks with heights that differ between the readers (one of height 0), one
  insertion or deletion, five acts: share, stop, scroll, share again and join is the shortest
  history in which an anchor kept from the first share would silence the second. Two
  edits with four acts, six acts, and taller blocks were also run.
- `ink`: two blocks, three points, marks of two segments, a cap of one mark, seven acts, two
  presences on their way. `windows`: two views and the chat, two sizes of the viewport, the
  smaller one smaller than a window's least size, four acts.

The clients (`Clients.cfg`):

- `pool`: three runs over two keys and as many attachments as runs: two share, the third
  comes while the others leave, and the keys do not mix.
- `chat`: one send of this panel, three messages, two faults: a drop and a lost answer, or two of
  either; two sends with one fault were also run. `presence`: three mounts, two pages, three
  navigations.
- `startup`: three attempts per start, three starts, four faults: the password is moved by one
  start, its answer lost, and two more starts meet what is left.
- `versions`: pages of one, two revisions, two changes, one load on its way; three revisions and two loads in
  `revision_unreachable`.

`SYMMETRY` over ids, files, requests, nicknames, sessions, sockets and tokens is used in
runs without liveness properties only. Deadlock is not checked: with every id handed out,
nothing to restore and the clock at its bound, the model may stop, as the program does when
nobody asks anything of it.

## Fairness

`Storage` assumes weak fairness of the steps a handler takes when an await is over: the
bytes land and the record is written (`ResumeSave`), an unlink ends (`Unlink`), a purge
whose unlinks are over finishes (`FinishPurge`). `AttachPool` assumes it of Yorkie's
answers (`Ready` or `Refused`, `Detached`) and of the continuations that wait for them
(`Attach`, `Resume`, `Finish`). `Chat` assumes it of the reconnection (`Connect`, a timer,
and `Open`), of the frames and answers that are on their way (`Receive`, `BackfillHandled`,
`BackfillAnswered`) and of a send's own continuation (`Deliver`), not of the person who
sends again. `PresenceClient` assumes it of the answers to activation and attachment
(`Settle`), of the teardown that waits for them (`Teardown`) and of the location effect
(`Locate`). Node and the browser guarantee this as long as the disk, the network and Yorkie
answer: a settled promise's continuation is run, and nothing withdraws it. `SubtreeWalk`
assumes that a running loop runs on. No fairness is assumed of anything a person does, of a
peer, of faults, nor of time. `Catalogue`, `Admission`, `Access` and the `browser` run assume
none: their properties are about safety.

## What the runs found

1. **A restore that loses files** (`restore_during_purge`). `purgeExpiredTrash` drops the
   file records of an expired entry and awaits the unlinks with the entry still in the
   trash. A restore handled during that await succeeds; the document is live and its
   files are gone, although `file-repository.ts:85` says a restore shows them again. No
   crash is needed.
2. **A peer's restore doubles texts** (`peer_restore`). `version-history.md` says that peers
   converge through the ordinary remote-change path. Only the browser that restores
   raises `restoreCount` and remounts its rows. On a peer, the rows whose ids the restore
   keeps stay, and the fill of the new texts reaches them as an insertion at 0 into the
   text of before: the row shows both, and its next keystroke is a diff against a text
   that the document does not have.
3. **A version out of reach** (`revision_unreachable`). `reload()` of the version panel asks
   for the first page without turning away the answer of a page asked for before. That answer, when it
   comes late, is merged into the new list and decides `oldestReached`: the list claims to
   have reached the oldest version with an older one missing, although
   `revisions.ts:15` says that nothing is unreachable.
4. **A displacement nobody was asked about** (`join_unasked`). The join route says that `force`
   is set only after the guest has seen the takeover warning. The warning names the
   nickname that was sent; the confirmation sends the one that is in the input by then. Who
   corrects the nickname while the password is hashed is asked about the old name and
   displaces whoever is signed in under the new one.

## The proofs

TLAPS checks the following for every set of ids, names, requests, files, nicknames, sessions,
sockets, tokens, keys, runs, attachments, sends, tabs, presenters, blocks and strokes, every TTL,
cap, page size, layout, depth of the undo stack, number of colours and of attempts, and every number
of faults, edits and acts; the assumptions are those named in the modules
(`NoParent` is no id, typed names are names, the TTLs, the number of colours and that of attempts
are positive, member ids and session ids differ, nobody else's message counts as a send of this
panel, there are finitely many documents (`ListAssumption`), a member or document is told from
none (`FollowAssumption`, `TabAssumption`), something can be undone (`EditorAssumption`), a
document has a block at first (`ScrollAssumption`), and the like). TLC evaluates each of them in a run.

| Theorem | Module | Statement |
|---|---|---|
| `TypesCorrect` | `CatalogueProofs` | `FaultySpec => []TypeOK` |
| `OrphansNever` | `CatalogueProofs` | `FaultySpec => []NoOrphans` |
| `CyclesNever` | `CatalogueProofs` | `Spec => []NoCycle` |
| `NamesakesNever` | `CatalogueProofs` | `Spec => []SiblingNamesUnique` |
| `OnePlaceAlways` | `CatalogueProofs` | `Spec => []OnePlace` |
| `PromiseKept` | `CatalogueProofs` | `Spec => KeepsThePromise`, the refinement of `DocumentLife` |
| `UniqueNameIsFree` | `CatalogueProofs` | `uniqueName` returns a name that no sibling has |
| `AlwaysReturnsSubtree` | `SubtreeWalk` | `Spec => []ReturnsSubtree`, for every catalogue, a damaged one included, and every order of its rows |
| `AlwaysBounded` | `SubtreeWalk` | `Spec => []Bounded`: the list never grows beyond the ids there are |
| `TypesCorrect` | `StorageProofs` | `FaultySpec => []TypeOK` |
| `RecordsAlwaysWhole` | `StorageProofs` | `FaultySpec => []RecordsWhole` |
| `EntriesAlwaysGoWithoutFiles` | `StorageProofs` | `FaultySpec => EntriesGoWithoutFiles` |
| `OnlyExpiredFilesEverGo` | `StorageProofs` | `Spec => OnlyExpiredFilesGo` |
| `TypesCorrect` | `AdmissionProofs` | `Spec => []TypeOK` |
| `MapsAlwaysAgree` | `AdmissionProofs` | `Spec => []MapsAgree` |
| `MembersAlwaysDurable` | `AdmissionProofs` | `Spec => []MembersAreDurable` |
| `ColorsAlwaysApart` | `AdmissionProofs` | `Spec => []ColorsApart` |
| `AlwaysTheSameMember` | `AdmissionProofs` | `Spec => SameMember` |
| `SessionsEndOnlyForAReason` | `AdmissionProofs` | `Spec => SessionsEndForAReason` |
| `PasswordAlwaysKept` | `AdmissionProofs` | `Spec => PasswordKept` |
| `SocketsEndWithTheirSession` | `AccessProofs` | `Spec => []NoRevokedSocket` |
| `NeverTwoTokens` | `AccessProofs` | `Spec => []OneTokenEach` |
| `TokensWorkWhenGiven` | `AccessProofs` | `Spec => GivenTokenWorks` |
| `TokensRefusedForGood` | `AccessProofs` | `Spec => RefusedForGood` |
| `AlwaysServesGuarded` | `ClientsProofs` | `Spec => []ServesGuarded` |
| `AlwaysLeavesATrace` | `ClientsProofs` | `Spec => RestoreLeavesATrace` |
| `AlwaysCountsSharers` | `ClientsProofs` | `Spec => []CountsSharers` |
| `AlwaysKeepsClientRules` | `ClientsProofs` | `Spec => KeepsClientRules`, the refinement of `YorkieClient` |
| `AlwaysShowsEveryMessage` | `ClientsProofs` | `Spec => []ShowsEveryMessage` |
| `AlwaysStoresOnce` | `ClientsProofs` | `Spec => []StoresOnce` |
| `ListsCatchUp` | `BrowserProofs` | `Spec => []ViewsCatchUp`, of the document list and of the mirrors |
| `ClosesMoveOn` | `BrowserProofs` | `Spec => CloseMovesOn` |
| `FollowersAreTakenAlong` | `BrowserProofs` | `Spec => []FollowsAsChosen`, of the page and of the place in it |
| `FollowersSeeTheInk` | `BrowserProofs` | `Spec => []FollowerSeesTheInk` |
| `OpeningsStay` | `BrowserProofs` | `Spec => []OpeningIsNotUndone` |
| `KeystrokesAreLeast` | `BrowserProofs` | about `diffRange`, for texts of any length: its edit turns the old text into the new one, and no edit that does so replaces less |

**The argument for documents.** None of these invariants is inductive alone.

- `FaultyInv` is inductive for `FaultySpec`. Types need that the set of taken names is
  finite, or `uniqueName`'s search need not end: only finitely many ids were handed out and
  every id in either file is one of them. `NoOrphans` needs that every document
  of an entry, but for its root, has its parent in the same entry (`IsWhole`): a restore
  brings all of them and looks for the root's parent itself. A restore over
  live copies orphans nobody, since every id it replaces is there again.
- `Inv` adds what a half-done handler breaks: no cycle and unique sibling names, in the
  catalogue and within each entry, and `OnePlace`. The three need each other: by `OnePlace`
  nothing live is in the entry a restore puts back, so by `NoOrphans` nothing live hangs
  under it, so its root's new parent cannot be below it, and its members' names meet only each
  other. A move keeps the tree because the set of the walk is closed: any set of documents
  either lies within the moved subtree, whose new parent is outside, or reaches beyond it and has
  a member whose parent is outside both.
- The refinement needs `Inv` as well: since entries are disjoint and not empty, removing an
  entry removes its group and no other.

Acyclicity is stated as "every nonempty set of documents has a member whose parent is outside
it", the subtree as the least closed set that holds the start; neither needs induction, which
keeps the proofs within reach of the provers.

**The argument for sessions.** `SessionsProofs` shows `Inv`, the invariant of the registry,
to hold of its initial states (`InitHolds`), to be kept by each of its operations, faults
included (`StepKeeps`), and by any step that leaves the registry alone (`StutterKeeps`).
`MapsAgree` alone is not inductive: that a join leaves no map pointing at the displaced
session needs that every id in the maps was handed out, so that a new session or member
collides with none, that the maps of members and of sessions name the same members, and that
no two nicknames have one id. `ColorsApart` needs that the members' colours are counted
through from zero, hence that their number modulo `NumColors` is a colour nobody has until
the colours are used up; the roll-back of a failed write must not leave a gap.

`AdmissionProofs` and `AccessProofs` each take the registry as an instance. Their first
lemmas (`SameJoin`, `SameKick`, ...) show that the registry of the routes and the registry of
`SessionsProofs` are the same, the next that each step of the composition is a registry
operation or leaves it alone. `SessionsEndOnlyForAReason` then follows action by action: a
newcomer displaces nobody, because a fresh member has no session, and a returning member
displaces its own. In `AccessProofs`, `NoRevokedSocket` is kept because `revoke` closes
whatever the step ended and `Register` asks again. `RefusedForGood` needs two facts: a
token's entry never changes its session while the token is remembered (`TokensHold`), and
a session that becomes live has an id never handed out before (`NewSessionsAreFresh`), so no
token can stand for it yet.

`PasswordAlwaysKept` is of the same kind as `SessionsEndOnlyForAReason`: a setup that ends
late finds a workspace that is set up, so that only `EndStore` of a change reaches the
stored password.

**The argument for the walk.** `SubtreeWalk!Inv` is the loop invariant of `subtreeIds`: the list
holds documents below the start, each once and after its parent, and the children of every
document passed are in it. When all are passed the list is closed under children and holds
the start, hence the least such set. What one pass pushes is a bijection onto the new
children, which gives "each once", and with it that the list is never longer than the
catalogue (`AlwaysBounded`).

**The argument for files.** `StorageProofs` takes `CatalogueProofs` as an instance: its `Same...`
lemmas show that the catalogue of the routes is the one proved about, so that `FaultyInv` and
`Inv` hold of it here as well. `RecordsWhole` alone is not inductive. `SInv` adds where each save
and each unlink is (`SavesHold`), what a waiting purge has taken (`PurgesHold`: every entry
that has expired by now, and no record of a document it took is left, unless the document was
restored since) and that the document of an upload under way is live or in an entry that
has not expired (`UploadsHold`). The latter two hold because `Tick` waits until no request is under
way, and so rest on the assumption stated under the bounds: a request takes less than a tick of
the trash's clock. `EntriesAlwaysGoWithoutFiles` then follows step by step, since only
`FinishPurge` and the purge of an admin page take an entry for good.

**The arguments for the clients.** The parts of `Clients` share no variable, so each has an inductive
invariant of its own, which the steps of the others leave alone (`PartsMove`).

- *Startup*, `BootInv`: what each call knows of the password it has to use. A
  start that serves in production has had its `UpdateProject` answered, and one that exits before
  its attempts are used has met a password that is neither the default nor its own, or a
  failure that is reported as a wrong password (`unnoticed`).
- *Versions*, `HistoryInv`: what the reader had confirmed is in the replica, then on the
  server, then in a revision, depending on the call that is next, and nothing takes it from
  there meanwhile.
- *AttachPool*, `PoolInv`: an entry's count is the number of runs that share its attachment
  (`EntriesHold`); whoever is held or waited for is its key's entry (`SharesHold`); the last
  detach of a key is the only one that has not landed, whoever waits waits for it, and
  whoever is attached has no detach before it (`DetachesHold`); a run holds its attachment from
  acquire to release (`RunsHold`). The refinement rests on `OneAsked`: of one key, at most
  one attachment is attaching, attached or detaching. `StatusOf` chooses that one, and each
  step of the pool changes the status of one key as `YorkieClient` allows, or of none.
- *Chat, what is shown*, `PanelInv`: a message of the store is shown or on its way to this browser
  (`Reaches`), but for those that an answer of this socket's history request brings; that a
  socket is registered by the hub before the history is read is what makes the two overlap.
  `MergeOrders` shows that the filter and the stable sort keep every message once and in order, from
  `SortedOrders`: the ranks of entries that differ are a bijection.
- *Chat, what is stored*, `SendInv`: the messages and files of a send are as many as the answers
  that were lost, those its owner knows of and those whose answer is under way (`PostDue`,
  `FileDue`).

**The arguments for the browser.** `ComponentMoves` says that the variables of a component change
only in its own behaviours, as its `Next` says; each part then has an inductive invariant.

- *The list*, `ListInv`: what the hub has broadcast and what has been asked for determine the rows.
  With no event on its way and none that went past the socket, the last refresh to be read holds the
  catalogue, or is yet to be read; since only the first refresh is under way, the last to land
  wins. That the events of one write say what the write did (`WrittenKeeps`, `RestoredKeeps`)
  is `BroadcastKeeps` for each route.
- *The mirrors*, `NamesInv` and `RunsInv`. A name may arrive by the one read or by an event, in either
  order. Of a document, the last event on its way has the name the catalogue has; one about which
  nothing is on its way has been heard or is as it was when it was read. The merge lets an event win
  over the read, which is why the invariant speaks of `names` before the answer as well. `RunsInv`
  is that of the effects: one run is live, and it shows what it acquired.
- *The tabs*, `TabInv`: what is open are ids, each once, and the active one, once the route's
  document was opened, is the route's. Whatever another window leaves in the storage, `parseTabs` makes
  ids of it. `CloseTab`, `MoveTab` and `OpenTab` say what each operation keeps; `FilterKeeps` is
  the fact about filters they need, from `PlacesAreNumbered` (as `SortedOrders` above, without
  induction over the sequence). That a close leads to a tab needs the active document to be among
  those shown, which is what `TabInv` and the route's effect give.
- *The follow*, `FollowInv`: a running follow, as of the last render, was taken to its presenter's
  document by a navigation that stands (`FollowTaken`), and only a share that was joined is
  followed (`FollowChosen`). `RenderKeeps` is the one step where the roster, the path and the follow
  meet; everything else changes one of the three.
- *The place*, `SharedInv` and `ViewInv`: what was published is what the presenter's anchor would
  be, unless the timer runs or a scroll is unread; and the follower's last run of the effect
  left the scroller within a pixel of the place it rendered, if the block of the place was there.
  `AnchorIsInABlock` and `BoxIsThere` are the geometry: the anchor of a nonempty layout names
  one of its blocks. They need a document to have a block at first, and that an edit never
  takes the last one.
- *The ink*, `InkInv`: the presence that will be the last to arrive is what the presenter sees,
  unless a publication is scheduled, and what has arrived is what the follower renders. `SentIsLast`
  is the fact about sending, `UnsentKeeps` that about the throttle: a timer is running
  whenever something is drawn and not sent.
- *Undo*, `Floored`: every change of before the opening that is on the undo stack lies at or below
  the floor, and none is on the redo stack. Every action of the editor but undo and redo pushes
  (`PushKeeps`, `RecordedKeeps`, `EditsAreRecorded`), undo takes only above the floor
  (`HistorySteps`), and a stack at its bound loses from the bottom: the floor stays and what
  the stack keeps sinks, which leaves it below the floor still.

- *The keystroke*, `KeystrokesAreLeast`: `LongestExists` says that the longest common beginning and
  the longest common end there are exist, `CommonEnds` what they mean place by place, `EndsJoin` that
  what lies between is the edit. An edit that left more alone would leave a common end that is
  longer than the longest, or one that overlaps the beginning (`diffRange` stops where they meet).

TLC checked `PoolInv`, `PanelInv`, `SendInv` and the like as invariants of small instances before
they were proved.

**Theorems beside the runs.** `OrphansNever`, `NeverTwoTokens`, `UniqueNameIsFree`,
`AlwaysBounded`, the `TypesCorrect` of `AdmissionProofs` and `StorageProofs` and
`KeystrokesAreLeast` state facts that no run checks under their own names. All but the last are what
the other proofs rest on; the last is about an operator, which `RulesAgree` checks on short texts
only.

**Model-checked only.** Liveness (`BytesSettle`, `Terminates`, `NothingLeaks`, `Recovers`,
`RosterSettles`), which is out of the provers' reach with fairness; of `Terminates`, the theorem
`AlwaysBounded` is the reason. `RulesAgree` and `RestoreReadsBack`: what a recursive
function or a fold computes needs induction over its data, which is out of reach as well, so
`Tables`, `Snapshots`, `Anchors`, `Listings` and `BlockRules` are checked over bounded inputs.
`ShowsTheDocument` and `CompositionKeepsPeers` for the same reason: the edits queued under a
composition, and the fragments of a cell, are applied by folds of splices, and that two orders of
them lead to one text is an induction over the queue. `TextIsKept` counts characters in a bag, a
sum over the blocks. `WindowsReachable` is out of reach twice over. Reading the stored views back is a fold
with an accumulator. And the code keeps real-number ratios where the model has integers in steps,
with quotients rounded down: after enough drags of a flat window the model's content could come
down to nothing, which the code's does not. The instance of the run is fine enough for the
drags it allows; for every value of the constants the statement would be one about the
rounding of the model.

## Known divergences without a run

Read or met in the models, each too narrow, or too visible in one line, for a run of its own. Where
one of them touches a property, the property names the exception.

*The server.*

- The gate of an upgrade lets whoever presents the host secret through, but hands on the
  session of the cookie beside it; the hub refuses to register under a session that has
  ended, so the host of a browser that once was a guest's gets no live list
  (`server/index.mts:75`).
- A password change that begins before the setup and ends after it writes the default name
  over the one that was chosen (`workspace-config.ts:136`).
- A delete that stops after it wrote the trash leaves its documents in both files. Moves and a
  restore can then close a cycle, and the purge of the left-over entry destroys files of live
  documents (`documents.ts:180`, `:234`, `:259`). `NoCycle` and `SiblingNamesUnique`
  are therefore claimed of `Spec`, without faults.
- A create whose answer was lost is sent again by hand and makes a second document
  (`new-document.tsx:51`).
- The second login of a registration gives up at once on an error that may pass
  (`yorkie-admin.ts:156`), and a Yorkie volume that is recreated while the server runs is
  never registered again.
- A confirmed join whose answer is lost leaves its error behind the modal dialog
  (`join-form.tsx:103`); a refused host dialog is closed by the first of two answers
  (`admin-forms.tsx`).

*The editor.*

- Files dropped above the first block are appended at the end (`editor.tsx:737`); the anchor of
  a file picker may be gone when files are picked, and they go to the end (`editor.tsx:1126`).
- An edit typed between the restore's `replaceBlocks` and the commit that remounts the rows is lost;
  a restore is two entries of the undo stack; a restore whose editor is left before the last await
  leaves a before-restore version and no restore.
- A merge decides by the committed order of blocks. A table's pending focus is never cleared.
- A row that is committed but whose handler is registered by a passive effect does not hear
  the edits between the two.

*Presence, follow and windows.*

- `goBack` and a block's address opened in place scroll without pausing a running follow,
  although FR-030-06 says that a follower who moves is paused; the view then stands still
  until the presenter moves by more than a pixel (`focus-follow-provider.tsx:190`, `:200`).
- A presenter's layout that changes without a scroll event (an image that loads, a browser
  without scroll anchoring) leaves the anchor standing; a follower stopped by the end of the content
  is not scrolled on when the content grows; scrolling by keyboard pauses nothing.
- A follower who clicks the page they are on, before the redirect lands, is left behind
  (`focus-follow-provider.tsx:149`); two browsers that join each other's share can
  exchange their pages for ever.
- `inkFrom` takes the first presence with the presenter's id; the roster has gaps while a
  connection is replaced; a failed `deactivate` is swallowed.
- A frame that is fitted or resized under a drag is written back by the drag's end.

*Feeds.* The sockets of the document list, the session watch and the names never reconnect; a
failed backfill of the chat is swallowed until the next drop; Next may discard a refresh that
is pending when a navigation begins.

## What is not modelled

The map of definitions to source covers about three lines in ten of the repository. What it
leaves out:

- `docs/ui/`, the mock-ups of the interface (some 6,000 lines of scripts that the program
  does not load), `scripts/`, `e2e/` and the performance runs, which are not part of the
  running program.
- Markup, styling and wording of the components, which make up most of a `.tsx` file; focus
  and caret placement; drag previews; scrollbars. Their handlers are modelled where they
  change state that another step reads.
- The recognition of markdown shortcuts, slash commands and pasted HTML: a step of `Editor`
  takes any outcome of it. Upload checks, file serving and LAN address discovery keep no state.
- The seed that two browsers write into one empty document at once: which of two sets of a
  root key wins is decided inside Yorkie. The same goes for how Yorkie merges two texts: a
  peer's edit arrives here with positions that are Yorkie's.
- The heartbeat of the block a member is in; that Yorkie may cache the webhook's allowance for
  a second; a detach that fails while the client lives on, after which the pool goes on as if
  it had landed.
- Authentication of the document and file routes is a guard that refuses a request; what a broadcast
  carries appears in the modules of its readers.

Yorkie itself is a separate program: it appears as the answers its clients see.

## The plan

What would be worth doing next, in this order:

1. `WindowsReachable` with ratios as pairs of integers that are compared by cross products, so
   that nothing is rounded; then `Inside` alone, without the folds, from lemmas about `clamp` and
   `fitFloating`.
2. The heartbeat of occupancy against its TTL; the seed, if Yorkie's rule for concurrent
   sets is fixed.
3. A composition of `Follow` and `Scroll`: a presenter who changes the document while a
   publication is due.

New runs ask new questions: where two runs of a component can be one, they are merged first,
so that what is checked stays quick to run again after every change of the code.
