---------------------------- MODULE ClientsProofs ----------------------------
(***************************************************************************)
(* Proofs about Clients: each part has an inductive invariant of its own,  *)
(* which its steps keep and which the steps of the other parts cannot      *)
(* touch.                                                                  *)
(***************************************************************************)
EXTENDS Clients, FiniteSetTheorems, TLAPS

\* Every step of a behavior is a step of one part, or of none.
LEMMA PartsMove ==
  ASSUME [Next]_vars
  PROVE  /\ [Pool!Next]_poolVars
         /\ [Chats!Next]_chatVars
         /\ [Boot!Next]_bootVars
         /\ [History!Next]_historyVars
<1> USE DEF vars
<1>1. CASE Next
  <2> HIDE DEF vars
  <2> USE DEF poolVars, chatVars, presenceVars, bootVars, historyVars
  <2>1. UNCHANGED poolVars \/ Pool!Next
    BY <1>1 DEF Next
  <2>2. UNCHANGED chatVars \/ Chats!Next
    BY <1>1 DEF Next
  <2>3. UNCHANGED bootVars \/ Boot!Next
    BY <1>1 DEF Next
  <2>4. UNCHANGED historyVars \/ History!Next
    BY <1>1 DEF Next
  <2> QED BY <2>1, <2>2, <2>3, <2>4
<1>2. CASE UNCHANGED vars
  BY <1>2
<1> QED BY <1>1, <1>2

-----------------------------------------------------------------------------
(* The start of the server *)

Passwords == {Boot!Default, "own", "another"}

\* What a start that is under way knows of Yorkie's password.
BootInv ==
  /\ stage \in Boot!Calls \cup {"off", "serving", "exited"}
  /\ production \in BOOLEAN /\ configured \in {Boot!Default, "own"}
  /\ yorkie \in [password : Passwords, asks : BOOLEAN]
  /\ stage \in Boot!Calls => attempt \in 1..Attempts
  /\ stage = "LogIn as before" => yorkie.password # configured
  /\ stage = "ChangePassword" => configured = "own" /\ yorkie.password = Boot!Default
  /\ stage \in {"LogIn again", "UpdateProject"} => yorkie.password = configured
  /\ stage \in {"LogIn as before", "LogIn again"} => configured = "own"
  /\ Boot!ServesGuarded

LEMMA BootStarts == Boot!Init => BootInv
BY DEF Boot!Init, BootInv, Passwords, Boot!ServesGuarded, Boot!Calls, Boot!Default

\* There is a first attempt, and none after the last.
LEMMA AttemptsCount ==
  /\ 1 \in 1..Attempts
  /\ \A n \in 1..Attempts : IF n >= Attempts THEN n = Attempts ELSE n + 1 \in 1..Attempts
BY AttemptsAssumption

LEMMA BootSteps ==
  ASSUME BootInv, [Boot!Next]_bootVars
  PROVE  BootInv'
<1> USE DEF BootInv, Passwords, Boot!ServesGuarded, Boot!Calls, Boot!Default, Boot!env
<1>1. CASE Boot!Start
  <2>1. UNCHANGED <<production, configured, yorkie>> /\ attempt' = 1
    BY <1>1 DEF Boot!Start
  <2>2. \/ stage' = "LogIn"
        \/ stage' = "exited" /\ configured = Boot!Default
        \/ stage' = "serving" /\ ~production
    BY <1>1 DEF Boot!Start, Boot!MayRegister, Boot!GivenUp
  <2>3. attempt' \in 1..Attempts
    BY <2>1, AttemptsCount
  <2> QED BY <2>1, <2>2, <2>3
<1>2. CASE Boot!WrongPassword
  BY <1>2 DEF Boot!WrongPassword, Boot!Failed, Boot!GivenUp
<1>3. CASE Boot!LoggedIn
  BY <1>3 DEF Boot!LoggedIn
<1>4. CASE Boot!Answered
  BY <1>4 DEF Boot!Answered, Boot!Handled
<1>5. CASE Boot!Unanswered
  <2>1. yorkie' \in [password : Passwords, asks : BOOLEAN]
    BY <1>5 DEF Boot!Unanswered, Boot!Handled
  <2>2. stage \in Boot!Calls /\ attempt \in 1..Attempts /\ UNCHANGED <<production, configured>>
    BY <1>5 DEF Boot!Unanswered
  <2>3. CASE ~(attempt >= Attempts \/ stage = "LogIn as before")
    <3>1. stage' = "LogIn" /\ attempt' = attempt + 1
      BY <1>5, <2>3 DEF Boot!Unanswered, Boot!Failed
    <3>2. attempt' \in 1..Attempts
      BY <2>2, <2>3, <3>1, AttemptsCount
    <3> QED BY <2>1, <2>2, <3>1, <3>2
  <2>4. CASE attempt >= Attempts \/ stage = "LogIn as before"
    <3>1. stage' = (IF production THEN "exited" ELSE "serving") /\ attempt' = attempt
      BY <1>5, <2>4 DEF Boot!Unanswered, Boot!Failed, Boot!GivenUp
    <3>2. stage = "LogIn as before" => unnoticed'
      BY <1>5, Zenon DEF Boot!Unanswered
    <3>3. stage # "LogIn as before" => attempt' = Attempts
      BY <2>2, <2>4, <3>1, AttemptsCount
    <3> QED BY <2>1, <2>2, <3>1, <3>2, <3>3
  <2> QED BY <2>3, <2>4
<1>6. CASE Boot!Stop
  BY <1>6 DEF Boot!Stop
<1>7. CASE UNCHANGED bootVars
  BY <1>7 DEF bootVars
<1> QED BY <1>1, <1>2, <1>3, <1>4, <1>5, <1>6, <1>7 DEF Boot!Next

\* A server that serves in production is one whose webhook Yorkie asks, and no
\* start gives up early (instrumentation.ts, yorkie-admin.ts), for any number
\* of attempts, starts and failures.
THEOREM AlwaysServesGuarded == Spec => []ServesGuarded
<1>1. Init => BootInv
  BY BootStarts DEF Init
<1>2. BootInv /\ [Next]_vars => BootInv'
  BY PartsMove, BootSteps
<1>3. BootInv => ServesGuarded
  BY DEF BootInv, ServesGuarded
<1> QED BY <1>1, <1>2, <1>3, PTL DEF Spec

-----------------------------------------------------------------------------
(* The version history *)

Revision == [kind : History!Kinds, holds : SUBSET Nat]

\* A job's fields, and how far what was confirmed has come: to the replica, to
\* the server, into a revision.
JobInv ==
  job # History!NoJob =>
    /\ job = [kind |-> job.kind, asked |-> job.asked, target |-> job.target,
              next |-> job.next]
    /\ job.next \in {"getRevision", "sync"} => job.asked \subseteq here
    /\ job.next = "createRevision" => job.asked \subseteq there
    /\ job.next = "finish" /\ job.kind # "name" =>
         \E i \in DOMAIN revisions : /\ revisions[i].kind = "before-restore"
                                     /\ job.asked \subseteq revisions[i].holds
    /\ job.next \in {"getRevision", "sync", "createRevision", "finish"}

HistoryInv ==
  /\ here \subseteq Nat /\ there \subseteq Nat /\ changes \in Nat
  /\ revisions \in Seq(Revision)
  /\ JobInv

LEMMA HistoryStarts == History!Init => HistoryInv
BY DEF History!Init, HistoryInv, JobInv

\* Revisions are only added, and a before-restore one is taken of the server.
LEMMA HistoryRecords ==
  ASSUME HistoryInv, NEW kind \in History!Kinds, History!Recorded(kind)
  PROVE  /\ revisions' \in Seq(Revision)
         /\ \A i \in DOMAIN revisions : i \in DOMAIN revisions' /\ revisions'[i] = revisions[i]
         /\ Len(revisions') \in DOMAIN revisions'
         /\ revisions'[Len(revisions')] = [kind |-> kind, holds |-> there]
<1> DEFINE new == [kind |-> kind, holds |-> there]
<1>1. new \in Revision /\ revisions \in Seq(Revision)
  BY DEF HistoryInv, Revision
<1>2. revisions' = Append(revisions, new)
  BY DEF History!Recorded
<1> HIDE DEF new
<1>3. revisions' \in Seq(Revision) /\ Len(revisions') = Len(revisions) + 1
  BY <1>1, <1>2
<1>4. \A i \in 1..Len(revisions) : revisions'[i] = revisions[i]
  BY <1>1, <1>2
<1>5. revisions'[Len(revisions) + 1] = new
  BY <1>1, <1>2
<1> QED BY <1>1, <1>3, <1>4, <1>5 DEF new

\* What a job needs of the replica, the server and the revisions stays when all
\* of them only grow.
LEMMA HistoryGrows ==
  ASSUME JobInv, UNCHANGED job, here \subseteq here', there \subseteq there',
         \A i \in DOMAIN revisions : i \in DOMAIN revisions' /\ revisions'[i] = revisions[i]
  PROVE  JobInv'
BY DEF JobInv, History!NoJob

LEMMA HistorySteps ==
  ASSUME HistoryInv, [History!Next]_historyVars
  PROVE  HistoryInv'
<1> USE DEF HistoryInv
<1>1. CASE History!Change
  <2>1. UNCHANGED <<revisions, job>> /\ here \subseteq here' /\ there \subseteq there'
    BY <1>1 DEF History!Change
  <2>2. changes' \in Nat
    BY <1>1 DEF History!Change
  <2>3. here' \subseteq Nat /\ there' \subseteq Nat
    <3>1. here' \subseteq here \cup {changes'} /\ there' \subseteq there \cup {changes'}
      BY <1>1, Zenon DEF History!Change
    <3> QED BY <2>2, <3>1
  <2>4. JobInv'
    BY <2>1, HistoryGrows
  <2> QED BY <2>1, <2>2, <2>3, <2>4
<1>2. CASE History!Sync
  BY <1>2, HistoryGrows DEF History!Sync, History!Synced
<1>3. CASE History!OthersRecord
  <2> PICK kind \in {"automatic", "named"} : History!Recorded(kind)
    BY <1>3 DEF History!OthersRecord
  <2> QED BY <1>3, HistoryRecords, HistoryGrows DEF History!OthersRecord, History!Kinds
<1>4. CASE History!Confirm
  BY <1>4 DEF History!Confirm, JobInv, History!NoJob
<1>5. CASE History!GetRevision
  BY <1>5 DEF History!GetRevision, JobInv, History!NoJob
<1>6. CASE History!SyncFirst
  BY <1>6 DEF History!SyncFirst, History!Synced, JobInv, History!NoJob
<1>7. CASE History!CreateRevision
  <2> DEFINE kind == IF job.kind = "name" THEN "named" ELSE "before-restore"
  <2>1. kind \in History!Kinds /\ History!Recorded(kind)
    BY <1>7 DEF History!CreateRevision, History!Kinds
  <2>2. /\ revisions' \in Seq(Revision)
        /\ Len(revisions') \in DOMAIN revisions'
        /\ revisions'[Len(revisions')] = [kind |-> kind, holds |-> there]
    BY <2>1, HistoryRecords
  <2>3. JobInv'
    BY <1>7, <2>2 DEF History!CreateRevision, JobInv, History!NoJob
  <2> QED BY <1>7, <2>2, <2>3 DEF History!CreateRevision
<1>8. CASE History!Finish
  BY <1>8 DEF History!Finish, JobInv
<1>9. CASE History!Fail
  BY <1>9 DEF History!Fail, JobInv
<1>10. CASE UNCHANGED <<here, there, revisions, job, changes>>
  BY <1>10 DEF JobInv
<1>11. CASE \/ History!Open \/ History!Close \/ History!Handled \/ History!Answered
            \/ History!Reload \/ History!LoadMore \/ History!Select \/ History!Previewed \/ History!AskName
            \/ History!AskRestore \/ History!Cancel \/ History!LeaveEditor
  BY <1>10, <1>11 DEF History!Open, History!Close, History!Handled, History!Answered,
       History!Reload, History!LoadMore, History!Select, History!Previewed, History!AskName,
       History!AskRestore, History!Cancel, History!LeaveEditor
<1>12. CASE UNCHANGED historyVars
  BY <1>10, <1>12 DEF historyVars
<1> QED BY <1>1, <1>2, <1>3, <1>4, <1>5, <1>6, <1>7, <1>8, <1>9, <1>11, <1>12 DEF History!Next

\* Whenever a restore writes, all that the document held when its reader
\* confirmed is in a before-restore version (version-history.tsx, restore),
\* whatever peers, replicas and the server did between its awaits.
THEOREM AlwaysLeavesATrace == Spec => RestoreLeavesATrace
<1>1. Init => HistoryInv
  BY HistoryStarts DEF Init
<1>2. HistoryInv /\ [Next]_vars => HistoryInv'
  BY PartsMove, HistorySteps
<1>3. ASSUME HistoryInv
      PROVE  History!LeavesATrace
  BY <1>3 DEF History!LeavesATrace, History!Finish, HistoryInv, JobInv
<1>4. HistoryInv => [History!LeavesATrace]_historyVars
  BY <1>3
<1> QED BY <1>1, <1>2, <1>4, PTL DEF Spec, RestoreLeavesATrace

-----------------------------------------------------------------------------
(* The attach pool *)

None == Pool!None

Attaches == {"waiting", "attaching", "attached"}

\* An entry shares an attachment of its key that is not on its way out, and
\* counts who shares it, of whom there is one.
EntryHolds(key, a) ==
  /\ live[key] = [attachment |-> a, count |-> Cardinality(Pool!Sharing(a))]
  /\ attachments[a].key = key /\ attachments[a].stage \in Attaches
  /\ IsFiniteSet(Pool!Sharing(a)) /\ Pool!Sharing(a) # {}

EntriesHold ==
  \A key \in Keys : live[key] = Pool!NoEntry \/ \E a \in Attachments : EntryHolds(key, a)

\* Whoever is held, or is on its way to be attached, is its key's entry.
SharesHold ==
  /\ \A r \in Runs : runs[r].attachment # None =>
       /\ attachments[runs[r].attachment].key \in Keys
       /\ live[attachments[runs[r].attachment].key].attachment = runs[r].attachment
  /\ \A a \in Attachments : attachments[a].stage \in Attaches =>
       /\ attachments[a].key \in Keys
       /\ live[attachments[a].key].attachment = a

\* The last detach of a key is the one that has not landed; who waits waits for
\* it, and whoever has been asked for since has waited for it.
DetachesHold ==
  /\ \A key \in Keys : tail[key] # None =>
       attachments[tail[key]].stage = "detaching" /\ attachments[tail[key]].key = key
  /\ \A a \in Attachments :
       /\ attachments[a].stage = "detaching" =>
            attachments[a].key \in Keys /\ tail[attachments[a].key] = a
       /\ attachments[a].stage = "waiting" => attachments[a].before = tail[attachments[a].key]
       /\ attachments[a].stage \in {"attaching", "attached"} => tail[attachments[a].key] = None
       /\ attachments[a].stage # "waiting" => attachments[a].before = None

\* A run holds an attachment from its acquire to its release, and has what it
\* shows attached.
RunsHold ==
  \A r \in Runs :
    /\ runs[r].stage = "idle" => runs[r] = Pool!IdleRun
    /\ runs[r].attachment = None <=> runs[r].stage \in {"idle", "refused"}
    /\ runs[r].stage \in {"open", "late"} => attachments[runs[r].attachment].stage = "attached"

PoolInv == Pool!TypeOK /\ EntriesHold /\ SharesHold /\ DetachesHold /\ RunsHold

LEMMA PoolStarts == Pool!Init => PoolInv
<1> SUFFICES ASSUME Pool!Init PROVE PoolInv
  OBVIOUS
<1> USE NoneAssumption DEF Pool!Init, Pool!None, None, Pool!NoEntry, Pool!Unused, Pool!IdleRun
<1>1. Pool!TypeOK
  BY DEF Pool!TypeOK, Pool!Stages, Pool!RunStages
<1>2. EntriesHold /\ SharesHold /\ DetachesHold /\ RunsHold
  BY DEF EntriesHold, SharesHold, DetachesHold, RunsHold, Attaches
<1> QED BY <1>1, <1>2 DEF PoolInv

\* Who shares an attachment is told by the runs' attachments alone.
LEMMA SharingKept ==
  ASSUME NEW a \in Attachments,
         \A r \in Runs : runs'[r].attachment = a <=> runs[r].attachment = a
  PROVE  Pool!Sharing(a)' = Pool!Sharing(a)
BY DEF Pool!Sharing

\* A run joins those who share an attachment.
LEMMA SharingJoined ==
  ASSUME NEW a \in Attachments, NEW r \in Runs, runs[r].attachment # a,
         runs'[r].attachment = a, \A q \in Runs \ {r} : runs'[q] = runs[q],
         IsFiniteSet(Pool!Sharing(a))
  PROVE  /\ IsFiniteSet(Pool!Sharing(a)') /\ Pool!Sharing(a)' # {}
         /\ Cardinality(Pool!Sharing(a)') = Cardinality(Pool!Sharing(a)) + 1
<1>1. Pool!Sharing(a)' = Pool!Sharing(a) \cup {r} /\ r \notin Pool!Sharing(a)
  BY DEF Pool!Sharing
<1> QED BY <1>1, FS_AddElement

\* A run leaves them.
LEMMA SharingLeft ==
  ASSUME NEW a \in Attachments, NEW r \in Runs, runs[r].attachment = a,
         runs'[r].attachment # a, \A q \in Runs \ {r} : runs'[q] = runs[q],
         IsFiniteSet(Pool!Sharing(a))
  PROVE  /\ IsFiniteSet(Pool!Sharing(a)')
         /\ Cardinality(Pool!Sharing(a)) = Cardinality(Pool!Sharing(a)') + 1
         /\ Cardinality(Pool!Sharing(a)') \in Nat
         /\ Pool!Sharing(a)' = {} <=> Cardinality(Pool!Sharing(a)) = 1
<1>1. Pool!Sharing(a)' = Pool!Sharing(a) \ {r} /\ r \in Pool!Sharing(a)
  BY DEF Pool!Sharing
<1>2. /\ IsFiniteSet(Pool!Sharing(a)')
      /\ Cardinality(Pool!Sharing(a)') = Cardinality(Pool!Sharing(a)) - 1
      /\ Cardinality(Pool!Sharing(a)) \in Nat /\ Cardinality(Pool!Sharing(a)') \in Nat
  BY <1>1, FS_RemoveElement, FS_CardinalityType
<1>3. Pool!Sharing(a)' = {} <=> Cardinality(Pool!Sharing(a)') = 0
  BY <1>2, FS_EmptySet
<1> QED BY <1>2, <1>3

\* An entry that a step leaves, and whose attachment it leaves to the same runs.
LEMMA EntryKept ==
  ASSUME NEW key \in Keys, NEW a \in Attachments, EntryHolds(key, a),
         live'[key] = live[key], attachments'[a].key = attachments[a].key,
         attachments'[a].stage \in Attaches,
         \A r \in Runs : runs'[r].attachment = a <=> runs[r].attachment = a
  PROVE  EntryHolds(key, a)'
<1>1. Pool!Sharing(a)' = Pool!Sharing(a)
  BY SharingKept
<1> QED BY <1>1 DEF EntryHolds

LEMMA ShareKeeps ==
  ASSUME PoolInv, NEW r \in Runs, NEW key \in Keys,
         runs[r] = Pool!IdleRun, Pool!Share(r, key)
  PROVE  PoolInv'
<1> USE NoneAssumption DEF PoolInv, Pool!None, None, Pool!NoEntry, Pool!IdleRun
<1> PICK a \in Attachments : EntryHolds(key, a)
  BY DEF Pool!Share, EntriesHold
<1>1. /\ live[key] = [attachment |-> a, count |-> Cardinality(Pool!Sharing(a))]
      /\ attachments[a].key = key /\ attachments[a].stage \in Attaches
      /\ IsFiniteSet(Pool!Sharing(a))
  BY DEF EntryHolds
<1>2. /\ UNCHANGED <<tail, attachments>>
      /\ live' = [live EXCEPT ![key].count = @ + 1]
      /\ runs' = [runs EXCEPT ![r] = [stage |-> "acquiring", attachment |-> a, cancelled |-> FALSE]]
  BY <1>1 DEF Pool!Share, Pool!Acquiring
<1>3. Pool!TypeOK
  OBVIOUS
<1>4. Pool!TypeOK'
  BY <1>1, <1>2, <1>3 DEF Pool!TypeOK, Pool!RunStages
<1>5. /\ runs'[r] = [stage |-> "acquiring", attachment |-> a, cancelled |-> FALSE]
      /\ \A q \in Runs \ {r} : runs'[q] = runs[q]
      /\ live'[key] = [attachment |-> a, count |-> Cardinality(Pool!Sharing(a)) + 1]
      /\ \A k \in Keys \ {key} : live'[k] = live[k]
  BY <1>1, <1>2, <1>3 DEF Pool!TypeOK
<1>6. EntriesHold'
  <2> SUFFICES ASSUME NEW k \in Keys, live'[k] # Pool!NoEntry
               PROVE  \E b \in Attachments : EntryHolds(k, b)'
    BY DEF EntriesHold
  <2>1. CASE k = key
    <3>1. runs[r].attachment # a /\ runs'[r].attachment = a
      BY <1>1, <1>5
    <3>2. /\ IsFiniteSet(Pool!Sharing(a)') /\ Pool!Sharing(a)' # {}
          /\ Cardinality(Pool!Sharing(a)') = Cardinality(Pool!Sharing(a)) + 1
      BY <1>1, <1>5, <3>1, SharingJoined
    <3> QED BY <1>1, <1>2, <1>5, <2>1, <3>2 DEF EntryHolds
  <2>2. CASE k # key
    <3> PICK b \in Attachments : EntryHolds(k, b)
      BY <1>5, <2>2 DEF EntriesHold
    <3>1. /\ live'[k] = live[k] /\ UNCHANGED attachments /\ attachments[b].stage \in Attaches
          /\ b # a
      BY <1>1, <1>2, <1>5, <2>2 DEF EntryHolds
    <3> QED BY <1>1, <1>5, <3>1, EntryKept
  <2> QED BY <2>1, <2>2
<1>7. SharesHold'
  BY <1>1, <1>2, <1>5 DEF SharesHold
<1>8. DetachesHold'
  BY <1>2 DEF DetachesHold
<1>9. RunsHold'
  BY <1>1, <1>2, <1>5 DEF RunsHold
<1> QED BY <1>4, <1>6, <1>7, <1>8, <1>9

LEMMA CreateKeeps ==
  ASSUME PoolInv, NEW r \in Runs, NEW key \in Keys, NEW a \in Attachments,
         runs[r] = Pool!IdleRun, Pool!Create(r, key, a)
  PROVE  PoolInv'
<1> USE NoneAssumption DEF PoolInv, Pool!None, None, Pool!NoEntry, Pool!IdleRun
<1>1. /\ live[key] = Pool!NoEntry /\ UNCHANGED tail
      /\ attachments[a] = [stage |-> "unused", key |-> None, before |-> None]
      /\ live' = [live EXCEPT ![key] = [attachment |-> a, count |-> 1]]
      /\ attachments' = [attachments EXCEPT ![a] =
                           [stage |-> "waiting", key |-> key, before |-> tail[key]]]
      /\ runs' = [runs EXCEPT ![r] = [stage |-> "acquiring", attachment |-> a, cancelled |-> FALSE]]
  BY DEF Pool!Create, Pool!Acquiring, Pool!Unused
<1>2. Pool!TypeOK
  OBVIOUS
<1>3. Pool!TypeOK'
  BY <1>1, <1>2 DEF Pool!TypeOK, Pool!RunStages, Pool!Stages
<1>4. /\ runs'[r] = [stage |-> "acquiring", attachment |-> a, cancelled |-> FALSE]
      /\ \A q \in Runs \ {r} : runs'[q] = runs[q]
      /\ live'[key] = [attachment |-> a, count |-> 1]
      /\ \A k \in Keys \ {key} : live'[k] = live[k]
      /\ attachments'[a] = [stage |-> "waiting", key |-> key, before |-> tail[key]]
      /\ \A b \in Attachments \ {a} : attachments'[b] = attachments[b]
  BY <1>1, <1>2 DEF Pool!TypeOK
<1>5. \A q \in Runs : runs[q].attachment # a
  BY <1>1 DEF SharesHold
<1>6. \A k \in Keys : live[k].attachment # a /\ tail[k] # a
  <2> TAKE k \in Keys
  <2>1. live[k].attachment # a
    <3>1. CASE live[k] = Pool!NoEntry
      BY <3>1
    <3>2. ASSUME NEW b \in Attachments, EntryHolds(k, b)
          PROVE  live[k].attachment # a
      BY <1>1, <3>2 DEF EntryHolds, Attaches
    <3> QED BY <3>1, <3>2 DEF EntriesHold
  <2>2. tail[k] # a
    BY <1>1 DEF DetachesHold
  <2> QED BY <2>1, <2>2
<1>7. EntriesHold'
  <2> SUFFICES ASSUME NEW k \in Keys, live'[k] # Pool!NoEntry
               PROVE  \E b \in Attachments : EntryHolds(k, b)'
    BY DEF EntriesHold
  <2>1. CASE k = key
    <3>1. Pool!Sharing(a) = {}
      BY <1>5 DEF Pool!Sharing
    <3>2. IsFiniteSet(Pool!Sharing(a)) /\ Cardinality(Pool!Sharing(a)) = 0
      BY <3>1, FS_EmptySet
    <3>3. runs[r].attachment # a /\ runs'[r].attachment = a
      BY <1>4, <1>5
    <3>4. /\ IsFiniteSet(Pool!Sharing(a)') /\ Pool!Sharing(a)' # {}
          /\ Cardinality(Pool!Sharing(a)') = 1
      BY <1>4, <3>2, <3>3, SharingJoined
    <3> QED BY <1>4, <2>1, <3>4 DEF EntryHolds, Attaches
  <2>2. CASE k # key
    <3> PICK b \in Attachments : EntryHolds(k, b)
      BY <1>4, <2>2 DEF EntriesHold
    <3>1. /\ live'[k] = live[k] /\ b # a /\ attachments'[b] = attachments[b]
          /\ attachments[b].stage \in Attaches
      BY <1>4, <1>6, <2>2 DEF EntryHolds
    <3> QED BY <1>4, <1>5, <3>1, EntryKept
  <2> QED BY <2>1, <2>2
<1>8. SharesHold'
  <2>1. ASSUME NEW q \in Runs, runs'[q].attachment # None
        PROVE  /\ attachments'[runs'[q].attachment].key \in Keys
               /\ live'[attachments'[runs'[q].attachment].key].attachment = runs'[q].attachment
    <3>1. CASE q = r
      BY <1>4, <3>1
    <3>2. CASE q # r
      BY <1>1, <1>2, <1>4, <1>5, <2>1, <3>2 DEF SharesHold, Pool!TypeOK
    <3> QED BY <3>1, <3>2
  <2>2. ASSUME NEW b \in Attachments, attachments'[b].stage \in Attaches
        PROVE  attachments'[b].key \in Keys /\ live'[attachments'[b].key].attachment = b
    BY <1>1, <1>4, <2>2 DEF SharesHold
  <2> QED BY <2>1, <2>2 DEF SharesHold
<1>9. DetachesHold'
  <2>1. \A k \in Keys : tail[k] # None => tail[k] \in Attachments /\ tail[k] # a
    BY <1>2, <1>6 DEF Pool!TypeOK
  <2> QED BY <1>1, <1>4, <2>1 DEF DetachesHold
<1>10. RunsHold'
  <2>1. \A q \in Runs : runs[q].stage \in {"open", "late"} => runs[q].attachment \in Attachments \ {a}
    BY <1>2, <1>5 DEF RunsHold, Pool!TypeOK
  <2> QED BY <1>4, <2>1 DEF RunsHold
<1> QED BY <1>3, <1>7, <1>8, <1>9, <1>10

\* What changes how far attachments or runs have come, and neither who shares
\* what nor which detach a key waits for.
LEMMA StagesMove ==
  ASSUME PoolInv, Pool!TypeOK', UNCHANGED <<live, tail>>,
         \A r \in Runs : runs'[r].attachment = runs[r].attachment,
         \A a \in Attachments :
           /\ attachments'[a].key = attachments[a].key
           /\ attachments[a].stage \in Attaches <=> attachments'[a].stage \in Attaches,
         DetachesHold', RunsHold'
  PROVE  PoolInv'
<1> USE DEF PoolInv
<1>1. EntriesHold'
  <2> SUFFICES ASSUME NEW k \in Keys, live'[k] # Pool!NoEntry
               PROVE  \E b \in Attachments : EntryHolds(k, b)'
    BY DEF EntriesHold
  <2> PICK b \in Attachments : EntryHolds(k, b)
    BY DEF EntriesHold
  <2>1. attachments'[b].stage \in Attaches
    BY DEF EntryHolds
  <2> QED BY <2>1, EntryKept
<1>2. SharesHold'
  <2>1. \A r \in Runs : runs[r].attachment # None => runs[r].attachment \in Attachments
    BY DEF Pool!TypeOK, None
  <2> QED BY <2>1 DEF SharesHold
<1> QED BY <1>1, <1>2

LEMMA AttachKeeps ==
  ASSUME PoolInv, NEW a \in Attachments, Pool!Attach(a) \/ Pool!Ready(a)
  PROVE  PoolInv'
<1> USE NoneAssumption DEF PoolInv, Pool!None, None
<1>1. /\ UNCHANGED <<live, tail, runs>>
      /\ \E to \in {"attaching", "attached"} :
           /\ attachments' = [attachments EXCEPT ![a].stage = to]
           /\ attachments[a].stage = (IF to = "attaching" THEN "waiting" ELSE "attaching")
           /\ to = "attaching" => attachments[a].before = None
  BY DEF Pool!Attach, Pool!Ready, Pool!Moves
<1> PICK to \in {"attaching", "attached"} :
           /\ attachments' = [attachments EXCEPT ![a].stage = to]
           /\ attachments[a].stage = (IF to = "attaching" THEN "waiting" ELSE "attaching")
           /\ to = "attaching" => attachments[a].before = None
  BY <1>1
<1>2. Pool!TypeOK'
  BY <1>1 DEF Pool!TypeOK, Pool!Stages
<1>3. /\ attachments'[a].stage = to /\ attachments'[a].key = attachments[a].key
      /\ attachments'[a].before = attachments[a].before
      /\ \A b \in Attachments \ {a} : attachments'[b] = attachments[b]
  BY DEF Pool!TypeOK
<1>4. DetachesHold'
  BY <1>1, <1>3 DEF DetachesHold
<1>5. RunsHold'
  BY <1>1, <1>3 DEF RunsHold, Pool!TypeOK
<1> QED BY <1>1, <1>2, <1>3, <1>4, <1>5, StagesMove DEF Attaches

LEMMA RunKeeps ==
  ASSUME PoolInv, NEW r \in Runs, Pool!Resume(r) \/ Pool!Unmount(r)
  PROVE  PoolInv'
<1> USE NoneAssumption DEF PoolInv, Pool!None, None
<1>1. /\ UNCHANGED <<live, tail, attachments>>
      /\ \/ /\ runs[r].stage = "acquiring"
            /\ attachments[runs[r].attachment].stage = "attached"
            /\ \E to \in {"late", "open"} : runs' = [runs EXCEPT ![r].stage = to]
         \/ /\ runs[r].stage # "idle"
            /\ runs' = [runs EXCEPT ![r].cancelled = TRUE]
  BY DEF Pool!Resume, Pool!Unmount
<1>2. Pool!TypeOK'
  <2>1. runs' \in [Runs -> [stage : Pool!RunStages, attachment : Attachments \cup {None},
                            cancelled : BOOLEAN]]
    <3>1. CASE \E to \in {"late", "open"} : runs' = [runs EXCEPT ![r].stage = to]
      BY <3>1 DEF Pool!TypeOK, Pool!RunStages
    <3>2. CASE runs' = [runs EXCEPT ![r].cancelled = TRUE]
      BY <3>2 DEF Pool!TypeOK
    <3> QED BY <1>1, <3>1, <3>2
  <2> QED BY <1>1, <2>1 DEF Pool!TypeOK
<1>3. /\ \A q \in Runs : runs'[q].attachment = runs[q].attachment
      /\ \A q \in Runs \ {r} : runs'[q] = runs[q]
      /\ \/ /\ runs[r].stage = "acquiring" /\ runs'[r].stage \in {"late", "open"}
            /\ attachments[runs[r].attachment].stage = "attached"
         \/ runs[r].stage # "idle" /\ runs'[r].stage = runs[r].stage
  BY <1>1 DEF Pool!TypeOK
<1>4. DetachesHold' /\ RunsHold'
  BY <1>1, <1>3 DEF DetachesHold, RunsHold
<1> QED BY <1>1, <1>2, <1>3, <1>4, StagesMove

\* An attachment that an entry does not share, nobody shares.
LEMMA SharedIsAttached ==
  ASSUME PoolInv, NEW r \in Runs, runs[r].attachment # None
  PROVE  /\ runs[r].attachment \in Attachments
         /\ attachments[runs[r].attachment].key \in Keys
         /\ attachments[runs[r].attachment].stage \in Attaches
         /\ EntryHolds(attachments[runs[r].attachment].key, runs[r].attachment)
<1> DEFINE a == runs[r].attachment
<1>1. a \in Attachments
  BY DEF PoolInv, Pool!TypeOK, None
<1>2. attachments[a].key \in Keys /\ live[attachments[a].key].attachment = a
  BY DEF PoolInv, SharesHold
<1> HIDE DEF a
<1>3. live[attachments[a].key] # Pool!NoEntry
  BY <1>1, <1>2, NoneAssumption DEF Pool!NoEntry, Pool!None
<1>4. EntryHolds(attachments[a].key, a)
  <2> PICK b \in Attachments : EntryHolds(attachments[a].key, b)
    BY <1>2, <1>3 DEF PoolInv, EntriesHold
  <2> QED BY <1>2 DEF EntryHolds
<1> QED BY <1>1, <1>2, <1>4 DEF a, EntryHolds

LEMMA RefusedKeeps ==
  ASSUME PoolInv, NEW a \in Attachments, Pool!Refused(a)
  PROVE  PoolInv'
<1> USE NoneAssumption DEF PoolInv, Pool!None, None
<1>1. /\ attachments[a].stage = "attaching" /\ UNCHANGED tail
      /\ attachments' = [attachments EXCEPT ![a] = Pool!Unused]
      /\ live' = [key \in Keys |->
                    IF live[key].attachment = a THEN Pool!NoEntry ELSE live[key]]
      /\ runs' = [r \in Runs |->
                    IF runs[r].attachment = a
                      THEN [runs[r] EXCEPT !.stage = "refused", !.attachment = None]
                      ELSE runs[r]]
  BY DEF Pool!Refused
<1>2. Pool!TypeOK
  OBVIOUS
<1>3. /\ attachments'[a] = [stage |-> "unused", key |-> None, before |-> None]
      /\ \A b \in Attachments \ {a} : attachments'[b] = attachments[b]
  BY <1>1, <1>2 DEF Pool!TypeOK, Pool!Unused
<1>4. \A r \in Runs :
        IF runs[r].attachment = a
          THEN runs'[r].stage = "refused" /\ runs'[r].attachment = None
          ELSE runs'[r] = runs[r]
  BY <1>1, <1>2 DEF Pool!TypeOK
<1>5. Pool!TypeOK'
  <2>1. runs' \in [Runs -> [stage : Pool!RunStages, attachment : Attachments \cup {None},
                            cancelled : BOOLEAN]]
    BY <1>1, <1>2 DEF Pool!TypeOK, Pool!RunStages
  <2>2. live' \in [Keys -> [attachment : Attachments \cup {None}, count : Nat]]
    BY <1>1, <1>2 DEF Pool!TypeOK, Pool!NoEntry
  <2>3. attachments' \in [Attachments -> [stage : Pool!Stages, key : Keys \cup {None},
                                          before : Attachments \cup {None}]]
    BY <1>1, <1>2 DEF Pool!TypeOK, Pool!Unused, Pool!Stages
  <2>4. \A b \in Attachments : attachments'[b].stage = "unused" <=> attachments'[b].key = None
    BY <1>2, <1>3 DEF Pool!TypeOK
  <2> QED BY <1>1, <1>2, <2>1, <2>2, <2>3, <2>4 DEF Pool!TypeOK
<1>6. EntriesHold'
  <2> SUFFICES ASSUME NEW k \in Keys, live'[k] # Pool!NoEntry
               PROVE  \E b \in Attachments : EntryHolds(k, b)'
    BY DEF EntriesHold
  <2>1. live[k].attachment # a /\ live'[k] = live[k]
    BY <1>1
  <2> PICK b \in Attachments : EntryHolds(k, b)
    BY <2>1 DEF EntriesHold
  <2>2. b # a /\ attachments[b].stage \in Attaches
    BY <2>1 DEF EntryHolds
  <2> QED BY <1>3, <1>4, <2>1, <2>2, EntryKept
<1>7. SharesHold'
  <2>1. ASSUME NEW q \in Runs, runs'[q].attachment # None
        PROVE  /\ attachments'[runs'[q].attachment].key \in Keys
               /\ live'[attachments'[runs'[q].attachment].key].attachment = runs'[q].attachment
    <3>1. runs'[q] = runs[q] /\ runs[q].attachment # a
      BY <1>4, <2>1
    <3>2. runs[q].attachment \in Attachments
      BY <2>1, <3>1, SharedIsAttached
    <3>3. /\ attachments[runs[q].attachment].key \in Keys
          /\ live[attachments[runs[q].attachment].key].attachment = runs[q].attachment
      BY <2>1, <3>1 DEF SharesHold
    <3>4. attachments'[runs[q].attachment] = attachments[runs[q].attachment]
      BY <1>3, <3>1, <3>2
    <3>5. live'[attachments[runs[q].attachment].key] = live[attachments[runs[q].attachment].key]
      BY <1>1, <3>1, <3>3
    <3> QED BY <3>1, <3>3, <3>4, <3>5
  <2>2. ASSUME NEW b \in Attachments, attachments'[b].stage \in Attaches
        PROVE  attachments'[b].key \in Keys /\ live'[attachments'[b].key].attachment = b
    <3>1. b # a
      BY <1>3, <2>2 DEF Attaches
    <3> QED BY <1>1, <1>3, <2>2, <3>1 DEF SharesHold
  <2> QED BY <2>1, <2>2 DEF SharesHold
<1>8. DetachesHold'
  <2>1. \A k \in Keys : tail[k] # None => tail[k] \in Attachments \ {a}
    <3>1. \A k \in Keys : tail[k] \in Attachments \cup {None}
      BY <1>2 DEF Pool!TypeOK
    <3> QED BY <1>1, <3>1 DEF DetachesHold
  <2>2. \A k \in Keys : tail[k] # None => attachments'[tail[k]] = attachments[tail[k]]
    BY <1>3, <2>1
  <2>3. \A b \in Attachments \ {a} : attachments'[b] = attachments[b]
    BY <1>3
  <2>4. attachments'[a].stage = "unused" /\ attachments'[a].before = None
    BY <1>3
  <2>5. tail' = tail
    BY <1>1
  <2>6. ASSUME NEW k \in Keys, tail'[k] # None
        PROVE  attachments'[tail'[k]].stage = "detaching" /\ attachments'[tail'[k]].key = k
    BY <2>2, <2>6, <2>5 DEF DetachesHold
  <2>7. ASSUME NEW b \in Attachments
        PROVE  /\ attachments'[b].stage = "detaching" =>
                    attachments'[b].key \in Keys /\ tail'[attachments'[b].key] = b
               /\ attachments'[b].stage = "waiting" =>
                    attachments'[b].before = tail'[attachments'[b].key]
               /\ attachments'[b].stage \in {"attaching", "attached"} =>
                    tail'[attachments'[b].key] = None
               /\ attachments'[b].stage # "waiting" => attachments'[b].before = None
    <3>1. CASE b = a
      BY <2>4, <3>1
    <3>2. CASE b # a
      BY <2>3, <2>5, <3>2 DEF DetachesHold
    <3> QED BY <3>1, <3>2
  <2> QED BY <2>6, <2>7 DEF DetachesHold
<1>9. RunsHold'
  <2> SUFFICES ASSUME NEW q \in Runs
               PROVE  /\ runs'[q].stage = "idle" => runs'[q] = Pool!IdleRun
                      /\ runs'[q].attachment = None <=> runs'[q].stage \in {"idle", "refused"}
                      /\ runs'[q].stage \in {"open", "late"} =>
                           attachments'[runs'[q].attachment].stage = "attached"
    BY DEF RunsHold
  <2>1. CASE runs[q].attachment = a
    BY <1>4, <2>1
  <2>2. CASE runs[q].attachment # a
    <3>1. runs[q].stage \in {"open", "late"} => runs[q].attachment \in Attachments
      BY <1>2 DEF Pool!TypeOK, RunsHold
    <3> QED BY <1>3, <1>4, <2>2, <3>1 DEF RunsHold
  <2> QED BY <2>1, <2>2
<1> QED BY <1>5, <1>6, <1>7, <1>8, <1>9

LEMMA DetachedKeeps ==
  ASSUME PoolInv, NEW a \in Attachments, Pool!Detached(a)
  PROVE  PoolInv'
<1> USE NoneAssumption DEF PoolInv, Pool!None, None
<1>1. /\ attachments[a].stage = "detaching" /\ UNCHANGED <<live, runs>>
      /\ attachments' = [b \in Attachments |->
                           IF b = a THEN Pool!Unused
                           ELSE IF attachments[b].before = a
                                  THEN [attachments[b] EXCEPT !.before = None]
                                  ELSE attachments[b]]
      /\ tail' = [key \in Keys |-> IF tail[key] = a THEN None ELSE tail[key]]
  BY DEF Pool!Detached
<1>2. Pool!TypeOK
  OBVIOUS
<1>3. /\ attachments'[a] = [stage |-> "unused", key |-> None, before |-> None]
      /\ \A b \in Attachments \ {a} :
           /\ attachments'[b].stage = attachments[b].stage
           /\ attachments'[b].key = attachments[b].key
           /\ attachments'[b].before =
                (IF attachments[b].before = a THEN None ELSE attachments[b].before)
  BY <1>1, <1>2 DEF Pool!TypeOK, Pool!Unused
<1>4. Pool!TypeOK'
  <2>1. tail' \in [Keys -> Attachments \cup {None}]
    BY <1>1, <1>2 DEF Pool!TypeOK
  <2>2. attachments' \in [Attachments -> [stage : Pool!Stages, key : Keys \cup {None},
                                          before : Attachments \cup {None}]]
    BY <1>1, <1>2 DEF Pool!TypeOK, Pool!Unused, Pool!Stages
  <2>3. \A b \in Attachments : attachments'[b].stage = "unused" <=> attachments'[b].key = None
    BY <1>2, <1>3 DEF Pool!TypeOK
  <2> QED BY <1>1, <1>2, <2>1, <2>2, <2>3 DEF Pool!TypeOK
<1>5. EntriesHold'
  <2> SUFFICES ASSUME NEW k \in Keys, live'[k] # Pool!NoEntry
               PROVE  \E b \in Attachments : EntryHolds(k, b)'
    BY DEF EntriesHold
  <2> PICK b \in Attachments : EntryHolds(k, b)
    BY <1>1 DEF EntriesHold
  <2>1. b # a /\ attachments[b].stage \in Attaches
    BY <1>1 DEF EntryHolds, Attaches
  <2> QED BY <1>1, <1>3, <2>1, EntryKept
<1>6. SharesHold'
  <2>1. ASSUME NEW q \in Runs, runs[q].attachment # None
        PROVE  attachments'[runs[q].attachment].key = attachments[runs[q].attachment].key
    <3>1. runs[q].attachment \in Attachments \ {a}
      BY <1>1, <2>1, SharedIsAttached DEF Attaches
    <3> QED BY <1>3, <3>1
  <2>2. ASSUME NEW b \in Attachments, attachments'[b].stage \in Attaches
        PROVE  attachments'[b].key = attachments[b].key /\ attachments[b].stage \in Attaches
    BY <1>3, <2>2 DEF Attaches
  <2> QED BY <1>1, <2>1, <2>2 DEF SharesHold
<1>7. DetachesHold'
  <2>1. ASSUME NEW k \in Keys, tail'[k] # None
        PROVE  attachments'[tail'[k]].stage = "detaching" /\ attachments'[tail'[k]].key = k
    <3>1. tail'[k] = tail[k] /\ tail[k] \in Attachments \ {a}
      BY <1>1, <1>2, <2>1 DEF Pool!TypeOK
    <3> QED BY <1>3, <2>1, <3>1 DEF DetachesHold
  <2>2. ASSUME NEW b \in Attachments
        PROVE  /\ attachments'[b].stage = "detaching" =>
                    attachments'[b].key \in Keys /\ tail'[attachments'[b].key] = b
               /\ attachments'[b].stage = "waiting" =>
                    attachments'[b].before = tail'[attachments'[b].key]
               /\ attachments'[b].stage \in {"attaching", "attached"} =>
                    tail'[attachments'[b].key] = None
               /\ attachments'[b].stage # "waiting" => attachments'[b].before = None
    <3>1. CASE b = a
      BY <1>3, <3>1
    <3>2. CASE b # a
      <4>1. attachments[b].stage # "unused" => attachments[b].key \in Keys
        BY <1>2 DEF Pool!TypeOK
      <4>2. \A k \in Keys : tail'[k] = (IF tail[k] = a THEN None ELSE tail[k])
        BY <1>1
      <4> HIDE DEF PoolInv
      <4> QED BY <1>3, <3>2, <4>1, <4>2 DEF DetachesHold, PoolInv
    <3> QED BY <3>1, <3>2
  <2> QED BY <2>1, <2>2 DEF DetachesHold
<1>8. RunsHold'
  <2>1. \A q \in Runs : runs[q].stage \in {"open", "late"} => runs[q].attachment \in Attachments \ {a}
    BY <1>1, <1>2 DEF Pool!TypeOK, RunsHold
  <2> QED BY <1>1, <1>3, <2>1 DEF RunsHold
<1> QED BY <1>4, <1>5, <1>6, <1>7, <1>8

\* A release of one of several shares.
LEMMA ReleaseKeeps ==
  ASSUME PoolInv, NEW r \in Runs, runs[r].stage \in {"open", "late"},
         NEW a \in Attachments, a = runs[r].attachment,
         NEW key \in Keys, key = attachments[a].key,
         EntryHolds(key, a), live[key].count # 1,
         runs' = [runs EXCEPT ![r] = Pool!IdleRun],
         live' = [live EXCEPT ![key].count = @ - 1],
         UNCHANGED <<tail, attachments>>
  PROVE  PoolInv'
<1> USE NoneAssumption DEF PoolInv, Pool!None, None, Pool!NoEntry, Pool!IdleRun
<1>1. Pool!TypeOK
  OBVIOUS
<1>2. /\ live[key] = [attachment |-> a, count |-> Cardinality(Pool!Sharing(a))]
      /\ attachments[a].stage \in Attaches /\ IsFiniteSet(Pool!Sharing(a))
  BY DEF EntryHolds
<1>3. /\ runs'[r] = [stage |-> "idle", attachment |-> None, cancelled |-> FALSE]
      /\ \A q \in Runs \ {r} : runs'[q] = runs[q]
      /\ live'[key] = [attachment |-> a, count |-> Cardinality(Pool!Sharing(a)) - 1]
      /\ \A k \in Keys \ {key} : live'[k] = live[k]
  BY <1>1, <1>2 DEF Pool!TypeOK
<1>4. /\ IsFiniteSet(Pool!Sharing(a)')
      /\ Cardinality(Pool!Sharing(a)) = Cardinality(Pool!Sharing(a)') + 1
      /\ Cardinality(Pool!Sharing(a)') \in Nat
      /\ Pool!Sharing(a)' = {} <=> Cardinality(Pool!Sharing(a)) = 1
  <2>1. runs[r].attachment = a /\ runs'[r].attachment # a
    BY <1>3
  <2> QED BY <1>2, <1>3, <2>1, SharingLeft
<1>5. live'[key] = [attachment |-> a, count |-> Cardinality(Pool!Sharing(a)')]
  BY <1>3, <1>4
<1>6. Pool!TypeOK'
  <2>1. runs' \in [Runs -> [stage : Pool!RunStages, attachment : Attachments \cup {None},
                            cancelled : BOOLEAN]]
    BY <1>1 DEF Pool!TypeOK, Pool!RunStages
  <2>2. live' \in [Keys -> [attachment : Attachments \cup {None}, count : Nat]]
    BY <1>1, <1>2, <1>4 DEF Pool!TypeOK
  <2> QED BY <1>1, <2>1, <2>2 DEF Pool!TypeOK
<1>7. EntriesHold'
  <2> SUFFICES ASSUME NEW k \in Keys, live'[k] # Pool!NoEntry
               PROVE  \E b \in Attachments : EntryHolds(k, b)'
    BY DEF EntriesHold
  <2>1. CASE k = key
    BY <1>2, <1>4, <1>5, <2>1 DEF EntryHolds
  <2>2. CASE k # key
    <3> PICK b \in Attachments : EntryHolds(k, b)
      BY <1>3, <2>2 DEF EntriesHold
    <3>1. b # a /\ attachments[b].stage \in Attaches /\ live'[k] = live[k]
      BY <1>3, <2>2 DEF EntryHolds
    <3>2. \A q \in Runs : runs'[q].attachment = b <=> runs[q].attachment = b
      BY <1>3, <3>1
    <3> QED BY <3>1, <3>2, EntryKept
  <2> QED BY <2>1, <2>2
<1>8. SharesHold'
  <2>1. \A k \in Keys : live'[k].attachment = live[k].attachment
    BY <1>2, <1>3
  <2>2. \A q \in Runs : runs'[q].attachment # None => runs'[q].attachment = runs[q].attachment
    BY <1>3
  <2> QED BY <2>1, <2>2 DEF SharesHold
<1>9. DetachesHold' /\ RunsHold'
  BY <1>3 DEF DetachesHold, RunsHold
<1> QED BY <1>6, <1>7, <1>8, <1>9

\* A release of the last share, with which the detach begins.
LEMMA LastReleaseKeeps ==
  ASSUME PoolInv, NEW r \in Runs, runs[r].stage \in {"open", "late"},
         NEW a \in Attachments, a = runs[r].attachment,
         NEW key \in Keys, key = attachments[a].key,
         EntryHolds(key, a), live[key].count = 1, attachments[a].stage = "attached",
         runs' = [runs EXCEPT ![r] = Pool!IdleRun],
         live' = [live EXCEPT ![key] = Pool!NoEntry],
         tail' = [tail EXCEPT ![key] = a],
         attachments' = [attachments EXCEPT ![a].stage = "detaching"]
  PROVE  PoolInv'
<1> USE NoneAssumption DEF PoolInv, Pool!None, None, Pool!NoEntry, Pool!IdleRun
<1>1. Pool!TypeOK
  OBVIOUS
<1>2. /\ live[key] = [attachment |-> a, count |-> Cardinality(Pool!Sharing(a))]
      /\ IsFiniteSet(Pool!Sharing(a))
  BY DEF EntryHolds
<1>3. /\ runs'[r] = [stage |-> "idle", attachment |-> None, cancelled |-> FALSE]
      /\ \A q \in Runs \ {r} : runs'[q] = runs[q]
      /\ live'[key] = [attachment |-> None, count |-> 0]
      /\ \A k \in Keys \ {key} : live'[k] = live[k]
      /\ tail'[key] = a
      /\ \A k \in Keys \ {key} : tail'[k] = tail[k]
      /\ attachments'[a].stage = "detaching" /\ attachments'[a].key = key
      /\ attachments'[a].before = attachments[a].before
      /\ \A b \in Attachments \ {a} : attachments'[b] = attachments[b]
  BY <1>1 DEF Pool!TypeOK
<1>4. \A q \in Runs : runs'[q].attachment # a
  <2>1. runs[r].attachment = a /\ runs'[r].attachment # a
    BY <1>3
  <2>2. Pool!Sharing(a)' = {}
    BY <1>2, <1>3, <2>1, SharingLeft
  <2> QED BY <2>2 DEF Pool!Sharing
<1>5. Pool!TypeOK'
  <2>1. runs' \in [Runs -> [stage : Pool!RunStages, attachment : Attachments \cup {None},
                            cancelled : BOOLEAN]]
    BY <1>1 DEF Pool!TypeOK, Pool!RunStages
  <2>2. /\ live' \in [Keys -> [attachment : Attachments \cup {None}, count : Nat]]
        /\ tail' \in [Keys -> Attachments \cup {None}]
    BY <1>1 DEF Pool!TypeOK
  <2>3. attachments' \in [Attachments -> [stage : Pool!Stages, key : Keys \cup {None},
                                          before : Attachments \cup {None}]]
    <3>1. attachments \in [Attachments -> [stage : Pool!Stages, key : Keys \cup {None},
                                            before : Attachments \cup {None}]]
      BY <1>1 DEF Pool!TypeOK
    <3>2. "detaching" \in Pool!Stages
      BY DEF Pool!Stages
    <3> QED BY <3>1, <3>2
  <2>4. \A b \in Attachments : attachments'[b].stage = "unused" <=> attachments'[b].key = None
    BY <1>1, <1>3 DEF Pool!TypeOK
  <2> QED BY <2>1, <2>2, <2>3, <2>4 DEF Pool!TypeOK
\* No other attachment is the entry of this key.
<1>6. \A b \in Attachments \ {a} :
        attachments[b].stage \in Attaches => attachments[b].key \in Keys \ {key}
  BY <1>2 DEF SharesHold
<1>7. EntriesHold'
  <2> SUFFICES ASSUME NEW k \in Keys, live'[k] # Pool!NoEntry
               PROVE  \E b \in Attachments : EntryHolds(k, b)'
    BY DEF EntriesHold
  <2>1. k # key /\ live'[k] = live[k]
    BY <1>3
  <2> PICK b \in Attachments : EntryHolds(k, b)
    BY <2>1 DEF EntriesHold
  <2>2. b # a /\ attachments[b].stage \in Attaches
    BY <2>1 DEF EntryHolds
  <2>3. \A q \in Runs : runs'[q].attachment = b <=> runs[q].attachment = b
    BY <1>3, <2>2
  <2> QED BY <1>3, <2>1, <2>2, <2>3, EntryKept
<1>8. SharesHold'
  <2>1. ASSUME NEW q \in Runs, runs'[q].attachment # None
        PROVE  /\ attachments'[runs'[q].attachment].key \in Keys
               /\ live'[attachments'[runs'[q].attachment].key].attachment = runs'[q].attachment
    <3>1. runs'[q] = runs[q] /\ runs[q].attachment # None /\ runs[q].attachment # a
      BY <1>3, <1>4, <2>1
    <3>2. /\ runs[q].attachment \in Attachments \ {a}
          /\ attachments[runs[q].attachment].stage \in Attaches
          /\ live[attachments[runs[q].attachment].key].attachment = runs[q].attachment
      BY <3>1, SharedIsAttached DEF SharesHold
    <3> QED BY <1>3, <1>6, <3>1, <3>2
  <2>2. ASSUME NEW b \in Attachments, attachments'[b].stage \in Attaches
        PROVE  attachments'[b].key \in Keys /\ live'[attachments'[b].key].attachment = b
    <3>1. b # a /\ attachments[b].stage \in Attaches
      BY <1>3, <2>2 DEF Attaches
    <3> QED BY <1>3, <1>6, <3>1 DEF SharesHold
  <2> QED BY <2>1, <2>2 DEF SharesHold
<1>9. DetachesHold'
  <2>1. tail[key] = None /\ attachments[a].before = None
    BY DEF DetachesHold
  <2>2. ASSUME NEW k \in Keys, tail'[k] # None
        PROVE  attachments'[tail'[k]].stage = "detaching" /\ attachments'[tail'[k]].key = k
    <3>1. CASE k = key
      BY <1>3, <3>1
    <3>2. CASE k # key
      <4>1. tail[k] \in Attachments /\ attachments[tail[k]].stage = "detaching" /\ tail'[k] = tail[k]
        BY <1>1, <1>3, <2>2, <3>2 DEF Pool!TypeOK, DetachesHold
      <4> QED BY <1>3, <2>2, <4>1 DEF DetachesHold
    <3> QED BY <3>1, <3>2
  <2>3. ASSUME NEW b \in Attachments
        PROVE  /\ attachments'[b].stage = "detaching" =>
                    attachments'[b].key \in Keys /\ tail'[attachments'[b].key] = b
               /\ attachments'[b].stage = "waiting" =>
                    attachments'[b].before = tail'[attachments'[b].key]
               /\ attachments'[b].stage \in {"attaching", "attached"} =>
                    tail'[attachments'[b].key] = None
               /\ attachments'[b].stage # "waiting" => attachments'[b].before = None
    <3>1. CASE b = a
      BY <1>3, <2>1, <3>1
    <3>2. CASE b # a
      <4>1. attachments'[b] = attachments[b]
        BY <1>3, <3>2
      <4>2. attachments[b].stage \in Attaches =>
              attachments[b].key \in Keys /\ tail'[attachments[b].key] = tail[attachments[b].key]
        BY <1>3, <1>6, <3>2
      <4>3. attachments[b].stage = "detaching" =>
              attachments[b].key \in Keys /\ tail'[attachments[b].key] = tail[attachments[b].key]
        BY <1>3, <2>1 DEF DetachesHold
      <4>4. /\ attachments[b].stage = "detaching" => tail[attachments[b].key] = b
            /\ attachments[b].stage = "waiting" =>
                 attachments[b].before = tail[attachments[b].key]
            /\ attachments[b].stage \in {"attaching", "attached"} =>
                 tail[attachments[b].key] = None
            /\ attachments[b].stage # "waiting" => attachments[b].before = None
        BY DEF DetachesHold
      <4> QED BY <4>1, <4>2, <4>3, <4>4 DEF Attaches
    <3> QED BY <3>1, <3>2
  <2> QED BY <2>2, <2>3 DEF DetachesHold
<1>10. RunsHold'
  <2>1. \A q \in Runs \ {r} :
          runs[q].stage \in {"open", "late"} => runs[q].attachment \in Attachments \ {a}
    BY <1>1, <1>3, <1>4 DEF Pool!TypeOK, RunsHold
  <2> QED BY <1>3, <2>1 DEF RunsHold
<1> QED BY <1>5, <1>7, <1>8, <1>9, <1>10

LEMMA FinishKeeps ==
  ASSUME PoolInv, NEW r \in Runs, Pool!Finish(r)
  PROVE  PoolInv'
<1>1. CASE runs[r].stage \in {"open", "late"} /\ Pool!release(r)
  <2> DEFINE a == runs[r].attachment
  <2> DEFINE key == attachments[a].key
  <2>1. a # None /\ attachments[a].stage = "attached"
    BY <1>1 DEF PoolInv, RunsHold
  <2>2. a \in Attachments /\ key \in Keys /\ EntryHolds(key, a)
    BY <2>1, SharedIsAttached
  <2>3. /\ runs' = [runs EXCEPT ![r] = Pool!IdleRun]
        /\ \/ /\ live[key].count # 1
              /\ live' = [live EXCEPT ![key].count = @ - 1]
              /\ UNCHANGED <<tail, attachments>>
           \/ /\ live[key].count = 1
              /\ live' = [live EXCEPT ![key] = Pool!NoEntry]
              /\ tail' = [tail EXCEPT ![key] = a]
              /\ attachments' = [attachments EXCEPT ![a].stage = "detaching"]
    BY <1>1 DEF Pool!release, Pool!LeavesNobody
  <2> HIDE DEF a, key
  <2>4. a = runs[r].attachment /\ key = attachments[a].key
    BY DEF a, key
  <2>5. CASE live[key].count # 1
    BY <1>1, <2>2, <2>3, <2>4, <2>5, ReleaseKeeps
  <2>6. CASE live[key].count = 1
    BY <1>1, <2>1, <2>2, <2>3, <2>4, <2>6, LastReleaseKeeps
  <2> QED BY <2>5, <2>6
<1>2. CASE runs[r].stage = "refused" /\ runs' = [runs EXCEPT ![r] = Pool!IdleRun]
           /\ UNCHANGED <<live, tail, attachments>>
  <2>1. /\ runs'[r] = Pool!IdleRun /\ \A q \in Runs \ {r} : runs'[q] = runs[q]
        /\ runs[r].attachment = None
    BY <1>2 DEF PoolInv, Pool!TypeOK, RunsHold
  <2>2. \A q \in Runs : runs'[q].attachment = runs[q].attachment
    BY <2>1 DEF Pool!IdleRun, None
  <2>3. Pool!TypeOK'
    BY <1>2 DEF PoolInv, Pool!TypeOK, Pool!IdleRun, Pool!RunStages
  <2>4. DetachesHold'
    BY <1>2 DEF PoolInv, DetachesHold
  <2>5. \A q \in Runs : runs'[q] = Pool!IdleRun \/ runs'[q] = runs[q]
    BY <2>1
  <2>6. RunsHold'
    BY <1>2, <2>5 DEF PoolInv, RunsHold, Pool!IdleRun, None, Pool!None
  <2> QED BY <1>2, <2>2, <2>3, <2>4, <2>6, StagesMove
<1> QED BY <1>1, <1>2 DEF Pool!Finish

LEMMA PoolSteps ==
  ASSUME PoolInv, [Pool!Next]_poolVars
  PROVE  PoolInv'
<1>1. ASSUME NEW r \in Runs, NEW key \in Keys, Pool!Mount(r, key)
      PROVE  PoolInv'
  <2>1. runs[r] = Pool!IdleRun
    BY <1>1 DEF Pool!Mount
  <2>2. CASE Pool!Share(r, key)
    BY <2>1, <2>2, ShareKeeps
  <2>3. CASE \E a \in Attachments : Pool!Create(r, key, a)
    BY <2>1, <2>3, CreateKeeps
  <2> QED BY <1>1, <2>2, <2>3 DEF Pool!Mount, Pool!acquire
<1>2. ASSUME NEW r \in Runs, Pool!Resume(r) \/ Pool!Unmount(r)
      PROVE  PoolInv'
  BY <1>2, RunKeeps
<1>3. ASSUME NEW r \in Runs, Pool!Finish(r)
      PROVE  PoolInv'
  BY <1>3, FinishKeeps
<1>4. ASSUME NEW a \in Attachments, Pool!Attach(a) \/ Pool!Ready(a)
      PROVE  PoolInv'
  BY <1>4, AttachKeeps
<1>5. ASSUME NEW a \in Attachments, Pool!Refused(a)
      PROVE  PoolInv'
  BY <1>5, RefusedKeeps
<1>6. ASSUME NEW a \in Attachments, Pool!Detached(a)
      PROVE  PoolInv'
  BY <1>6, DetachedKeeps
<1>7. CASE UNCHANGED poolVars
  <2>1. UNCHANGED <<live, tail, attachments, runs>>
    BY <1>7 DEF poolVars
  <2>2. Pool!TypeOK' /\ DetachesHold' /\ RunsHold'
    BY <2>1 DEF PoolInv, Pool!TypeOK, DetachesHold, RunsHold
  <2> QED BY <2>1, <2>2, StagesMove
<1> QED BY <1>1, <1>2, <1>3, <1>4, <1>5, <1>6, <1>7 DEF Pool!Next

LEMMA PoolCounts == PoolInv => CountsSharers
<1> SUFFICES ASSUME PoolInv PROVE CountsSharers
  OBVIOUS
<1>1. ASSUME NEW key \in Keys
      PROVE  IF live[key] = Pool!NoEntry
               THEN \A r \in Runs : runs[r].attachment # Pool!None =>
                      attachments[runs[r].attachment].key # key
               ELSE live[key].count = Cardinality(Pool!Sharing(live[key].attachment))
  <2>1. CASE live[key] = Pool!NoEntry
    BY <2>1 DEF PoolInv, SharesHold, Pool!NoEntry, None
  <2>2. CASE live[key] # Pool!NoEntry
    <3> PICK a \in Attachments : EntryHolds(key, a)
      BY <2>2 DEF PoolInv, EntriesHold
    <3> QED BY <2>2 DEF EntryHolds
  <2> QED BY <2>1, <2>2
<1>2. Pool!OpenIsAttached
  BY DEF PoolInv, RunsHold, SharesHold, Pool!OpenIsAttached
<1> QED BY <1>1, <1>2 DEF CountsSharers, Pool!CountsSharers, Pool!Cardinality, Cardinality,
                          Pool!IsFiniteSet, IsFiniteSet

\* The count of an entry is the number of runs that hold or await its
\* attachment, and whoever shows a document has it attached (attach-pool.ts,
\* acquire and release), for any number of documents, runs and attachments.
THEOREM AlwaysCountsSharers == Spec => []CountsSharers
<1>1. Init => PoolInv
  BY PoolStarts DEF Init
<1>2. PoolInv /\ [Next]_vars => PoolInv'
  BY PartsMove, PoolSteps
<1> QED BY <1>1, <1>2, PoolCounts, PTL DEF Spec

\* What Yorkie has been asked for a key: for nothing, or for an attachment at the
\* stage s.
StatusIs(key, s) ==
  \/ /\ s = "detached"
     /\ \A a \in Attachments : attachments[a].key = key =>
          attachments[a].stage \in {"unused", "waiting"}
  \/ \E a \in Attachments : /\ attachments[a].key = key
                           /\ attachments[a].stage = s /\ s \notin {"unused", "waiting"}

\* No key has been asked for twice, so its status is the one that was found.
LEMMA StatusFound ==
  PoolInv => \A key \in Keys, s \in Yorkie!Statuses : StatusIs(key, s) => Pool!StatusOf(key) = s
<1> SUFFICES ASSUME PoolInv, NEW key \in Keys, NEW s \in Yorkie!Statuses, StatusIs(key, s)
             PROVE  Pool!StatusOf(key) = s
  OBVIOUS
<1>1. CASE s = "detached" /\ Pool!Asked(key) = {}
  <2>1. Cardinality(Pool!Asked(key)) = 0
    BY <1>1, FS_EmptySet
  <2>2. Pool!Cardinality(Pool!Asked(key)) # 1
    BY <2>1 DEF Pool!Cardinality, Cardinality, Pool!IsFiniteSet, IsFiniteSet
  <2> QED BY <1>1, <2>2 DEF Pool!StatusOf
<1>2. CASE \E a \in Attachments : /\ attachments[a].key = key
                                /\ attachments[a].stage = s /\ s \notin {"unused", "waiting"}
  <2> PICK a \in Attachments : /\ attachments[a].key = key
                              /\ attachments[a].stage = s /\ s \notin {"unused", "waiting"}
    BY <1>2
  <2>1. \A b \in Pool!Asked(key) : \/ attachments[b].stage = "detaching" /\ tail[key] = b
                                  \/ /\ attachments[b].stage \in {"attaching", "attached"}
                                     /\ tail[key] = None /\ live[key].attachment = b
    BY DEF PoolInv, Pool!TypeOK, Pool!Stages, Pool!Asked, SharesHold, DetachesHold, Attaches
  <2>2. a \in Pool!Asked(key) /\ Pool!Asked(key) \subseteq Attachments
    BY DEF Pool!Asked
  <2>3. \A b \in Pool!Asked(key) : b = a
    BY <2>1, <2>2, NoneAssumption DEF None
  <2>4. Pool!Asked(key) = {a}
    BY <2>2, <2>3
  <2>5. Cardinality(Pool!Asked(key)) = 1
    BY <2>4, FS_Singleton
  <2>6. Pool!Cardinality(Pool!Asked(key)) = 1
    BY <2>5 DEF Pool!Cardinality, Cardinality, Pool!IsFiniteSet, IsFiniteSet
  <2> QED BY <2>4, <2>6 DEF Pool!StatusOf
<1> QED BY <1>1, <1>2 DEF StatusIs, Pool!Asked

LEMMA StatusFoundNext ==
  (PoolInv => \A key \in Keys, s \in Yorkie!Statuses : StatusIs(key, s) => Pool!StatusOf(key) = s)'
BY StatusFound, PTL

\* Every key has a status.
LEMMA StatusExists ==
  ASSUME PoolInv, NEW key \in Keys
  PROVE  \E s \in Yorkie!Statuses : StatusIs(key, s)
<1>1. \A a \in Attachments : attachments[a].stage \in Pool!Stages
  BY DEF PoolInv, Pool!TypeOK
<1>2. CASE \A a \in Attachments : attachments[a].key = key =>
             attachments[a].stage \in {"unused", "waiting"}
  BY <1>2 DEF StatusIs, Yorkie!Statuses
<1>3. ASSUME NEW a \in Attachments, attachments[a].key = key,
             attachments[a].stage \notin {"unused", "waiting"}
      PROVE  \E s \in Yorkie!Statuses : StatusIs(key, s)
  <2>1. attachments[a].stage \in Yorkie!Statuses
    BY <1>1, <1>3 DEF Pool!Stages, Yorkie!Statuses
  <2>2. StatusIs(key, attachments[a].stage)
    BY <1>3 DEF StatusIs
  <2> QED BY <2>1, <2>2
<1> QED BY <1>2, <1>3

\* A key whose attachments keep their stages, but for one that Yorkie is not asked
\* for, keeps its status.
LEMMA StatusKept ==
  ASSUME PoolInv, PoolInv', NEW key \in Keys,
         \A a \in Attachments : \A s \in {"attaching", "attached", "detaching"} :
           (attachments'[a].key = key /\ attachments'[a].stage = s)
             <=> (attachments[a].key = key /\ attachments[a].stage = s)
  PROVE  Pool!StatusOf(key)' = Pool!StatusOf(key)
<1> PICK s \in Yorkie!Statuses : StatusIs(key, s)
  BY StatusExists
<1>1. \A a \in Attachments : /\ attachments[a].stage \in Pool!Stages
                            /\ attachments'[a].stage \in Pool!Stages
  BY DEF PoolInv, Pool!TypeOK
<1>2. StatusIs(key, s)'
  BY <1>1 DEF StatusIs, Pool!Stages
<1>3. Pool!StatusOf(key) = s /\ Pool!StatusOf(key)' = s
  BY <1>2, StatusFound, StatusFoundNext
<1> QED BY <1>3

\* A step of one attachment is a step of the client about its key.
LEMMA StageMoves ==
  ASSUME PoolInv, PoolInv', NEW a \in Attachments, NEW key \in Keys,
         NEW from \in Yorkie!Statuses, NEW to \in Yorkie!Statuses,
         StatusIs(key, from), StatusIs(key, to)',
         attachments[a].key = key, attachments'[a].key \in {key, None},
         \A b \in Attachments \ {a} : /\ attachments'[b].key = attachments[b].key
                                     /\ attachments'[b].stage = attachments[b].stage
  PROVE  Yorkie!Changes(key, from, to)
<1>1. Pool!StatusOf(key) = from /\ Pool!StatusOf(key)' = to
  BY StatusFound, StatusFoundNext
<1>2. ASSUME NEW k \in Keys \ {key}
      PROVE  Pool!StatusOf(k)' = Pool!StatusOf(k)
  BY StatusKept, NoneAssumption DEF None
<1> HIDE DEF Pool!StatusOf
<1>3. [k \in Keys |-> Pool!StatusOf(k)]'
        = [[k \in Keys |-> Pool!StatusOf(k)] EXCEPT ![key] = to]
  BY <1>1, <1>2
<1> QED BY <1>1, <1>3 DEF Yorkie!Changes

\* Of one key, Yorkie is asked for one attachment at a time.
LEMMA OneAsked ==
  ASSUME PoolInv, NEW a \in Attachments, NEW b \in Attachments,
         attachments[a].key = attachments[b].key,
         attachments[a].stage \in {"attaching", "attached", "detaching"},
         attachments[b].stage \in {"attaching", "attached", "detaching"}
  PROVE  a = b
BY NoneAssumption DEF PoolInv, SharesHold, DetachesHold, Attaches, None

LEMMA PoolStepsKeepRules ==
  ASSUME PoolInv, PoolInv', [Pool!Next]_poolVars
  PROVE  [Yorkie!Next]_[key \in Keys |-> Pool!StatusOf(key)]
<1> DEFINE Same == [key \in Keys |-> Pool!StatusOf(key)]' = [key \in Keys |-> Pool!StatusOf(key)]
<1>1. ASSUME \A a \in Attachments : \A s \in {"attaching", "attached", "detaching"} :
               \A key \in Keys :
                 (attachments'[a].key = key /\ attachments'[a].stage = s)
                   <=> (attachments[a].key = key /\ attachments[a].stage = s)
      PROVE  Same
  <2>1. ASSUME NEW key \in Keys
        PROVE  Pool!StatusOf(key)' = Pool!StatusOf(key)
    BY <1>1, StatusKept
  <2> HIDE DEF Pool!StatusOf
  <2> QED BY <2>1
<1>2. \A a \in Attachments : attachments[a].stage \in Pool!Stages
  BY DEF PoolInv, Pool!TypeOK
<1>3. ASSUME NEW r \in Runs, NEW key \in Keys, Pool!Mount(r, key)
      PROVE  Same
  <2>1. CASE Pool!Share(r, key)
    BY <1>1, <2>1 DEF Pool!Share
  <2>2. ASSUME NEW a \in Attachments, Pool!Create(r, key, a)
        PROVE  Same
    <3>1. /\ attachments[a].stage = "unused" /\ attachments'[a].stage = "waiting"
          /\ \A b \in Attachments \ {a} : attachments'[b] = attachments[b]
      BY <2>2 DEF Pool!Create, Pool!Unused, PoolInv, Pool!TypeOK
    <3> QED BY <1>1, <3>1
  <2> QED BY <1>3, <2>1, <2>2 DEF Pool!Mount, Pool!acquire
<1>4. ASSUME NEW r \in Runs, Pool!Resume(r) \/ Pool!Unmount(r)
      PROVE  Same
  BY <1>1, <1>4 DEF Pool!Resume, Pool!Unmount
<1>5. ASSUME NEW a \in Attachments, Pool!Attach(a)
      PROVE  Yorkie!Next
  <2>1. /\ attachments[a].stage = "waiting" /\ attachments[a].before = None
        /\ attachments'[a].stage = "attaching" /\ attachments'[a].key = attachments[a].key
        /\ \A b \in Attachments \ {a} : attachments'[b] = attachments[b]
    BY <1>5 DEF Pool!Attach, Pool!Moves, PoolInv, Pool!TypeOK, None
  <2> PICK key \in Keys : key = attachments[a].key
    BY <2>1 DEF PoolInv, SharesHold, Attaches
  <2>2. live[key].attachment = a /\ tail[key] = None
    BY <2>1 DEF PoolInv, SharesHold, DetachesHold, Attaches
  <2>3. StatusIs(key, "detached")
    <3> SUFFICES ASSUME NEW b \in Attachments, attachments[b].key = key
                 PROVE  attachments[b].stage \in {"unused", "waiting"}
      BY DEF StatusIs
    <3>1. CASE b = a
      BY <2>1, <3>1
    <3>2. CASE b # a
      BY <1>2, <2>2, <3>2, NoneAssumption
      DEF PoolInv, SharesHold, DetachesHold, Attaches, Pool!Stages, None
    <3> QED BY <3>1, <3>2
  <2>4. StatusIs(key, "attaching")'
    BY <2>1 DEF StatusIs
  <2>5. Yorkie!Changes(key, "detached", "attaching")
    BY <2>1, <2>3, <2>4, StageMoves DEF Yorkie!Statuses
  <2> QED BY <2>5 DEF Yorkie!Next, Yorkie!Attach
<1>6. ASSUME NEW a \in Attachments, Pool!Ready(a)
      PROVE  Yorkie!Next
  <2>1. /\ attachments[a].stage = "attaching"
        /\ attachments'[a].stage = "attached" /\ attachments'[a].key = attachments[a].key
        /\ \A b \in Attachments \ {a} : attachments'[b] = attachments[b]
    BY <1>6 DEF Pool!Ready, Pool!Moves, PoolInv, Pool!TypeOK
  <2> PICK key \in Keys : key = attachments[a].key
    BY <2>1 DEF PoolInv, SharesHold, Attaches
  <2>2. StatusIs(key, "attaching") /\ StatusIs(key, "attached")'
    BY <2>1 DEF StatusIs
  <2>3. Yorkie!Changes(key, "attaching", "attached")
    BY <2>1, <2>2, StageMoves DEF Yorkie!Statuses
  <2> QED BY <2>3 DEF Yorkie!Next, Yorkie!Attached
<1>7. ASSUME NEW a \in Attachments, Pool!Refused(a)
      PROVE  Yorkie!Next
  <2>1. /\ attachments[a].stage = "attaching"
        /\ attachments'[a].stage = "unused" /\ attachments'[a].key = None
        /\ \A b \in Attachments \ {a} : attachments'[b] = attachments[b]
    BY <1>7 DEF Pool!Refused, Pool!Unused, PoolInv, Pool!TypeOK, None
  <2> PICK key \in Keys : key = attachments[a].key
    BY <2>1 DEF PoolInv, SharesHold, Attaches
  <2>2. StatusIs(key, "attaching")
    BY <2>1 DEF StatusIs
  <2>3. StatusIs(key, "detached")'
    <3>1. \A b \in Attachments \ {a} :
            attachments[b].key = key => attachments[b].stage \in {"unused", "waiting"}
      BY <1>2, <2>1, OneAsked DEF Pool!Stages
    <3> QED BY <2>1, <3>1 DEF StatusIs
  <2>4. Yorkie!Changes(key, "attaching", "detached")
    BY <2>1, <2>2, <2>3, StageMoves DEF Yorkie!Statuses
  <2> QED BY <2>4 DEF Yorkie!Next, Yorkie!Refused
<1>8. ASSUME NEW r \in Runs, Pool!Finish(r)
      PROVE  Same \/ Yorkie!Next
  <2>1. CASE UNCHANGED attachments
    BY <1>1, <2>1
  <2>2. CASE ~UNCHANGED attachments
    <3>1. /\ runs[r].stage \in {"open", "late"}
          /\ attachments' = [attachments EXCEPT ![runs[r].attachment].stage = "detaching"]
      BY <1>8, <2>2 DEF Pool!Finish, Pool!release
    <3>2. /\ runs[r].attachment \in Attachments
          /\ attachments[runs[r].attachment].key \in Keys
          /\ attachments[runs[r].attachment].stage = "attached"
      BY <3>1, SharedIsAttached DEF PoolInv, RunsHold
    <3> PICK a \in Attachments : a = runs[r].attachment
      BY <3>2
    <3> PICK key \in Keys : key = attachments[a].key
      BY <3>2
    <3>3. /\ attachments[a].stage = "attached"
          /\ attachments'[a].stage = "detaching" /\ attachments'[a].key = key
          /\ \A b \in Attachments \ {a} : attachments'[b] = attachments[b]
      BY <3>1, <3>2 DEF PoolInv, Pool!TypeOK
    <3>4. StatusIs(key, "attached") /\ StatusIs(key, "detaching")'
      BY <3>3 DEF StatusIs
    <3>5. Yorkie!Changes(key, "attached", "detaching")
      BY <3>3, <3>4, StageMoves DEF Yorkie!Statuses
    <3> QED BY <3>5 DEF Yorkie!Next, Yorkie!Detach
  <2> QED BY <2>1, <2>2
<1>9. ASSUME NEW a \in Attachments, Pool!Detached(a)
      PROVE  Yorkie!Next
  <2>1. /\ attachments[a].stage = "detaching"
        /\ attachments'[a].stage = "unused" /\ attachments'[a].key = None
        /\ \A b \in Attachments \ {a} : /\ attachments'[b].key = attachments[b].key
                                        /\ attachments'[b].stage = attachments[b].stage
    BY <1>9 DEF Pool!Detached, Pool!Unused, PoolInv, Pool!TypeOK, None
  <2> PICK key \in Keys : key = attachments[a].key
    BY <2>1 DEF PoolInv, DetachesHold
  <2>2. StatusIs(key, "detaching")
    BY <2>1 DEF StatusIs
  <2>3. StatusIs(key, "detached")'
    <3>1. \A b \in Attachments \ {a} :
            attachments[b].key = key => attachments[b].stage \in {"unused", "waiting"}
      BY <1>2, <2>1, OneAsked DEF Pool!Stages
    <3> QED BY <2>1, <3>1 DEF StatusIs
  <2>4. Yorkie!Changes(key, "detaching", "detached")
    BY <2>1, <2>2, <2>3, StageMoves DEF Yorkie!Statuses
  <2> QED BY <2>4 DEF Yorkie!Next, Yorkie!Detached
<1>10. ASSUME UNCHANGED poolVars
       PROVE  Same
  BY <1>1, <1>10 DEF poolVars
<1>11. Same \/ Yorkie!Next
  <2> HIDE DEF Same
  <2>1. CASE Pool!Next
    BY <1>3, <1>4, <1>5, <1>6, <1>7, <1>8, <1>9, <2>1 DEF Pool!Next
  <2> QED BY <1>10, <2>1
<1> QED BY <1>11

LEMMA PoolStartsDetached == Pool!Init => Yorkie!Init
<1> SUFFICES ASSUME Pool!Init PROVE Yorkie!Init
  OBVIOUS
<1>1. PoolInv
  BY PoolStarts
<1>2. \A key \in Keys : StatusIs(key, "detached")
  BY DEF Pool!Init, Pool!Unused, StatusIs
<1>3. \A key \in Keys : Pool!StatusOf(key) = "detached"
  BY <1>1, <1>2, StatusFound DEF Yorkie!Statuses
<1> HIDE DEF Pool!StatusOf
<1> QED BY <1>3 DEF Yorkie!Init

\* What the pool asks of Yorkie keeps to the rules of its client
\* (attach-pool.ts, "Yorkie refuses a second attach of a key"): the pool
\* implements YorkieClient under the status it gives each key.
THEOREM AlwaysKeepsClientRules == Spec => KeepsClientRules
<1>1. Init => PoolInv /\ Yorkie!Init
  BY PoolStarts, PoolStartsDetached DEF Init
<1>2. PoolInv /\ [Next]_vars => PoolInv'
  BY PartsMove, PoolSteps
<1>3. PoolInv /\ PoolInv' /\ [Next]_vars => [Yorkie!Next]_[key \in Keys |-> Pool!StatusOf(key)]
  BY PartsMove, PoolStepsKeepRules
<1> QED BY <1>1, <1>2, <1>3, PTL DEF Spec, KeepsClientRules, Yorkie!Spec

-----------------------------------------------------------------------------
(* The messages of the chat *)

\* A stable sort of entries that differ: it keeps them all and orders them.
LEMMA SortedOrders ==
  ASSUME NEW s, NEW places \in SUBSET Nat, IsFiniteSet(places),
         \A i \in places : s[i] \in Nat,
         \A i, j \in places : s[i] = s[j] => i = j,
         NEW r, r = Chats!Sorted(s, places)
  PROVE  /\ Cardinality(places) \in Nat
         /\ r = [n \in 1..Cardinality(places) |-> r[n]]
         /\ \A n \in DOMAIN r : \E i \in places : r[n] = s[i]
         /\ \A i \in places : \E n \in DOMAIN r : r[n] = s[i]
         /\ \A n, o \in DOMAIN r : n < o => r[n] < r[o]
<1> DEFINE upto(i) == {j \in places : ~Chats!Before(s, i, j)}
           N == Cardinality(places)
           rank == [i \in places |-> Cardinality(upto(i))]
           at(n) == CHOOSE i \in places : Cardinality(upto(i)) = n
<1>1. N \in Nat
  BY FS_CardinalityType
<1>2. ASSUME NEW i \in places
      PROVE  IsFiniteSet(upto(i)) /\ rank[i] \in 1..N
  <2>1. upto(i) \subseteq places /\ i \in upto(i)
    BY DEF Chats!Before
  <2> HIDE DEF upto
  <2>2. /\ IsFiniteSet(upto(i)) /\ Cardinality(upto(i)) \in Nat
        /\ Cardinality(upto(i)) <= N /\ Cardinality(upto(i)) # 0
    BY <2>1, FS_Subset, FS_CardinalityType, FS_EmptySet
  <2>3. rank[i] = Cardinality(upto(i))
    OBVIOUS
  <2> HIDE DEF rank, N
  <2> QED BY <1>1, <2>2, <2>3
<1>3. ASSUME NEW i \in places, NEW j \in places, s[i] < s[j]
      PROVE  rank[i] < rank[j]
  <2>1. upto(i) \subseteq upto(j) /\ j \in upto(j) /\ j \notin upto(i)
    <3>1. s[i] \in Nat /\ s[j] \in Nat /\ j \in Nat
      OBVIOUS
    <3>2. j \in upto(j) /\ j \notin upto(i)
      BY <1>3, <3>1 DEF Chats!Before
    <3>3. ASSUME NEW k \in upto(i)
          PROVE  k \in upto(j)
      <4>1. k \in places /\ s[k] \in Nat
        OBVIOUS
      <4>2. ~(s[i] < s[k])
        BY DEF Chats!Before
      <4>3. ~(s[j] < s[k]) /\ s[j] # s[k]
        BY <1>3, <3>1, <4>1, <4>2
      <4> QED BY <4>1, <4>3 DEF Chats!Before
    <3> QED BY <3>2, <3>3
  <2> HIDE DEF upto
  <2>2. Cardinality(upto(i)) <= Cardinality(upto(j)) /\ Cardinality(upto(i)) # Cardinality(upto(j))
    BY <1>2, <2>1, FS_Subset
  <2>3. rank[i] = Cardinality(upto(i)) /\ rank[j] = Cardinality(upto(j))
    OBVIOUS
  <2>4. rank[i] \in 1..N /\ rank[j] \in 1..N
    BY <1>2
  <2> HIDE DEF rank, N
  <2> QED BY <1>1, <2>2, <2>3, <2>4
<1>4. rank \in [places -> 1..N]
  <2>1. \A i \in places : rank[i] \in 1..N
    BY <1>2
  <2> HIDE DEF upto, N
  <2> QED BY <2>1
<1>5. \A i, j \in places : rank[i] = rank[j] => i = j
  <2> SUFFICES ASSUME NEW i \in places, NEW j \in places, i # j
               PROVE  rank[i] # rank[j]
    OBVIOUS
  <2>1. s[i] < s[j] \/ s[j] < s[i]
    OBVIOUS
  <2>2. rank[i] \in 1..N /\ rank[j] \in 1..N
    BY <1>4
  <2> HIDE DEF rank, N
  <2> QED BY <1>1, <1>3, <2>1, <2>2
<1>6. rank \in Surjection(places, 1..N)
  <2> HIDE DEF rank
  <2>1. rank \in Injection(places, 1..N)
    BY <1>4, <1>5 DEF Injection, IsInjective
  <2>2. IsFiniteSet(1..N) /\ Cardinality(1..N) = N
    <3> HIDE DEF N
    <3> QED BY <1>1, FS_Interval
  <2> QED BY <2>1, <2>2, FS_Injection
<1>7. r = [n \in 1..N |-> s[at(n)]]
  BY Zenon DEF Chats!Sorted, Chats!Cardinality, Cardinality, Chats!IsFiniteSet, IsFiniteSet
<1>8. ASSUME NEW n \in 1..N
      PROVE  at(n) \in places /\ rank[at(n)] = n
  <2>1. \E i \in places : rank[i] = n
    <3> HIDE DEF rank, N
    <3> QED BY <1>6 DEF Surjection
  <2>2. \E i \in places : Cardinality(upto(i)) = n
    BY <2>1
  <2>3. at(n) \in places /\ Cardinality(upto(at(n))) = n
    <3> HIDE DEF upto, N
    <3> QED BY <2>2
  <2> QED BY <2>3
<1> HIDE DEF at, rank, N
<1>9. ASSUME NEW i \in places
      PROVE  \E n \in DOMAIN r : r[n] = s[i]
  <2>1. rank[i] \in 1..N
    BY <1>2
  <2>2. at(rank[i]) = i
    BY <1>5, <1>8, <2>1
  <2> QED BY <1>7, <2>1, <2>2
<1>10. ASSUME NEW n \in 1..N, NEW o \in 1..N, n < o
       PROVE  r[n] < r[o]
  <2> PICK i \in places : i = at(n) /\ rank[i] = n
    BY <1>8
  <2> PICK j \in places : j = at(o) /\ rank[j] = o
    BY <1>8
  <2>1. r[n] = s[i] /\ r[o] = s[j]
    BY <1>7
  <2>2. i # j
    BY <1>1, <1>10
  <2>3. ~(s[j] < s[i])
    BY <1>1, <1>3, <1>10
  <2> QED BY <2>1, <2>2, <2>3
<1>11. N = Cardinality(places)
  BY DEF N
<1> QED BY <1>1, <1>7, <1>8, <1>9, <1>10, <1>11

\* Each message once, and in the order of the store.
InOrder(s) == \A i, j \in DOMAIN s : i < j => s[i] < s[j]

Members(s) == {s[i] : i \in DOMAIN s}

\* A merge adds what is new and leaves every message once and in order.
LEMMA MergeOrders ==
  ASSUME NEW N \in Nat, NEW current \in Seq(1..N), NEW incoming \in Seq(1..N),
         InOrder(current), InOrder(incoming),
         NEW r, r = Chats!merge(current, incoming)
  PROVE  r \in Seq(1..N) /\ InOrder(r) /\ Members(r) = Members(current) \cup Members(incoming)
<1> DEFINE L == Len(current)
           M == Len(incoming)
           all == current \o incoming
           places == {i \in DOMAIN all : i <= Len(current) \/ all[i] \notin Chats!ToSet(current)}
<1>1. /\ L \in Nat /\ M \in Nat /\ DOMAIN current = 1..L /\ DOMAIN incoming = 1..M
      /\ DOMAIN all = 1..(L + M)
      /\ \A i \in 1..L : all[i] = current[i] /\ current[i] \in 1..N
      /\ \A i \in 1..M : all[L + i] = incoming[i] /\ incoming[i] \in 1..N
  OBVIOUS
<1>2. Chats!ToSet(current) = Members(current)
  BY DEF Chats!ToSet, Members
<1>3. r = Chats!Sorted(all, places)
  BY Zenon DEF Chats!merge
<1>4. \A i \in 1..L : i \in places
  BY <1>1
<1>5. \A i \in 1..M : L + i \in places <=> incoming[i] \notin Members(current)
  BY <1>1, <1>2
<1>6. ASSUME NEW i \in places
      PROVE  \/ i \in 1..L
             \/ \E j \in 1..M : i = L + j /\ incoming[j] \notin Members(current)
  <2>1. i \in 1..(L + M)
    BY <1>1
  <2>2. CASE i > L
    <3>1. i - L \in 1..M /\ i = L + (i - L)
      BY <1>1, <2>1, <2>2
    <3> QED BY <1>5, <3>1
  <2> QED BY <1>1, <2>1, <2>2
<1>7. places \in SUBSET Nat /\ IsFiniteSet(places)
  <2>1. places \subseteq 1..(L + M)
    BY <1>1
  <2> HIDE DEF places, all, L, M
  <2>2. IsFiniteSet(1..(L + M))
    BY <1>1, FS_Interval
  <2>3. IsFiniteSet(places)
    BY <2>1, <2>2, FS_Subset
  <2>4. 1..(L + M) \subseteq Nat
    BY <1>1
  <2> QED BY <2>1, <2>3, <2>4
<1> HIDE DEF places, all, L, M
<1>8. ASSUME NEW i \in places
      PROVE  all[i] \in 1..N /\ all[i] \in Members(current) \cup Members(incoming)
  <2>1. CASE i \in 1..L
    BY <1>1, <2>1 DEF Members
  <2>2. CASE \E j \in 1..M : i = L + j /\ incoming[j] \notin Members(current)
    BY <1>1, <2>2 DEF Members
  <2> QED BY <1>6, <2>1, <2>2
<1>9. \A i, j \in 1..L : current[i] = current[j] => i = j
  <2> SUFFICES ASSUME NEW i \in 1..L, NEW j \in 1..L, i < j
               PROVE  current[i] # current[j]
    BY <1>1
  <2>1. current[i] < current[j]
    BY <1>1 DEF InOrder
  <2>2. current[i] \in Nat /\ current[j] \in Nat
    BY <1>1
  <2> QED BY <2>1, <2>2
<1>10. \A i, j \in 1..M : incoming[i] = incoming[j] => i = j
  <2> SUFFICES ASSUME NEW i \in 1..M, NEW j \in 1..M, i < j
               PROVE  incoming[i] # incoming[j]
    BY <1>1
  <2>1. incoming[i] < incoming[j]
    BY <1>1 DEF InOrder
  <2>2. incoming[i] \in Nat /\ incoming[j] \in Nat
    BY <1>1
  <2> QED BY <2>1, <2>2
<1>11. ASSUME NEW i \in places, NEW j \in places, all[i] = all[j]
       PROVE  i = j
  <2>1. CASE i \in 1..L /\ j \in 1..L
    BY <1>1, <1>9, <1>11, <2>1
  <2>2. CASE i \in 1..L /\ j \notin 1..L
    BY <1>1, <1>6, <1>11, <2>2 DEF Members
  <2>3. CASE i \notin 1..L /\ j \in 1..L
    BY <1>1, <1>6, <1>11, <2>3 DEF Members
  <2>4. CASE i \notin 1..L /\ j \notin 1..L
    <3> PICK m \in 1..M : i = L + m
      BY <1>6, <2>4
    <3> PICK n \in 1..M : j = L + n
      BY <1>6, <2>4
    <3> QED BY <1>1, <1>10, <1>11
  <2> QED BY <2>1, <2>2, <2>3, <2>4
<1>12. /\ Cardinality(places) \in Nat
       /\ r = [n \in 1..Cardinality(places) |-> r[n]]
       /\ \A n \in DOMAIN r : \E i \in places : r[n] = all[i]
       /\ \A i \in places : \E n \in DOMAIN r : r[n] = all[i]
       /\ InOrder(r)
  <2>1. \A i \in places : all[i] \in Nat
    BY <1>8
  <2>2. \A i, j \in places : all[i] = all[j] => i = j
    BY <1>11
  <2> QED BY <1>3, <1>7, <2>1, <2>2, SortedOrders DEF InOrder
<1>13. \A n \in DOMAIN r : r[n] \in 1..N
  BY <1>8, <1>12
<1>14. r \in Seq(1..N)
  <2> PICK C \in Nat : r = [n \in 1..C |-> r[n]]
    BY <1>12
  <2>1. DOMAIN r = 1..C
    OBVIOUS
  <2>2. r \in [1..C -> 1..N]
    BY <1>13, <2>1
  <2> QED BY <2>2
<1>15. Members(r) \subseteq Members(current) \cup Members(incoming)
  <2>1. ASSUME NEW n \in DOMAIN r
        PROVE  r[n] \in Members(current) \cup Members(incoming)
    <3> PICK i \in places : r[n] = all[i]
      BY <1>12
    <3> QED BY <1>8
  <2> HIDE DEF Members
  <2>2. \A x \in Members(r) : \E n \in DOMAIN r : x = r[n]
    BY DEF Members
  <2> QED BY <2>1, <2>2
<1>16. ASSUME NEW i \in 1..L
       PROVE  current[i] \in Members(r)
  BY <1>1, <1>4, <1>12 DEF Members
<1>17. ASSUME NEW i \in 1..M
       PROVE  incoming[i] \in Members(current) \cup Members(r)
  <2>1. CASE incoming[i] \in Members(current)
    BY <2>1
  <2>2. CASE incoming[i] \notin Members(current)
    <3>1. L + i \in places /\ all[L + i] = incoming[i]
      BY <1>1, <1>5, <2>2
    <3> PICK n \in DOMAIN r : r[n] = all[L + i]
      BY <1>12, <3>1
    <3> QED BY <3>1 DEF Members
  <2> QED BY <2>1, <2>2
<1>18. Members(current) \subseteq Members(r)
  BY <1>1, <1>16 DEF Members
<1>19. Members(incoming) \subseteq Members(r)
  BY <1>1, <1>17, <1>18 DEF Members
<1> QED BY <1>12, <1>14, <1>15, <1>18, <1>19
-----------------------------------------------------------------------------
(* What the panel shows *)

\* A message is shown, or is on its way to this browser.
Reaches(m) == m \in Members(messages) \cup Members(feed)

\* The requests for the history that a store of this length may have answered.
Backfills ==
  [current : BOOLEAN, handled : BOOLEAN, holds : 0..Len(stored)]

\* The answer of this socket's request holds what does not reach the panel else.
BackfillHolds(b) ==
  b.current =>
    /\ socket.state = "open"
    /\ b.handled => \A m \in Chats!Ids : m > b.holds => Reaches(m)

PanelTypes ==
  /\ stored \in Seq(Sends \cup {"others"})
  /\ socket \in [state : {"down", "registered", "open"},
                 history : {"awaited", "merged", "refused"}]
  /\ feed \in Seq(Chats!Ids) /\ messages \in Seq(Chats!Ids)
  /\ backfills \in Seq(Backfills)

\* What the history of this socket brings, and what came after it was read.
PanelInv ==
  /\ PanelTypes
  /\ InOrder(messages)
  /\ socket.history # "awaited" => socket.state = "open"
  /\ socket.history = "merged" => \A m \in Chats!Ids : Reaches(m)
  /\ \A b \in Members(backfills) : BackfillHolds(b)

-----------------------------------------------------------------------------
(* What a send stores *)

SendTypes ==
  /\ files \in [Sends -> Nat] /\ lost \in [Sends -> Nat]
  /\ pending \in [Sends -> [state : {"none", "sending", "failed", "done"},
                            file : {"none", "held", "stored"}]]
  /\ requests \in [Sends -> {"idle", "upload", "uploaded", "post", "posted"}]

\* The messages of a send, and what its owner knows or is about to hear of them.
MessagesOf(k) == {m \in Chats!Ids : stored[m] = k}

PostDue(k) == IF requests[k] = "posted" \/ pending[k].state = "done" THEN 1 ELSE 0

FileDue(k) == IF requests[k] = "uploaded" \/ pending[k].file = "stored" THEN 1 ELSE 0

SendHolds(k) ==
  /\ requests[k] # "idle" => pending[k].state = "sending"
  /\ requests[k] \in {"upload", "uploaded"} => pending[k].file = "held"
  /\ pending[k].state = "none" => pending[k].file = "none"
  /\ requests[k] = "posted" =>
       \E m \in MessagesOf(k) : \A n \in MessagesOf(k) : n <= m
  /\ Cardinality(MessagesOf(k)) + files[k] <= lost[k] + PostDue(k) + FileDue(k)

SendInv == SendTypes /\ \A k \in Sends : SendHolds(k)

LEMMA MessagesCounted ==
  ASSUME Len(stored) \in Nat, NEW k
  PROVE  IsFiniteSet(MessagesOf(k)) /\ Cardinality(MessagesOf(k)) \in Nat
<1>1. IsFiniteSet(1..Len(stored))
  BY FS_Interval
<1>2. MessagesOf(k) \in SUBSET (1..Len(stored))
  BY DEF MessagesOf, Chats!Ids
<1> QED BY <1>1, <1>2, FS_Subset, FS_CardinalityType

\* A message that is accepted is the newest, and one more of its sender's.
LEMMA Accepted ==
  ASSUME stored \in Seq(Sends \cup {"others"}),
         NEW sender \in Sends \cup {"others"}, stored' = Append(stored, sender)
  PROVE  /\ stored' \in Seq(Sends \cup {"others"})
         /\ Len(stored) \in Nat /\ Len(stored') = Len(stored) + 1
         /\ Chats!Ids' = Chats!Ids \cup {Len(stored')}
         /\ \A k \in Sends :
              MessagesOf(k)' = MessagesOf(k) \cup (IF k = sender THEN {Len(stored')} ELSE {})
<1>1. /\ stored' \in Seq(Sends \cup {"others"})
      /\ Len(stored) \in Nat /\ Len(stored') = Len(stored) + 1
      /\ \A m \in 1..Len(stored) : stored'[m] = stored[m]
      /\ stored'[Len(stored')] = sender
  OBVIOUS
<1>2. 1..Len(stored') = 1..Len(stored) \cup {Len(stored')}
  BY <1>1
<1>3. \A m \in 1..Len(stored) : m # Len(stored')
  BY <1>1
<1>4. ASSUME NEW k \in Sends
      PROVE  MessagesOf(k)' = MessagesOf(k) \cup (IF k = sender THEN {Len(stored')} ELSE {})
  BY <1>1, <1>2, <1>3 DEF MessagesOf, Chats!Ids
<1> QED BY <1>1, <1>2, <1>4 DEF Chats!Ids

LEMMA SendStarts == Chats!Init => SendInv
<1> SUFFICES ASSUME Chats!Init PROVE SendInv
  OBVIOUS
<1>1. SendTypes
  BY DEF Chats!Init, SendTypes, Chats!NotSent, Chats!Idle
<1>2. ASSUME NEW k \in Sends
      PROVE  SendHolds(k)
  <2>1. MessagesOf(k) = {}
    BY SendsAssumption DEF Chats!Init, MessagesOf, Chats!Ids
  <2>2. Cardinality(MessagesOf(k)) = 0
    BY <2>1, FS_EmptySet
  <2> QED BY <2>2 DEF Chats!Init, Chats!NotSent, Chats!Idle, SendHolds, PostDue, FileDue
<1> QED BY <1>1, <1>2 DEF SendInv

\* A step of one send leaves the others as they are.
LEMMA OneSendMoves ==
  ASSUME SendInv, SendTypes', NEW k \in Sends, SendHolds(k)',
         \A j \in Sends \ {k} :
           /\ files'[j] = files[j] /\ lost'[j] = lost[j]
           /\ pending'[j] = pending[j] /\ requests'[j] = requests[j]
           /\ MessagesOf(j)' = MessagesOf(j)
  PROVE  SendInv'
<1>1. ASSUME NEW j \in Sends \ {k}
      PROVE  SendHolds(j)'
  BY <1>1 DEF SendInv, SendHolds, PostDue, FileDue
<1> QED BY <1>1 DEF SendInv

LEMMA SendSteps ==
  ASSUME SendInv, stored \in Seq(Sends \cup {"others"}), [Chats!Next]_chatVars
  PROVE  SendInv'
<1> USE DEF Chats!network, Chats!client, Chats!NotSent, Chats!Idle, Chats!FirstStep
<1>1. SendTypes /\ Len(stored) \in Nat /\ \A k \in Sends : SendHolds(k)
  BY DEF SendInv
<1>2. \A k \in Sends : Cardinality(MessagesOf(k)) \in Nat /\ IsFiniteSet(MessagesOf(k))
  BY <1>1, MessagesCounted
<1>3. ASSUME UNCHANGED stored
      PROVE  \A k \in Sends : MessagesOf(k)' = MessagesOf(k)
  BY <1>3 DEF MessagesOf, Chats!Ids
<1>4. ASSUME NEW k \in Sends, Chats!submit(k)
      PROVE  SendInv'
  <2>1. /\ UNCHANGED <<files, lost>> /\ UNCHANGED stored
        /\ pending[k].state = "none"
        /\ \E file \in {"none", "held"} :
             /\ pending' = [pending EXCEPT ![k] = [state |-> "sending", file |-> file]]
             /\ requests' = [requests EXCEPT ![k] = IF file = "held" THEN "upload" ELSE "post"]
    BY <1>4 DEF Chats!submit
  <2> PICK file \in {"none", "held"} :
             /\ pending' = [pending EXCEPT ![k] = [state |-> "sending", file |-> file]]
             /\ requests' = [requests EXCEPT ![k] = IF file = "held" THEN "upload" ELSE "post"]
    BY <2>1
  <2>2. SendTypes'
    BY <1>1, <2>1 DEF SendTypes
  <2>3. SendHolds(k)'
    BY <1>1, <1>2, <1>3, <2>1 DEF SendHolds, SendTypes, PostDue, FileDue
  <2> QED BY <1>1, <1>3, <2>1, <2>2, <2>3, OneSendMoves DEF SendTypes
<1>5. ASSUME NEW k \in Sends, Chats!Resend(k)
      PROVE  SendInv'
  <2>1. /\ UNCHANGED <<files, lost>> /\ UNCHANGED stored
        /\ pending[k].state = "failed"
        /\ pending' = [pending EXCEPT ![k].state = "sending"]
        /\ requests' = [requests EXCEPT ![k] = IF pending[k].file = "held" THEN "upload" ELSE "post"]
    BY <1>5 DEF Chats!Resend
  <2>2. SendTypes'
    BY <1>1, <2>1 DEF SendTypes
  <2>3. SendHolds(k)'
    BY <1>1, <1>2, <1>3, <2>1 DEF SendHolds, SendTypes, PostDue, FileDue
  <2> QED BY <1>1, <1>3, <2>1, <2>2, <2>3, OneSendMoves DEF SendTypes
<1>6. ASSUME NEW k \in Sends, Chats!UploadHandled(k)
      PROVE  SendInv'
  <2>1. /\ UNCHANGED <<pending, lost>> /\ UNCHANGED stored
        /\ requests[k] = "upload"
        /\ files' = [files EXCEPT ![k] = @ + 1]
        /\ requests' = [requests EXCEPT ![k] = "uploaded"]
    BY <1>6 DEF Chats!UploadHandled
  <2>2. SendTypes'
    BY <1>1, <2>1 DEF SendTypes
  <2>3. SendHolds(k)'
    <3>1. /\ requests'[k] = "uploaded" /\ pending'[k] = pending[k] /\ files'[k] = files[k] + 1
          /\ MessagesOf(k)' = MessagesOf(k) /\ lost'[k] = lost[k]
          /\ files[k] \in Nat /\ lost[k] \in Nat /\ Cardinality(MessagesOf(k)) \in Nat
      BY <1>1, <1>2, <1>3, <2>1 DEF SendTypes
    <3>2. /\ pending[k].state = "sending" /\ pending[k].file = "held"
          /\ Cardinality(MessagesOf(k)) + files[k] <= lost[k] + PostDue(k) + FileDue(k)
      BY <1>1, <2>1 DEF SendHolds
    <3>3. PostDue(k) = 0 /\ FileDue(k) = 0 /\ PostDue(k)' = 0 /\ FileDue(k)' = 1
      BY <2>1, <3>1, <3>2 DEF PostDue, FileDue
    <3>4. Cardinality(MessagesOf(k)') + files'[k] <= lost'[k] + PostDue(k)' + FileDue(k)'
      BY <3>1, <3>2, <3>3
    <3> QED BY <3>1, <3>2, <3>4 DEF SendHolds
  <2> QED BY <1>1, <1>3, <2>1, <2>2, <2>3, OneSendMoves DEF SendTypes
<1>7. ASSUME NEW k \in Sends, Chats!UploadAnswered(k)
      PROVE  SendInv'
  <2>1. /\ UNCHANGED <<files, lost>> /\ UNCHANGED stored
        /\ requests[k] = "uploaded"
        /\ pending' = [pending EXCEPT ![k].file = "stored"]
        /\ requests' = [requests EXCEPT ![k] = "post"]
    BY <1>7 DEF Chats!UploadAnswered
  <2>2. SendTypes'
    BY <1>1, <2>1 DEF SendTypes
  <2>3. SendHolds(k)'
    BY <1>1, <1>2, <1>3, <2>1 DEF SendHolds, SendTypes, PostDue, FileDue
  <2> QED BY <1>1, <1>3, <2>1, <2>2, <2>3, OneSendMoves DEF SendTypes
<1>8. ASSUME NEW k \in Sends, Chats!PostHandled(k)
      PROVE  SendInv'
  <2>1. /\ UNCHANGED <<files, pending, lost>>
        /\ requests[k] = "post" /\ stored' = Append(stored, k)
        /\ requests' = [requests EXCEPT ![k] = "posted"]
    BY <1>8 DEF Chats!PostHandled, Chats!Accept
  <2>2. SendTypes'
    BY <1>1, <2>1 DEF SendTypes
  <2>3. /\ MessagesOf(k)' = MessagesOf(k) \cup {Len(stored')}
        /\ \A j \in Sends \ {k} : MessagesOf(j)' = MessagesOf(j)
        /\ Len(stored') = Len(stored) + 1
    BY <2>1, Accepted
  <2>4. \A n \in MessagesOf(k) : n <= Len(stored)
    BY <1>1 DEF MessagesOf, Chats!Ids
  <2>5. MessagesOf(k) \subseteq Nat
    BY <1>1 DEF MessagesOf, Chats!Ids
  <2>6. Cardinality(MessagesOf(k)') = Cardinality(MessagesOf(k)) + 1
    <3>1. Len(stored') \notin MessagesOf(k)
      BY <1>1, <2>3, <2>4
    <3> QED BY <1>2, <2>3, <3>1, FS_AddElement
  <2>7. \E m \in MessagesOf(k)' : \A n \in MessagesOf(k)' : n <= m
    <3>1. Len(stored') \in MessagesOf(k)'
      BY <2>3
    <3>2. \A n \in MessagesOf(k)' : n <= Len(stored')
      BY <1>1, <2>3, <2>4, <2>5
    <3> QED BY <3>1, <3>2
  <2>8. SendHolds(k)'
    <3>1. requests'[k] = "posted" /\ pending'[k] = pending[k] /\ pending[k].state = "sending"
      BY <1>1, <2>1 DEF SendHolds, SendTypes
    <3>2. PostDue(k)' = 1 /\ PostDue(k) = 0 /\ FileDue(k)' = FileDue(k) /\ FileDue(k) \in {0, 1}
      BY <2>1, <3>1 DEF PostDue, FileDue
    <3>3. /\ Cardinality(MessagesOf(k)) + files[k] <= lost[k] + PostDue(k) + FileDue(k)
          /\ files[k] \in Nat /\ lost[k] \in Nat /\ files'[k] = files[k] /\ lost'[k] = lost[k]
      BY <1>1, <2>1 DEF SendHolds, SendTypes
    <3>4. Cardinality(MessagesOf(k)') + files'[k] <= lost'[k] + PostDue(k)' + FileDue(k)'
      BY <1>2, <2>6, <3>2, <3>3
    <3>5. pending[k].state = "none" => pending[k].file = "none"
      BY <1>1 DEF SendHolds
    <3> QED BY <2>7, <3>1, <3>4, <3>5 DEF SendHolds
  <2> QED BY <1>1, <2>1, <2>2, <2>3, <2>8, OneSendMoves DEF SendTypes
<1>9. ASSUME NEW k \in Sends, Chats!PostAnswered(k)
      PROVE  SendInv'
  <2>1. /\ UNCHANGED <<files, lost>> /\ UNCHANGED stored
        /\ requests[k] = "posted"
        /\ pending' = [pending EXCEPT ![k].state = "done"]
        /\ requests' = [requests EXCEPT ![k] = "idle"]
    BY <1>9 DEF Chats!PostAnswered
  <2>2. SendTypes'
    BY <1>1, <2>1 DEF SendTypes
  <2>3. SendHolds(k)'
    BY <1>1, <1>2, <1>3, <2>1 DEF SendHolds, SendTypes, PostDue, FileDue
  <2> QED BY <1>1, <1>3, <2>1, <2>2, <2>3, OneSendMoves DEF SendTypes
<1>10. ASSUME NEW k \in Sends, Chats!RequestFails(k)
      PROVE  SendInv'
  <2>1. /\ UNCHANGED files /\ UNCHANGED stored
        /\ requests[k] # "idle"
        /\ lost' = IF requests[k] \in {"uploaded", "posted"}
                   THEN [lost EXCEPT ![k] = @ + 1] ELSE lost
        /\ pending' = [pending EXCEPT ![k].state = "failed"]
        /\ requests' = [requests EXCEPT ![k] = "idle"]
    BY <1>10 DEF Chats!RequestFails
  <2>2. SendTypes'
    <3>1. lost' \in [Sends -> Nat]
      BY <1>1, <2>1 DEF SendTypes
    <3> QED BY <1>1, <2>1, <3>1 DEF SendTypes
  <2>3. SendHolds(k)'
    BY <1>1, <1>2, <1>3, <2>1 DEF SendHolds, SendTypes, PostDue, FileDue
  <2> QED BY <1>1, <1>3, <2>1, <2>2, <2>3, OneSendMoves DEF SendTypes
<1>11. CASE UNCHANGED <<stored, files, pending, requests, lost>>
  BY <1>1, <1>3, <1>11 DEF SendInv, SendTypes, SendHolds, PostDue, FileDue
<1>12. CASE Chats!OthersSend
  <2>1. UNCHANGED <<files, pending, requests, lost>> /\ stored' = Append(stored, "others")
    BY <1>12 DEF Chats!OthersSend, Chats!Accept
  <2>2. \A k \in Sends : MessagesOf(k)' = MessagesOf(k)
    BY <2>1, Accepted, SendsAssumption
  <2> QED BY <1>1, <2>1, <2>2 DEF SendInv, SendTypes, SendHolds, PostDue, FileDue
<1>13. CASE Chats!Listen \/ Chats!Drop \/ Chats!BackfillFails
  <2>1. UNCHANGED <<stored, files, pending, requests, lost>>
    BY <1>13 DEF Chats!Listen, Chats!Connect, Chats!Open, Chats!Receive, Chats!BackfillHandled,
                 Chats!BackfillAnswered, Chats!Drop, Chats!BackfillFails
  <2> QED BY <1>11, <2>1
<1>14. CASE UNCHANGED chatVars
  BY <1>11, <1>14 DEF chatVars
<1> QED BY <1>4, <1>5, <1>6, <1>7, <1>8, <1>9, <1>10, <1>12, <1>13, <1>14
        DEF Chats!Next, Chats!Deliver

-----------------------------------------------------------------------------

LEMMA SequencesGrow ==
  ASSUME NEW s, NEW m \in Nat, NEW n \in Nat, m <= n, s \in Seq(1..m)
  PROVE  s \in Seq(1..n)
<1>1. 1..m \subseteq 1..n
  OBVIOUS
<1>2. s \in [1..Len(s) -> 1..n] /\ Len(s) \in Nat
  BY <1>1
<1> QED BY <1>2

LEMMA FunctionsCount ==
  ASSUME NEW S, NEW n \in Nat, NEW s \in [1..n -> S]
  PROVE  s \in Seq(S)
OBVIOUS

LEMMA MembersGrow ==
  ASSUME NEW S, NEW s \in Seq(S), NEW x \in S
  PROVE  Append(s, x) \in Seq(S) /\ Members(Append(s, x)) = Members(s) \cup {x}
<1>1. /\ Append(s, x) \in Seq(S) /\ Len(s) \in Nat
      /\ DOMAIN s = 1..Len(s) /\ DOMAIN Append(s, x) = 1..(Len(s) + 1)
      /\ \A i \in 1..Len(s) : Append(s, x)[i] = s[i]
      /\ Append(s, x)[Len(s) + 1] = x
  OBVIOUS
<1> DEFINE r == Append(s, x)
<1> HIDE DEF r
<1>2. 1..(Len(s) + 1) = 1..Len(s) \cup {Len(s) + 1}
  BY <1>1
<1>3. DOMAIN r = 1..Len(s) \cup {Len(s) + 1} /\ \A i \in 1..Len(s) : r[i] = s[i]
  BY <1>1, <1>2 DEF r
<1>4. r[Len(s) + 1] = x
  BY <1>1 DEF r
<1>5. Members(r) = Members(s) \cup {x}
  BY <1>1, <1>3, <1>4 DEF Members
<1> QED BY <1>1, <1>5 DEF r

LEMMA MembersShift ==
  ASSUME NEW S, NEW s \in Seq(S), s # <<>>
  PROVE  /\ Head(s) \in S /\ Tail(s) \in Seq(S)
         /\ Members(s) = Members(Tail(s)) \cup {Head(s)}
<1>1. /\ Head(s) \in S /\ Tail(s) \in Seq(S) /\ Head(s) = s[1]
      /\ Len(s) \in Nat /\ Len(s) >= 1
      /\ DOMAIN s = 1..Len(s) /\ DOMAIN Tail(s) = 1..(Len(s) - 1)
      /\ \A i \in 1..(Len(s) - 1) : Tail(s)[i] = s[i + 1]
  OBVIOUS
<1> DEFINE r == Tail(s)
<1> HIDE DEF r
<1>2. DOMAIN r = 1..(Len(s) - 1) /\ \A i \in 1..(Len(s) - 1) : r[i] = s[i + 1]
  BY <1>1 DEF r
<1>3. \A i \in 1..Len(s) : i = 1 \/ (i - 1 \in DOMAIN r /\ s[i] = r[i - 1])
  BY <1>1, <1>2
<1>4. \A i \in DOMAIN r : i + 1 \in DOMAIN s /\ r[i] = s[i + 1]
  BY <1>1, <1>2
<1>5. 1 \in DOMAIN s
  BY <1>1
<1>6. Members(s) = Members(r) \cup {s[1]}
  <2>1. \A x \in Members(s) : x \in Members(r) \cup {s[1]}
    BY <1>1, <1>3 DEF Members
  <2>2. \A x \in Members(r) : x \in Members(s)
    BY <1>4 DEF Members
  <2>3. s[1] \in Members(s)
    BY <1>5 DEF Members
  <2> QED BY <2>1, <2>2, <2>3
<1> QED BY <1>1, <1>6 DEF r

LEMMA MembersLeave ==
  ASSUME NEW S, NEW s \in Seq(S), NEW i \in DOMAIN s
  PROVE  /\ Chats!RemoveAt(s, i) \in Seq(S)
         /\ Members(Chats!RemoveAt(s, i)) \subseteq Members(s)
<1> DEFINE r == Chats!RemoveAt(s, i)
<1>1. /\ r \in Seq(S) /\ Len(s) \in Nat /\ i \in 1..Len(s) /\ DOMAIN s = 1..Len(s)
      /\ DOMAIN r = 1..(Len(s) - 1)
      /\ \A j \in 1..(Len(s) - 1) : r[j] = IF j < i THEN s[j] ELSE s[j + 1]
  BY DEF Chats!RemoveAt
<1> HIDE DEF r
<1>2. ASSUME NEW j \in DOMAIN r
      PROVE  r[j] \in Members(s)
  <2>1. j \in DOMAIN s /\ j + 1 \in DOMAIN s
    BY <1>1
  <2>2. r[j] = s[j] \/ r[j] = s[j + 1]
    BY <1>1
  <2> QED BY <2>1, <2>2 DEF Members
<1>3. Members(r) \subseteq Members(s)
  BY <1>2 DEF Members
<1> QED BY <1>1, <1>3 DEF r

-----------------------------------------------------------------------------

LEMMA PanelStarts == Chats!Init => PanelInv
<1> SUFFICES ASSUME Chats!Init PROVE PanelInv
  OBVIOUS
<1>1. /\ stored = <<"others">> /\ feed = <<>> /\ messages = <<>> /\ backfills = <<>>
      /\ socket = [state |-> "down", history |-> "awaited"]
  BY DEF Chats!Init, Chats!Down
<1>2. PanelTypes
  BY <1>1 DEF PanelTypes
<1>3. Members(backfills) = {}
  BY <1>1 DEF Members
<1>4. InOrder(messages)
  BY <1>1 DEF InOrder
<1> QED BY <1>1, <1>2, <1>3, <1>4 DEF PanelInv

\* A message that is accepted reaches every socket that the hub knows.
LEMMA AcceptKeepsPanel ==
  ASSUME PanelInv, NEW sender \in Sends \cup {"others"}, Chats!Accept(sender),
         UNCHANGED <<socket, backfills, messages>>
  PROVE  PanelInv'
<1>1. PanelTypes
  BY DEF PanelInv
<1>2. /\ stored' = Append(stored, sender)
      /\ feed' = IF socket.state = "down" THEN feed ELSE Append(feed, Len(stored'))
  BY DEF Chats!Accept
<1>3. /\ stored' \in Seq(Sends \cup {"others"})
      /\ Len(stored) \in Nat /\ Len(stored') = Len(stored) + 1
      /\ Chats!Ids' = Chats!Ids \cup {Len(stored')}
  BY <1>1, <1>2, Accepted DEF PanelTypes
<1>4. feed \in Seq(Chats!Ids') /\ messages \in Seq(Chats!Ids')
  <2>1. /\ feed \in Seq(1..Len(stored)) /\ messages \in Seq(1..Len(stored))
        /\ Len(stored) <= Len(stored') /\ Len(stored') \in Nat
    BY <1>1, <1>3 DEF PanelTypes, Chats!Ids
  <2>2. feed \in Seq(1..Len(stored')) /\ messages \in Seq(1..Len(stored'))
    BY <1>3, <2>1, SequencesGrow
  <2> QED BY <2>2 DEF Chats!Ids
<1>5. /\ feed' \in Seq(Chats!Ids') /\ Members(feed) \subseteq Members(feed')
      /\ socket.state # "down" => Len(stored') \in Members(feed')
  <2>1. Len(stored') \in Chats!Ids'
    BY <1>3
  <2> QED BY <1>2, <1>4, <2>1, MembersGrow
<1>6. backfills \in Seq(Backfills')
  <2>1. Backfills \subseteq Backfills'
    <3>1. 0..Len(stored) \subseteq 0..Len(stored')
      BY <1>3
    <3> QED BY <3>1 DEF Backfills
  <2>2. backfills \in [1..Len(backfills) -> Backfills] /\ Len(backfills) \in Nat
    BY <1>1 DEF PanelTypes
  <2> QED BY <2>1, <2>2
<1>7. PanelTypes'
  BY <1>1, <1>3, <1>4, <1>5, <1>6 DEF PanelTypes
<1>8. \A m \in Chats!Ids : Reaches(m) => Reaches(m)'
  BY <1>5 DEF Reaches
<1> PICK n \in Nat : n = Len(stored')
  BY <1>3
<1>9. socket.state = "open" => Reaches(n)'
  BY <1>5 DEF Reaches
<1>10. ASSUME NEW b \in Members(backfills)
       PROVE  BackfillHolds(b)'
  <2>1. BackfillHolds(b)
    BY DEF PanelInv
  <2> QED BY <1>3, <1>8, <1>9, <2>1 DEF BackfillHolds
<1>11. socket.history = "merged" => \A m \in Chats!Ids' : Reaches(m)'
  BY <1>3, <1>8, <1>9 DEF PanelInv
<1> QED BY <1>7, <1>10, <1>11 DEF PanelInv

\* What reached the panel keeps reaching it.
LEMMA PanelGrows ==
  ASSUME PanelInv, UNCHANGED stored,
         PanelTypes', InOrder(messages'),
         \A m \in Chats!Ids : Reaches(m) => Reaches(m)',
         Members(backfills') \subseteq Members(backfills),
         socket'.state = socket.state,
         socket'.history # "awaited" => socket'.state = "open",
         socket'.history = "merged" =>
           socket.history = "merged" \/ \A m \in Chats!Ids : Reaches(m)'
  PROVE  PanelInv'
<1>1. Chats!Ids' = Chats!Ids
  BY DEF Chats!Ids
<1>2. ASSUME NEW b \in Members(backfills)
      PROVE  BackfillHolds(b)'
  <2>1. BackfillHolds(b)
    BY DEF PanelInv
  <2> QED BY <1>1, <2>1 DEF BackfillHolds
<1>3. socket'.history = "merged" => \A m \in Chats!Ids' : Reaches(m)'
  BY <1>1 DEF PanelInv
<1> QED BY <1>2, <1>3 DEF PanelInv

\* Messages that are merged reach the panel, and the others still do.
LEMMA MergeReaches ==
  ASSUME PanelInv, UNCHANGED stored,
         NEW incoming \in Seq(Chats!Ids), InOrder(incoming),
         messages' = Chats!merge(messages, incoming),
         Members(feed) \subseteq Members(feed') \cup Members(incoming)
  PROVE  /\ messages' \in Seq(Chats!Ids) /\ InOrder(messages')
         /\ \A m \in Chats!Ids : Reaches(m) => Reaches(m)'
         /\ \A m \in Members(incoming) : Reaches(m)'
<1>1. Len(stored) \in Nat /\ messages \in Seq(Chats!Ids) /\ InOrder(messages)
  BY DEF PanelInv, PanelTypes
<1>2. /\ messages' \in Seq(Chats!Ids) /\ InOrder(messages')
      /\ Members(messages') = Members(messages) \cup Members(incoming)
  BY <1>1, MergeOrders DEF Chats!Ids
<1> QED BY <1>2 DEF Reaches

LEMMA PanelSteps ==
  ASSUME PanelInv, SendInv, [Chats!Next]_chatVars
  PROVE  PanelInv'
<1> USE DEF Chats!network, Chats!client
<1>1. PanelTypes /\ Len(stored) \in Nat
  BY DEF PanelInv, PanelTypes
<1>2. ASSUME NEW k \in Sends, Chats!PostHandled(k)
      PROVE  PanelInv'
  BY <1>2, AcceptKeepsPanel DEF Chats!PostHandled
<1>3. CASE Chats!OthersSend
  BY <1>3, AcceptKeepsPanel DEF Chats!OthersSend
<1>4. CASE UNCHANGED <<stored, socket, feed, backfills, messages>>
  <2>1. \A m : Reaches(m)' = Reaches(m)
    BY <1>4 DEF Reaches
  <2>2. PanelTypes'
    BY <1>1, <1>4 DEF PanelTypes, Chats!Ids, Backfills
  <2> QED BY <1>4, <2>1, <2>2, PanelGrows DEF PanelInv
<1>5. ASSUME NEW k \in Sends,
             \/ Chats!submit(k) \/ Chats!Resend(k) \/ Chats!UploadHandled(k)
             \/ Chats!UploadAnswered(k) \/ Chats!RequestFails(k)
      PROVE  PanelInv'
  BY <1>4, <1>5 DEF Chats!submit, Chats!Resend, Chats!UploadHandled, Chats!UploadAnswered,
                    Chats!RequestFails
<1>6. ASSUME NEW k \in Sends, Chats!PostAnswered(k)
      PROVE  PanelInv'
  <2>1. /\ UNCHANGED <<stored, socket, feed, backfills>>
        /\ requests[k] = "posted"
        /\ messages' = Chats!merge(messages, <<Chats!Answer(k)>>)
    BY <1>6 DEF Chats!PostAnswered
  <2>2. \E m \in Chats!Ids : stored[m] = k /\ \A n \in Chats!Ids : stored[n] = k => n <= m
    BY <2>1 DEF SendInv, SendHolds, MessagesOf
  <2>3. Chats!Answer(k) \in Chats!Ids
    BY <2>2 DEF Chats!Answer
  <2> PICK id \in Chats!Ids : id = Chats!Answer(k)
    BY <2>3
  <2>4. <<id>> \in Seq(Chats!Ids) /\ InOrder(<<id>>)
    BY DEF InOrder
  <2>5. /\ messages' \in Seq(Chats!Ids) /\ InOrder(messages')
        /\ \A m \in Chats!Ids : Reaches(m) => Reaches(m)'
    BY <2>1, <2>4, MergeReaches
  <2>6. PanelTypes'
    BY <1>1, <2>1, <2>5 DEF PanelTypes, Chats!Ids, Backfills
  <2> QED BY <2>1, <2>5, <2>6, PanelGrows DEF PanelInv
<1>7. CASE Chats!Receive
  <2>1. /\ UNCHANGED <<stored, socket, backfills>> /\ feed # <<>>
        /\ feed' = Tail(feed)
        /\ messages' = Chats!merge(messages, <<Head(feed)>>)
    BY <1>7 DEF Chats!Receive
  <2>2. /\ Head(feed) \in Chats!Ids /\ Tail(feed) \in Seq(Chats!Ids)
        /\ Members(feed) = Members(Tail(feed)) \cup {Head(feed)}
    BY <1>1, <2>1, MembersShift DEF PanelTypes
  <2> PICK id \in Chats!Ids : id = Head(feed)
    BY <2>2
  <2>3. <<id>> \in Seq(Chats!Ids) /\ InOrder(<<id>>) /\ Members(<<id>>) = {id}
    BY DEF InOrder, Members
  <2>4. /\ messages' \in Seq(Chats!Ids) /\ InOrder(messages')
        /\ \A m \in Chats!Ids : Reaches(m) => Reaches(m)'
    BY <2>1, <2>2, <2>3, MergeReaches
  <2>5. PanelTypes'
    BY <1>1, <2>1, <2>2, <2>4 DEF PanelTypes, Chats!Ids, Backfills
  <2> QED BY <2>1, <2>4, <2>5, PanelGrows DEF PanelInv
<1>8. CASE Chats!Connect
  <2>1. /\ UNCHANGED <<stored, feed, backfills, messages>>
        /\ socket.state = "down" /\ socket.history = "awaited"
        /\ socket' = [socket EXCEPT !.state = "registered"]
    BY <1>8 DEF Chats!Connect, Chats!Down
  <2>2. socket' = [state |-> "registered", history |-> "awaited"]
    BY <1>1, <2>1 DEF PanelTypes
  <2>3. PanelTypes'
    BY <1>1, <2>1, <2>2 DEF PanelTypes, Chats!Ids, Backfills
  <2>4. \A b \in Members(backfills) : BackfillHolds(b)'
    BY <2>1 DEF PanelInv, BackfillHolds
  <2> QED BY <2>1, <2>2, <2>3, <2>4 DEF PanelInv
<1>9. CASE Chats!Open
  <2>1. /\ UNCHANGED <<stored, feed, messages>>
        /\ socket.state = "registered"
        /\ socket' = [socket EXCEPT !.state = "open"]
        /\ backfills' = Append(backfills, Chats!Backfill)
    BY <1>9 DEF Chats!Open
  <2>2. Chats!Backfill \in Backfills
    BY <1>1 DEF Chats!Backfill, Backfills
  <2>3. /\ backfills' \in Seq(Backfills)
        /\ Members(backfills') = Members(backfills) \cup {Chats!Backfill}
    BY <1>1, <2>1, <2>2, MembersGrow DEF PanelTypes
  <2>4. socket'.state = "open" /\ socket'.history = "awaited"
    BY <1>1, <2>1 DEF PanelInv, PanelTypes
  <2>5. PanelTypes'
    BY <1>1, <2>1, <2>3 DEF PanelTypes, Chats!Ids, Backfills
  <2>6. ASSUME NEW b \in Members(backfills')
        PROVE  BackfillHolds(b)'
    <3>1. CASE b \in Members(backfills)
      BY <2>1, <3>1 DEF PanelInv, BackfillHolds
    <3>2. CASE b = Chats!Backfill
      BY <2>4, <3>2 DEF BackfillHolds, Chats!Backfill
    <3> QED BY <2>3, <3>1, <3>2
  <2> QED BY <2>1, <2>4, <2>5, <2>6 DEF PanelInv
<1>10. CASE Chats!Drop
  <2>1. /\ UNCHANGED <<stored, messages>>
        /\ socket' = [state |-> "down", history |-> "awaited"] /\ feed' = <<>>
        /\ backfills' = [i \in DOMAIN backfills |-> [backfills[i] EXCEPT !.current = FALSE]]
    BY <1>10 DEF Chats!Drop, Chats!Down
  <2>2. ASSUME NEW i \in DOMAIN backfills'
        PROVE  backfills'[i] \in Backfills /\ ~backfills'[i].current
    <3>1. /\ backfills \in [1..Len(backfills) -> Backfills]
          /\ DOMAIN backfills = 1..Len(backfills)
      BY <1>1 DEF PanelTypes
    <3>2. i \in 1..Len(backfills)
      BY <2>1, <3>1
    <3>3. backfills'[i] = [current |-> FALSE, handled |-> backfills[i].handled,
                           holds |-> backfills[i].holds]
      BY <2>1, <3>1, <3>2 DEF Backfills
    <3>4. backfills[i].handled \in BOOLEAN /\ backfills[i].holds \in 0..Len(stored)
      BY <3>1, <3>2 DEF Backfills
    <3> QED BY <3>3, <3>4 DEF Backfills
  <2>3. backfills' \in [1..Len(backfills) -> Backfills] /\ Len(backfills) \in Nat
    BY <1>1, <2>1, <2>2 DEF PanelTypes
  <2>4. backfills' \in Seq(Backfills)
    BY <2>3
  <2>5. PanelTypes'
    BY <1>1, <2>1, <2>4 DEF PanelTypes, Chats!Ids, Backfills
  <2>6. ASSUME NEW b \in Members(backfills')
        PROVE  BackfillHolds(b)'
    BY <2>2 DEF Members, BackfillHolds
  <2> QED BY <2>1, <2>5, <2>6 DEF PanelInv
<1>11. CASE Chats!BackfillHandled
  <2> PICK i \in DOMAIN backfills :
        backfills' = [backfills EXCEPT ![i].handled = TRUE, ![i].holds = Len(stored)]
    BY <1>11 DEF Chats!BackfillHandled
  <2>1. UNCHANGED <<stored, socket, feed, messages>>
    BY <1>11 DEF Chats!BackfillHandled
  <2>2. /\ backfills \in [1..Len(backfills) -> Backfills] /\ Len(backfills) \in Nat
        /\ DOMAIN backfills = 1..Len(backfills)
    BY <1>1 DEF PanelTypes
  <2>3. backfills'[i] = [current |-> backfills[i].current, handled |-> TRUE, holds |-> Len(stored)]
    BY <2>2 DEF Backfills
  <2>4. backfills'[i] \in Backfills
    <3>1. backfills[i] \in Backfills /\ Len(stored) \in 0..Len(stored)
      BY <1>1, <2>2
    <3>2. backfills[i].current \in BOOLEAN
      BY <3>1 DEF Backfills
    <3> QED BY <2>3, <3>1, <3>2 DEF Backfills
  <2>5. \A j \in DOMAIN backfills \ {i} : backfills'[j] = backfills[j]
    BY <2>2
  <2>6. backfills' \in [1..Len(backfills) -> Backfills]
    BY <2>2, <2>4, <2>5
  <2>7. backfills' \in Seq(Backfills)
    <3> PICK n \in Nat : n = Len(backfills)
      BY <2>2
    <3>1. backfills' \in [1..n -> Backfills]
      BY <2>6
    <3> QED BY <3>1, FunctionsCount
  <2>8. PanelTypes'
    BY <1>1, <2>1, <2>7 DEF PanelTypes, Chats!Ids, Backfills
  <2>9. ASSUME NEW b \in Members(backfills')
        PROVE  BackfillHolds(b)'
    <3>1. CASE b \in Members(backfills)
      BY <2>1, <3>1 DEF PanelInv, BackfillHolds, Reaches, Chats!Ids
    <3>2. CASE b = backfills'[i]
      <4>1. BackfillHolds(backfills[i])
        BY DEF PanelInv, Members
      <4>2. b.current => socket'.state = "open"
        BY <2>1, <2>3, <3>2, <4>1 DEF BackfillHolds
      <4>3. \A m \in Chats!Ids' : ~(m > b.holds)
        BY <1>1, <2>1, <2>3, <3>2 DEF Chats!Ids
      <4> QED BY <4>2, <4>3 DEF BackfillHolds
    <3>3. b \in Members(backfills) \/ b = backfills'[i]
      BY <2>5, <2>2, <2>6 DEF Members
    <3> QED BY <3>1, <3>2, <3>3
  <2> QED BY <2>1, <2>8, <2>9 DEF PanelInv, Reaches, Chats!Ids
<1>12. CASE Chats!BackfillAnswered
  <2> PICK i \in DOMAIN backfills :
        /\ backfills[i].handled
        /\ backfills' = Chats!RemoveAt(backfills, i)
        /\ messages' = Chats!merge(messages, [m \in 1..backfills[i].holds |-> m])
        /\ Chats!Told(backfills[i], "merged")
        /\ UNCHANGED <<stored, feed>>
    BY <1>12 DEF Chats!BackfillAnswered
  <2> DEFINE b == backfills[i]
             history == [m \in 1..b.holds |-> m]
  <2>1. b \in Backfills /\ BackfillHolds(b)
    BY <1>1 DEF PanelInv, PanelTypes, Members
  <2>2. /\ backfills' \in Seq(Backfills) /\ Members(backfills') \subseteq Members(backfills)
    BY <1>1, MembersLeave DEF PanelTypes
  <2> HIDE DEF b
  <2>3. b.holds \in Nat /\ b.holds <= Len(stored)
    BY <1>1, <2>1 DEF Backfills
  <2>4. /\ history \in Seq(Chats!Ids) /\ InOrder(history) /\ Members(history) = 1..b.holds
    <3>1. history \in [1..b.holds -> 1..Len(stored)] /\ DOMAIN history = 1..b.holds
      BY <1>1, <2>3
    <3>2. history \in Seq(1..Len(stored))
      BY <2>3, <3>1
    <3> QED BY <3>1, <3>2 DEF InOrder, Members, Chats!Ids
  <2>5. messages' = Chats!merge(messages, history)
    BY DEF b
  <2> HIDE DEF history
  <2>6. /\ messages' \in Seq(Chats!Ids) /\ InOrder(messages')
        /\ \A m \in Chats!Ids : Reaches(m) => Reaches(m)'
        /\ \A m \in 1..b.holds : Reaches(m)'
    BY <2>4, <2>5, MergeReaches
  <2>7. \/ socket' = socket
        \/ socket' = [socket EXCEPT !.history = "merged"] /\ b.current
    BY DEF Chats!Told, b
  <2>8. /\ socket' \in [state : {"down", "registered", "open"},
                        history : {"awaited", "merged", "refused"}]
        /\ socket'.state = socket.state
        /\ \/ socket' = socket
           \/ socket'.history = "merged" /\ b.current
    <3>1. /\ socket = [state |-> socket.state, history |-> socket.history]
          /\ socket.state \in {"down", "registered", "open"}
          /\ socket.history \in {"awaited", "merged", "refused"}
      BY <1>1 DEF PanelTypes
    <3>2. \/ socket' = socket
          \/ socket' = [state |-> socket.state, history |-> "merged"] /\ b.current
      BY <2>7, <3>1
    <3> QED BY <3>1, <3>2
  <2>9. PanelTypes'
    BY <1>1, <2>2, <2>6, <2>8 DEF PanelTypes, Chats!Ids, Backfills
  <2>10. ASSUME b.current
         PROVE  socket.state = "open" /\ \A m \in Chats!Ids : Reaches(m)'
    <3>1. b.handled
      BY DEF b
    <3>2. socket.state = "open" /\ \A m \in Chats!Ids : m > b.holds => Reaches(m)
      BY <2>1, <2>10, <3>1 DEF BackfillHolds
    <3>3. \A m \in Chats!Ids : m > b.holds \/ m \in 1..b.holds
      BY <1>1, <2>3 DEF Chats!Ids
    <3> QED BY <2>6, <3>2, <3>3
  <2> QED BY <2>2, <2>6, <2>8, <2>9, <2>10, PanelGrows DEF PanelInv
<1>13. CASE Chats!BackfillFails
  <2> PICK i \in DOMAIN backfills :
        /\ backfills' = Chats!RemoveAt(backfills, i)
        /\ Chats!Told(backfills[i], "refused")
    BY <1>13 DEF Chats!BackfillFails
  <2> DEFINE b == backfills[i]
  <2>1. UNCHANGED <<stored, feed, messages>>
    BY <1>13 DEF Chats!BackfillFails
  <2>2. BackfillHolds(b)
    BY DEF PanelInv, Members
  <2>3. /\ backfills' \in Seq(Backfills) /\ Members(backfills') \subseteq Members(backfills)
    BY <1>1, MembersLeave DEF PanelTypes
  <2>4. \/ socket' = socket
        \/ socket' = [socket EXCEPT !.history = "refused"] /\ b.current
    BY DEF Chats!Told
  <2> HIDE DEF b
  <2>5. /\ socket' \in [state : {"down", "registered", "open"},
                        history : {"awaited", "merged", "refused"}]
        /\ socket'.state = socket.state
        /\ \/ socket' = socket
           \/ socket'.history = "refused" /\ b.current
    <3>1. /\ socket = [state |-> socket.state, history |-> socket.history]
          /\ socket.state \in {"down", "registered", "open"}
          /\ socket.history \in {"awaited", "merged", "refused"}
      BY <1>1 DEF PanelTypes
    <3>2. \/ socket' = socket
          \/ socket' = [state |-> socket.state, history |-> "refused"] /\ b.current
      BY <2>4, <3>1
    <3> QED BY <3>1, <3>2
  <2>6. PanelTypes'
    BY <1>1, <2>1, <2>3, <2>5 DEF PanelTypes, Chats!Ids, Backfills
  <2>7. \A m \in Chats!Ids : Reaches(m) => Reaches(m)'
    BY <2>1 DEF Reaches
  <2>8. socket'.history # "awaited" => socket'.state = "open"
    BY <2>2, <2>5 DEF PanelInv, BackfillHolds
  <2>9. socket'.history = "merged" => socket.history = "merged"
    BY <2>5
  <2>10. InOrder(messages')
    BY <2>1 DEF PanelInv
  <2> QED BY <2>1, <2>3, <2>5, <2>6, <2>7, <2>8, <2>9, <2>10, PanelGrows
<1>14. CASE UNCHANGED chatVars
  BY <1>4, <1>14 DEF chatVars
<1> QED BY <1>2, <1>3, <1>5, <1>6, <1>7, <1>8, <1>9, <1>10, <1>11, <1>12, <1>13, <1>14
        DEF Chats!Next, Chats!Deliver, Chats!Listen

\* The panel shows every message of the store once and in order while its socket
\* is open, its history merged and no frame on its way (chat-panel.tsx, merge and
\* onopen), for any number of sends, drops and reconnections.
THEOREM AlwaysShowsEveryMessage == Spec => []ShowsEveryMessage
<1>1. Init => PanelInv /\ SendInv
  BY PanelStarts, SendStarts DEF Init
<1>2. PanelInv /\ SendInv /\ [Next]_vars => PanelInv' /\ SendInv'
  BY PartsMove, PanelSteps, SendSteps DEF PanelInv, PanelTypes
<1>3. PanelInv => ShowsEveryMessage
  <2> SUFFICES ASSUME PanelInv PROVE ShowsEveryMessage
    OBVIOUS
  <2>1. \A i \in DOMAIN messages : i > 1 => messages[i - 1] < messages[i]
    <3>1. messages \in Seq(Chats!Ids) /\ InOrder(messages)
      BY DEF PanelInv, PanelTypes
    <3> SUFFICES ASSUME NEW i \in DOMAIN messages, i > 1
                 PROVE  messages[i - 1] < messages[i]
      OBVIOUS
    <3>2. i - 1 \in DOMAIN messages /\ i - 1 < i
      BY <3>1
    <3> QED BY <3>1, <3>2 DEF InOrder
  <2>2. ASSUME socket.history = "merged", feed = <<>>
        PROVE  Chats!ToSet(messages) = Chats!Ids
    <3>1. Members(feed) = {}
      BY <2>2 DEF Members
    <3>2. Chats!Ids \subseteq Members(messages)
      BY <2>2, <3>1 DEF PanelInv, Reaches
    <3>3. Members(messages) \subseteq Chats!Ids
      BY DEF PanelInv, PanelTypes, Members
    <3> QED BY <3>2, <3>3 DEF Members, Chats!ToSet
  <2> QED BY <2>1, <2>2 DEF ShowsEveryMessage, Chats!ShowsEveryMessage
<1> QED BY <1>1, <1>2, <1>3, PTL DEF Spec

\* A send stores its message once, and its file once, unless an answer about them
\* was lost (chat-panel.tsx, deliver), however often it fails and is repeated.
THEOREM AlwaysStoresOnce == Spec => []StoresOnce
<1>1. Init => PanelInv /\ SendInv
  BY PanelStarts, SendStarts DEF Init
<1>2. PanelInv /\ SendInv /\ [Next]_vars => PanelInv' /\ SendInv'
  BY PartsMove, PanelSteps, SendSteps DEF PanelInv, PanelTypes
<1>3. PanelInv /\ SendInv => StoresOnce
  <2> SUFFICES ASSUME PanelInv, SendInv, NEW k \in Sends
               PROVE  Cardinality(MessagesOf(k)) + files[k]
                        <= lost[k] + (IF pending[k].file = "none" THEN 1 ELSE 2)
    BY Zenon DEF StoresOnce, Chats!StoresOnce, MessagesOf, Chats!Cardinality, Cardinality,
                 Chats!IsFiniteSet, IsFiniteSet
  <2>1. Cardinality(MessagesOf(k)) \in Nat
    BY MessagesCounted DEF PanelInv, PanelTypes
  <2>2. SendHolds(k) /\ files[k] \in Nat /\ lost[k] \in Nat
    BY DEF SendInv, SendTypes
  <2>3. FileDue(k) = 1 => pending[k].file # "none"
    BY <2>2 DEF SendHolds, FileDue
  <2> QED BY <2>1, <2>2, <2>3 DEF SendHolds, PostDue, FileDue
<1> QED BY <1>1, <1>2, <1>3, PTL DEF Spec
=============================================================================
