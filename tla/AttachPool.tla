----------------------------- MODULE AttachPool -----------------------------
(***************************************************************************)
(* One attachment per document key, shared by the editor and the floating  *)
(* views: lib/documents/attach-pool.ts, and the effect of                  *)
(* use-block-document.ts that holds a share of it.  A run of that effect   *)
(* acquires when it is mounted and releases after it was torn down, but    *)
(* never before its acquire has settled; React's Strict Mode mounts, tears *)
(* down and mounts again.                                                  *)
(***************************************************************************)
EXTENDS Naturals, FiniteSets

CONSTANTS
  Keys,
  Runs,        \* the runs of the effect that may overlap
  Attachments  \* the attachments that may be alive at the same time

None == "none"

VARIABLES
  live,        \* each key's entry: the attachment it shares, and its count
  tail,        \* each key's last detach that has not landed
  attachments, \* each attachment's stage, its key, the detach it waits for
  runs         \* each run's stage, the attachment it shares, whether torn down

vars == <<live, tail, attachments, runs>>

\* unused: none, or over; waiting: for the detach before; attaching and
\* detaching: Yorkie is asked; attached: ready has resolved.
Stages == {"unused", "waiting", "attaching", "attached", "detaching"}

Unused == [stage |-> "unused", key |-> None, before |-> None]

NoEntry == [attachment |-> None, count |-> 0]

\* idle: not mounted; acquiring: awaits ready; refused: ready was rejected;
\* open: the document is shown; late: resolved after the teardown.
RunStages == {"idle", "acquiring", "refused", "open", "late"}

IdleRun == [stage |-> "idle", attachment |-> None, cancelled |-> FALSE]

TypeOK ==
  /\ live \in [Keys -> [attachment : Attachments \cup {None}, count : Nat]]
  /\ tail \in [Keys -> Attachments \cup {None}]
  /\ attachments \in [Attachments -> [stage : Stages, key : Keys \cup {None},
                                      before : Attachments \cup {None}]]
  /\ runs \in [Runs -> [stage : RunStages,
                        attachment : Attachments \cup {None},
                        cancelled : BOOLEAN]]
  /\ \A a \in Attachments :
       attachments[a].stage = "unused" <=> attachments[a].key = None

Moves(a, from, to) ==
  /\ attachments[a].stage = from
  /\ attachments' = [attachments EXCEPT ![a].stage = to]

-----------------------------------------------------------------------------
(* acquire *)

Acquiring(r, a) ==
  runs' = [runs EXCEPT ![r] =
             [stage |-> "acquiring", attachment |-> a, cancelled |-> FALSE]]

\* The key has an entry: its attachment is shared.
Share(r, key) ==
  /\ live[key] # NoEntry
  /\ live' = [live EXCEPT ![key].count = @ + 1]
  /\ Acquiring(r, live[key].attachment)
  /\ UNCHANGED <<tail, attachments>>

\* Mutant: the next attach does not wait for the detach before it.
CreateAtOnce(r, key, a) ==
  /\ live[key] = NoEntry
  /\ attachments[a] = Unused
  /\ live' = [live EXCEPT ![key] = [attachment |-> a, count |-> 1]]
  /\ attachments' =
       [attachments EXCEPT ![a] =
          [stage |-> "waiting", key |-> key, before |-> None]]
  /\ Acquiring(r, a)
  /\ UNCHANGED tail

\* The key has none: a new attachment, after the detach before it.
Create(r, key, a) ==
  /\ live[key] = NoEntry
  /\ attachments[a] = Unused
  /\ live' = [live EXCEPT ![key] = [attachment |-> a, count |-> 1]]
  /\ attachments' =
       [attachments EXCEPT ![a] =
          [stage |-> "waiting", key |-> key, before |-> tail[key]]]
  /\ Acquiring(r, a)
  /\ UNCHANGED tail

acquire(r, key) ==
  \/ Share(r, key)
  \/ \E a \in Attachments : Create(r, key, a)

Attach(a) ==
  /\ attachments[a].before = None
  /\ Moves(a, "waiting", "attaching")
  /\ UNCHANGED <<live, tail, runs>>

Ready(a) ==
  /\ Moves(a, "attaching", "attached")
  /\ UNCHANGED <<live, tail, runs>>

\* Mutant: an attach that failed stays the key's entry.
RefusedForever(a) ==
  /\ attachments[a].stage = "attaching"
  /\ attachments' = [attachments EXCEPT ![a] = Unused]
  /\ runs' = [r \in Runs |->
                IF runs[r].attachment = a
                  THEN [runs[r] EXCEPT !.stage = "refused", !.attachment = None]
                  ELSE runs[r]]
  /\ UNCHANGED <<live, tail>>

\* The attach fails: whoever shares it is told, and the entry goes if it is
\* still the key's.
Refused(a) ==
  /\ attachments[a].stage = "attaching"
  /\ attachments' = [attachments EXCEPT ![a] = Unused]
  /\ live' = [key \in Keys |->
                IF live[key].attachment = a THEN NoEntry ELSE live[key]]
  /\ runs' = [r \in Runs |->
                IF runs[r].attachment = a
                  THEN [runs[r] EXCEPT !.stage = "refused", !.attachment = None]
                  ELSE runs[r]]
  /\ UNCHANGED tail

-----------------------------------------------------------------------------
(* release *)

\* Somebody else still holds a share.
LeavesNobody(a, key) == live[key].count = 1

release(r) ==
  LET a == runs[r].attachment
      key == attachments[a].key
  IN /\ runs' = [runs EXCEPT ![r] = IdleRun]
     /\ \/ /\ ~LeavesNobody(a, key)
           /\ live' = [live EXCEPT ![key].count = @ - 1]
           /\ UNCHANGED <<tail, attachments>>
        \/ /\ LeavesNobody(a, key)
           /\ live' = [live EXCEPT ![key] = NoEntry]
           /\ tail' = [tail EXCEPT ![key] = a]
           /\ attachments' = [attachments EXCEPT ![a].stage = "detaching"]

\* The detach has landed, or failed because the client is gone: whoever waits
\* for it may go on.
Detached(a) ==
  /\ attachments[a].stage = "detaching"
  /\ attachments' =
       [b \in Attachments |->
          IF b = a THEN Unused
          ELSE IF attachments[b].before = a
                 THEN [attachments[b] EXCEPT !.before = None]
                 ELSE attachments[b]]
  /\ tail' = [key \in Keys |-> IF tail[key] = a THEN None ELSE tail[key]]
  /\ UNCHANGED <<live, runs>>

-----------------------------------------------------------------------------
(* The effect of use-block-document.ts *)

Mount(r, key) ==
  /\ runs[r] = IdleRun
  /\ acquire(r, key)

\* Mutant: a run torn down meanwhile returns without giving its share back.
ResumeForgetful(r) ==
  /\ runs[r].stage = "acquiring"
  /\ attachments[runs[r].attachment].stage = "attached"
  /\ runs' = [runs EXCEPT ![r] =
                IF runs[r].cancelled
                  THEN IdleRun ELSE [runs[r] EXCEPT !.stage = "open"]]
  /\ UNCHANGED <<live, tail, attachments>>

\* The run gets its document, unless it was torn down meanwhile.
Resume(r) ==
  /\ runs[r].stage = "acquiring"
  /\ attachments[runs[r].attachment].stage = "attached"
  /\ runs' = [runs EXCEPT ![r].stage =
                IF runs[r].cancelled THEN "late" ELSE "open"]
  /\ UNCHANGED <<live, tail, attachments>>

Unmount(r) ==
  /\ runs[r].stage \in {"acquiring", "refused", "open"}
  /\ ~runs[r].cancelled
  /\ runs' = [runs EXCEPT ![r].cancelled = TRUE]
  /\ UNCHANGED <<live, tail, attachments>>

\* setup has settled and the run was torn down: its share is given back, if
\* it has one.
Finish(r) ==
  /\ runs[r].cancelled
  /\ \/ /\ runs[r].stage \in {"open", "late"}
        /\ release(r)
     \/ /\ runs[r].stage = "refused"
        /\ runs' = [runs EXCEPT ![r] = IdleRun]
        /\ UNCHANGED <<live, tail, attachments>>

-----------------------------------------------------------------------------
Init ==
  /\ live = [key \in Keys |-> NoEntry]
  /\ tail = [key \in Keys |-> None]
  /\ attachments = [a \in Attachments |-> Unused]
  /\ runs = [r \in Runs |-> IdleRun]

Next ==
  \/ \E r \in Runs :
       \/ \E key \in Keys : Mount(r, key)
       \/ Resume(r)
       \/ Unmount(r)
       \/ Finish(r)
  \/ \E a \in Attachments :
       \/ Attach(a)
       \/ Ready(a)
       \/ Refused(a)
       \/ Detached(a)

\* Yorkie answers, and a settled promise's continuation is run.
Fairness ==
  /\ \A r \in Runs : WF_vars(Resume(r)) /\ WF_vars(Finish(r))
  /\ \A a \in Attachments :
       /\ WF_vars(Attach(a))
       /\ WF_vars(Ready(a) \/ Refused(a))
       /\ WF_vars(Detached(a))

Spec == Init /\ [][Next]_vars /\ Fairness

-----------------------------------------------------------------------------
(* Properties *)

Sharing(a) == {r \in Runs : runs[r].attachment = a}

OpenIsAttached ==
  \A r \in Runs :
    runs[r].stage = "open" =>
      LET a == runs[r].attachment
      IN /\ attachments[a].stage = "attached"
         /\ live[attachments[a].key].attachment = a

\* release, "once per acquire that resolved": the count of an entry is the
\* number of runs that hold or await its attachment, so the last of them, and
\* nobody earlier, detaches it.  So whoever shows a document has it attached,
\* and all who show the same key show the same attachment.
CountsSharers ==
  /\ \A key \in Keys :
       IF live[key] = NoEntry
         THEN \A r \in Runs : runs[r].attachment # None =>
                attachments[runs[r].attachment].key # key
         ELSE live[key].count = Cardinality(Sharing(live[key].attachment))
  /\ OpenIsAttached

\* The attachments of a key that Yorkie has been asked for.
Asked(key) ==
  {a \in Attachments : /\ attachments[a].key = key
                       /\ attachments[a].stage \notin {"unused", "waiting"}}

\* The client's status of a key; none of its steps attaches a key twice.
StatusOf(key) ==
  CASE Asked(key) = {} -> "detached"
    [] Cardinality(Asked(key)) = 1 ->
         attachments[CHOOSE a \in Asked(key) : TRUE].stage
    [] OTHER -> "attached twice"

Client ==
  INSTANCE YorkieClient WITH status <- [key \in Keys |-> StatusOf(key)]

\* attach-pool.ts, "Yorkie refuses a second attach of a key": what the pool asks
\* of Yorkie keeps to the client's rules for every key.
KeepsClientRules == Client!Spec

Abandoned(a) ==
  /\ attachments[a].stage = "attached"
  /\ \A r \in Sharing(a) : runs[r].cancelled

\* use-block-document.ts, "only this run's own successful acquire holds a share
\* to give back": when all who share a document were torn down, at whatever
\* point of its attach, it is detached, unless somebody mounts it again.
NothingLeaks == \A a \in Attachments : Abandoned(a) ~> ~Abandoned(a)
=============================================================================
