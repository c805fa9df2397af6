------------------------------- MODULE Clients -------------------------------
(***************************************************************************)
(* The parts of a browser and of the server's start that talk to a program *)
(* which may refuse, be slow or be gone: the attach pool, the chat panel,  *)
(* the presence connection, the version history, and the registration of   *)
(* the webhook.  They share no state; a behavior moves one of them,        *)
(* `scenario', and leaves the others as they started.                      *)
(***************************************************************************)
EXTENDS Integers, Sequences, FiniteSets

CONSTANTS
  Scenarios,                                 \* the parts that are moved
  Keys, Runs, Attachments,                   \* see AttachPool
  Sends, MaxMessages, MaxFaults,             \* see Chat
  Pages, MaxMounts, MaxMoves,                \* see PresenceClient
  Attempts, MaxStarts, MaxFailures,          \* see Startup
  PageSize, MaxRevisions, MaxChanges, MaxLoads \* see Versions

\* A start asks at least once (yorkie-admin.ts, attempts).
ASSUME AttemptsAssumption == Attempts \in Nat \ {0}

VARIABLES
  scenario,
  live, tail, attachments, runs,
  stored, files, socket, feed, backfills, messages, pending, requests, lost, faults,
  mounts, mounted, step, torn, server, status, client, route, located, place, moves,
  production, configured, yorkie, stage, attempt, unnoticed, starts, failures,
  here, there, revisions, panel, loads, job, changes

Pool == INSTANCE AttachPool
Chats == INSTANCE Chat WITH Keys <- Sends
Presence == INSTANCE PresenceClient
Boot == INSTANCE Startup WITH MaxFaults <- MaxFailures, faults <- failures
History == INSTANCE Versions WITH server <- there

\* Attachments and keys are told from the absence of either.
ASSUME NoneAssumption == Pool!None \notin Keys \cup Attachments

\* A send of this panel is told from those of the others.
ASSUME SendsAssumption == "others" \notin Sends

poolVars == <<live, tail, attachments, runs>>
chatVars == <<stored, files, socket, feed, backfills, messages, pending, requests, lost, faults>>
presenceVars == <<mounts, mounted, step, torn, server, status, client, route, located, place,
                  moves>>
bootVars == <<production, configured, yorkie, stage, attempt, unnoticed, starts, failures>>
historyVars == <<here, there, revisions, panel, loads, job, changes>>

vars == <<scenario, poolVars, chatVars, presenceVars, bootVars, historyVars>>

-----------------------------------------------------------------------------

\* Where a part does not move, one of its starts stands for all.
AsStarted ==
  /\ scenario # "presence" => route = CHOOSE page \in Pages : TRUE
  /\ scenario # "startup" => /\ production /\ configured = Boot!Default
                             /\ yorkie.password = Boot!Default

Init ==
  /\ scenario \in Scenarios
  /\ Pool!Init /\ Chats!Init /\ Presence!Init /\ Boot!Init /\ History!Init
  /\ AsStarted

Next ==
  \/ /\ scenario = "pool" /\ Pool!Next
     /\ UNCHANGED <<scenario, chatVars, presenceVars, bootVars, historyVars>>
  \/ /\ scenario = "chat" /\ Chats!Next
     /\ UNCHANGED <<scenario, poolVars, presenceVars, bootVars, historyVars>>
  \/ /\ scenario = "presence" /\ Presence!Next
     /\ UNCHANGED <<scenario, poolVars, chatVars, bootVars, historyVars>>
  \/ /\ scenario = "startup" /\ Boot!Next
     /\ UNCHANGED <<scenario, poolVars, chatVars, presenceVars, historyVars>>
  \/ /\ scenario = "versions" /\ History!Next
     /\ UNCHANGED <<scenario, poolVars, chatVars, presenceVars, bootVars>>

\* Each part's own fairness, where it moves.
Fairness ==
  /\ \A r \in Runs :
       /\ WF_(poolVars)(scenario = "pool" /\ Pool!Resume(r))
       /\ WF_(poolVars)(scenario = "pool" /\ Pool!Finish(r))
  /\ \A a \in Attachments :
       /\ WF_(poolVars)(scenario = "pool" /\ Pool!Attach(a))
       /\ WF_(poolVars)(scenario = "pool" /\ (Pool!Ready(a) \/ Pool!Refused(a)))
       /\ WF_(poolVars)(scenario = "pool" /\ Pool!Detached(a))
  /\ WF_(chatVars)(scenario = "chat" /\ Chats!Connect)
  /\ WF_(chatVars)(scenario = "chat" /\ Chats!Open)
  /\ WF_(chatVars)(scenario = "chat" /\ Chats!Receive)
  /\ WF_(chatVars)(scenario = "chat" /\ Chats!BackfillHandled)
  /\ WF_(chatVars)(scenario = "chat" /\ Chats!BackfillAnswered)
  /\ \A k \in Sends : WF_(chatVars)(scenario = "chat" /\ Chats!Deliver(k))
  /\ WF_(presenceVars)(scenario = "presence" /\ Presence!Locate)
  /\ \A r \in 1..MaxMounts :
       /\ WF_(presenceVars)(scenario = "presence" /\ Presence!Settle(r))
       /\ WF_(presenceVars)(scenario = "presence" /\ Presence!Teardown(r))

Spec == Init /\ [][Next]_vars /\ Fairness

-----------------------------------------------------------------------------
(* What each of them promises *)

\* Of the shares of an attached document: the count of an entry is the number
\* of runs that hold or await it (attach-pool.ts, release).
CountsSharers == Pool!CountsSharers

\* Of what the pool asks of Yorkie: a key is attached once at a time, and again
\* only after its detach has landed (attach-pool.ts, acquire).
Yorkie == INSTANCE YorkieClient WITH status <- [key \in Keys |-> Pool!StatusOf(key)]

KeepsClientRules == Yorkie!Spec

\* Of documents that nobody shows any more: they are detached, whenever their
\* effect was torn down (use-block-document.ts, the teardown).
NothingLeaks == Pool!NothingLeaks

\* Of the messages of the panel: none is missing, doubled or out of order once
\* its history has arrived (chat-panel.tsx, merge and onopen).
ShowsEveryMessage == Chats!ShowsEveryMessage

\* Of a send that is repeated: it stores nothing twice unless an answer was
\* lost (chat-panel.tsx, deliver).
StoresOnce == Chats!StoresOnce

\* Of a panel that lost its socket: it gets one again, with the history
\* (chat-panel.tsx, onclose).
Recovers == (scenario = "chat" /\ Chats!Dropped) ~> Chats!Reached

\* Of where the others see a browser, and that they stop seeing it when it left
\* (presence-provider.tsx, the location effect and the teardown).
RosterSettles == Presence!LeavesNobody /\ Presence!PublishesItsPlace

\* Of a restore: what its reader saw when it was confirmed is in a version that
\* was taken before (version-history.tsx, restore).
RestoreLeavesATrace == [][History!LeavesATrace]_historyVars

\* Of a server that serves: Yorkie asks its webhook, and a start does not give
\* up early (instrumentation.ts, register).
ServesGuarded == Boot!ServesGuarded
=============================================================================
