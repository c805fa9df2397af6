--------------------------- MODULE PresenceClient ---------------------------
(***************************************************************************)
(* The one Yorkie connection of a browser (presence-provider.tsx): each    *)
(* mount of the provider activates a client and attaches the workspace's   *)
(* document through it, and its teardown may come at any moment of that.   *)
(***************************************************************************)
EXTENDS Integers, FiniteSets

CONSTANTS Pages, MaxMounts, MaxMoves  \* the routes; two bounds

VARIABLES
  mounts,    \* how often the provider has been mounted
  mounted,   \* whether the last mount stands
  step,      \* how far each mount's setup is
  torn,      \* the mounts whose teardown has run
  server,    \* what Yorkie holds of each mount's client
  status, client, \* the state of the mounted provider
  route, located, \* the page; the route and client of the last location effect
  place,     \* the location each client publishes
  moves

vars == <<mounts, mounted, step, torn, server, status, client, route, located,
          place, moves>>

Mounts == 1..MaxMounts
None == 0
Nowhere == "nowhere"
NotLocated == [client |-> None, route |-> Nowhere]

Live(r) == mounted /\ r = mounts

Setup == {"activating", "attaching"}

-----------------------------------------------------------------------------

Mount ==
  /\ ~mounted /\ mounts < MaxMounts
  /\ mounts' = mounts + 1 /\ mounted' = TRUE
  /\ step' = [step EXCEPT ![mounts'] = "activating"]
  /\ status' = "connecting" /\ client' = None /\ located' = NotLocated
  /\ UNCHANGED <<torn, server, route, place, moves>>

\* The cleanup: it is deferred to when the setup has settled.
Unmount ==
  /\ mounted /\ mounted' = FALSE
  /\ UNCHANGED <<mounts, step, torn, server, status, client, route, located,
                 place, moves>>

\* `cancelled' is read after each await.
Activated(r) ==
  /\ step[r] = "activating"
  /\ server' = [server EXCEPT ![r] = "active"]
  /\ step' = [step EXCEPT ![r] = IF Live(r) THEN "attaching" ELSE "settled"]
  /\ UNCHANGED <<mounts, mounted, torn, status, client, route, located, place, moves>>

Attached(r) ==
  /\ step[r] = "attaching"
  /\ server' = [server EXCEPT ![r] = "attached"]
  /\ step' = [step EXCEPT ![r] = "settled"]
  /\ IF Live(r) THEN status' = "active" /\ client' = r ELSE UNCHANGED <<status, client>>
  /\ UNCHANGED <<mounts, mounted, torn, route, located, place, moves>>

\* The attachment may have been made and its answer lost.
Failed(r) ==
  /\ step[r] \in Setup
  /\ step' = [step EXCEPT ![r] = "settled"]
  /\ server' \in {server, [server EXCEPT ![r] = IF step[r] = "attaching" THEN "attached" ELSE @]}
  /\ IF Live(r) THEN status' = "failed" /\ client' = None ELSE UNCHANGED <<status, client>>
  /\ UNCHANGED <<mounts, mounted, torn, route, located, place, moves>>

Ends(r) ==
  /\ torn' = torn \cup {r}
  /\ server' = [server EXCEPT ![r] = IF step[r] = "activating" THEN @ ELSE "none"]
  /\ UNCHANGED <<mounts, mounted, step, status, client, route, located, place, moves>>

\* Mutant: without waiting for the setup. Deactivating a client that is still
\* activating does nothing (external).
TeardownAtOnce(r) ==
  /\ step[r] # "none" /\ ~Live(r) /\ r \notin torn
  /\ Ends(r)

Teardown(r) ==
  /\ step[r] = "settled" /\ ~Live(r) /\ r \notin torn
  /\ Ends(r)

-----------------------------------------------------------------------------

Navigate ==
  /\ moves < MaxMoves /\ moves' = moves + 1
  /\ \E page \in Pages : page # route /\ route' = page
  /\ UNCHANGED <<mounts, mounted, step, torn, server, status, client, located, place>>

\* The location effect, keyed on the client and the route.
Locate ==
  /\ mounted /\ located # [client |-> client, route |-> route]
  /\ located' = [client |-> client, route |-> route]
  /\ place' = IF client = None THEN place ELSE [place EXCEPT ![client] = route]
  /\ UNCHANGED <<mounts, mounted, step, torn, server, status, client, route, moves>>

Init ==
  /\ mounts = 0 /\ mounted = FALSE /\ torn = {} /\ moves = 0
  /\ step = [r \in Mounts |-> "none"] /\ server = [r \in Mounts |-> "none"]
  /\ status = "connecting" /\ client = None
  /\ route \in Pages /\ located = NotLocated
  /\ place = [r \in Mounts |-> Nowhere]

Settle(r) == Activated(r) \/ Attached(r) \/ Failed(r)

Next ==
  \/ Mount \/ Unmount \/ Navigate \/ Locate
  \/ \E r \in Mounts : Settle(r) \/ Teardown(r)

\* A request is answered or fails; an effect and a promise run.
Fairness ==
  /\ WF_vars(Locate)
  /\ \A r \in Mounts : WF_vars(Settle(r)) /\ WF_vars(Teardown(r))

Spec == Init /\ [][Next]_vars /\ Fairness

-----------------------------------------------------------------------------
(* Properties *)

Left(r) == step[r] # "none" /\ ~Live(r)

Gone(r) == server[r] # "attached" /\ step[r] \notin Setup

\* A provider that was torn down leaves nobody in the others' roster, at
\* whatever moment of its setup the teardown came (#32).
LeavesNobody == \A r \in Mounts : Left(r) ~> Gone(r)

Here(r) == client = r /\ Live(r)

Placed(r) == place[r] = route \/ ~Live(r)

\* An attached browser comes to publish the page it shows, whether it moved
\* before, during or after the attachment.
PublishesItsPlace == \A r \in Mounts : Here(r) ~> Placed(r)
=============================================================================
