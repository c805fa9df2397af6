--------------------------------- MODULE Hub ---------------------------------
(***************************************************************************)
(* The WebSocket hub: server/ws-hub.mts, with the gate in front of it in   *)
(* server/index.mts and lib/auth/session-cookie.ts.  An upgrade is checked *)
(* when the request comes in and its socket is registered when the         *)
(* handshake is done; a session may end in between.  Which sessions are    *)
(* live is the registry's to say.                                          *)
(***************************************************************************)
CONSTANTS
  SessionIds,
  Sockets,  \* the sockets a browser may have at the same time
  NoSession \* the null session of a request without a cookie, of a chat socket

VARIABLE
  sockets \* each socket's stage, the session it is filed under, whose it is

\* none: no such connection; upgrading: past the check, the handshake is
\* under way; open: in connections, frames are sent; refused: told that its
\* session is revoked and closed, without ever being registered; closing: told
\* and closed, the close event has not come.
Stages == {"none", "upgrading", "open", "refused", "closing"}

NoSocket == [stage |-> "none", session |-> NoSession, host |-> FALSE]

TypeOK ==
  sockets \in [Sockets -> [stage : Stages,
                          session : SessionIds \cup {NoSession},
                          host : BOOLEAN]]

-----------------------------------------------------------------------------
isAuthenticatedSocket(live, session, host) == session \in live \/ host

\* Both paths are checked alike; only the workspace socket is filed under the
\* cookie's session, the chat socket under none.
Upgrade(live, k, cookie, host, path) ==
  /\ sockets[k] = NoSocket
  /\ isAuthenticatedSocket(live, cookie, host)
  /\ sockets' =
       [sockets EXCEPT ![k] =
          [stage |-> "upgrading",
           session |-> IF path = "workspace" THEN cookie ELSE NoSession,
           host |-> host]]

\* Mutant: the check at the upgrade is thought to be enough.
RegisterUnchecked(live, k) ==
  /\ sockets[k].stage = "upgrading"
  /\ sockets' = [sockets EXCEPT ![k].stage = "open"]

\* handleUpgrade's callback.
Register(live, k) ==
  /\ sockets[k].stage = "upgrading"
  /\ sockets' =
       [sockets EXCEPT ![k].stage =
          IF sockets[k].session \in live \cup {NoSession}
            THEN "open" ELSE "refused"]

\* The close event, whoever closed: the client, the network, an error, revoke.
Closed(k) ==
  /\ sockets[k] # NoSocket
  /\ sockets' = [sockets EXCEPT ![k] = NoSocket]

\* revoke(): every registered socket of these sessions is told and closed.
revoke(sessions) ==
  sockets' =
    [k \in Sockets |->
       IF sockets[k].stage = "open" /\ sockets[k].session \in sessions
         THEN [sockets[k] EXCEPT !.stage = "closing"]
         ELSE sockets[k]]

\* Every connection is gone.
Init == sockets = [k \in Sockets |-> NoSocket]
Restart == sockets' = [k \in Sockets |-> NoSocket]
=============================================================================
