-------------------------------- MODULE Access --------------------------------
(***************************************************************************)
(* What a session opens, and what its end must close: the routes that join *)
(* the session registry, the sockets of the hub and the tokens for Yorkie. *)
(* A session ends by a takeover, a kick or a restart; its sockets and its  *)
(* tokens have to end with it, whatever was under way.                     *)
(***************************************************************************)
EXTENDS Guests, FiniteSets, TLC

CONSTANTS
  Sockets, NoSession,                    \* the hub's
  Tokens, HostSession, TokenTTL, MaxTime \* the tokens'

ASSUME NoSessionAssumption == NoSession \notin SessionIds
ASSUME HostSessionAssumption == HostSession \notin SessionIds
ASSUME TokenTTLAssumption == TokenTTL \in Nat \ {0}

VARIABLES
  registry, membersFile, issued, faults, \* the registry's
  sockets,                               \* the hub's
  tokens, given, now,                    \* the tokens'
  cookies \* the sessions that were set as a browser's cookie

registryVars == <<registry, membersFile, issued, faults>>
tokenVars == <<tokens, given, now>>
vars == <<registryVars, sockets, tokenVars, cookies>>

S == INSTANCE Sessions
H == INSTANCE Hub
Y == INSTANCE YorkieTokens

TypeOK ==
  /\ S!TypeOK
  /\ H!TypeOK
  /\ Y!TypeOK
  /\ cookies \subseteq SessionIds

Ended == S!Live \ S!Live'

-----------------------------------------------------------------------------
(* The routes that change the registry *)

\* POST /api/workspace/join, from its password check to its answer; also when
\* the members cannot be written.
JoinRoute(n, s) ==
  /\ S!join(n, s) \/ S!JoinUnrecorded(n, s)
  /\ H!revoke(Ended)
  /\ cookies' = cookies \cup (S!Live' \ S!Live)
  /\ UNCHANGED tokenVars

\* DELETE /api/workspace/members/:id.
KickRoute(id) ==
  /\ S!kick(id)
  /\ H!revoke(Ended)
  /\ UNCHANGED <<tokenVars, cookies>>

\* The process dies and is started again; the browsers keep their cookies.
Restart ==
  /\ S!Restart
  /\ H!Restart
  /\ Y!Restart
  /\ UNCHANGED cookies

-----------------------------------------------------------------------------
(* What a session is good for *)

Socket(k) ==
  /\ \/ \E cookie \in cookies \cup {NoSession}, host \in BOOLEAN,
           path \in {"workspace", "chat"} :
          H!Upgrade(S!Live, k, cookie, host, path)
     \/ H!Register(S!Live, k)
     \/ H!Closed(k)
  /\ UNCHANGED <<registryVars, tokenVars, cookies>>

\* GET /api/auth/yorkie-token: the live session of the cookie, or else the
\* host.
TokenRoute(session, t) ==
  /\ session \in S!Live \cup {HostSession}
  /\ Y!HandOut(session, t)
  /\ UNCHANGED <<registryVars, sockets, cookies>>

\* The answer of POST /api/internal/yorkie/auth.
Allows(t) ==
  \E session \in S!Live \cup {HostSession} : Y!StandsFor(t, session)

\* The same route, asked about an expired token.
Webhook(t) ==
  /\ Y!DropExpired(t)
  /\ UNCHANGED <<registryVars, sockets, cookies>>

Tick ==
  /\ Y!Tick
  /\ UNCHANGED <<registryVars, sockets, cookies>>

-----------------------------------------------------------------------------
Init ==
  /\ S!Init
  /\ H!Init
  /\ Y!Init
  /\ cookies = {}

Next ==
  \/ \E n \in Nicknames, s \in SessionIds : JoinRoute(n, s)
  \/ \E id \in MemberIds : KickRoute(id)
  \/ \E k \in Sockets : Socket(k)
  \/ \E session \in Y!Holders, t \in Tokens : TokenRoute(session, t)
  \/ \E t \in Tokens : Webhook(t)
  \/ Restart
  \/ Tick

Spec == Init /\ [][Next]_vars

-----------------------------------------------------------------------------
(* Properties *)

\* ws-hub.mts, handleUpgrade and revoke (issue #26): no socket stays registered
\* under a session that has ended, whether the session ended before, during or
\* after the upgrade.
NoRevokedSocket ==
  \A k \in Sockets :
    sockets[k].stage = "open" => sockets[k].session \in S!Live \cup {NoSession}

\* yorkie-token.ts, issue, "reuse is what bounds this map": a session never has
\* two live tokens, however often it asks, expires and asks again.
OneTokenEach ==
  \A session \in Y!Holders : Cardinality(Y!Held(session)) <= 1

\* The token route and the webhook agree: the token a browser is given is one
\* that the webhook allows at that moment, so a refused client that asks again
\* is not handed the token it was refused with.
GivenTokenWorks ==
  [][\A session \in Y!Holders, t \in Tokens :
       TokenRoute(session, t) => Allows(t)']_vars

\* The webhook, "a live token is not a live session": a guest whose session was
\* displaced or kicked, or who was signed out by a restart, is refused with
\* every token ever given for it, and no later join or token changes that.
RefusedForGood ==
  [][\A t \in DOMAIN given : ~Allows(t) => ~Allows(t)']_vars

-----------------------------------------------------------------------------
(* Small instances for TLC *)

Symmetry ==
  Permutations(Nicknames) \cup Permutations(MemberIds)
    \cup Permutations(SessionIds) \cup Permutations(Sockets)
    \cup Permutations(Tokens)
=============================================================================
