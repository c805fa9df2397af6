---------------------------- MODULE AccessProofs ----------------------------
(***************************************************************************)
(* Proofs about Access: nothing a session opened outlives it.  No socket   *)
(* stays registered under an ended session, and no token comes back once   *)
(* it was refused, because no session id is handed out twice.              *)
(***************************************************************************)
EXTENDS Access, FiniteSetTheorems, TLAPS

P == INSTANCE SessionsProofs

USE IdsAssumption, ColorsAssumption

-----------------------------------------------------------------------------
(* The registry that SessionsProofs is about is the registry of the routes *)

\* join is the join of the proofs.
LEMMA SameJoin ==
  ASSUME NEW n, NEW s
  PROVE  S!join(n, s) <=> P!join(n, s)
BY DEF S!join, S!FreshSession, S!Room, S!Known, S!Returned, S!SignedIn,
       S!Displaced, S!Put, S!Delete, S!Restrict, S!Arrived, S!addMember,
       S!Newcomer, S!NewMember, S!Cardinality, S!IsFiniteSet,
       P!join, P!FreshSession, P!Room, P!Known, P!Returned, P!SignedIn,
       P!Displaced, P!Put, P!Delete, P!Restrict, P!Arrived, P!addMember,
       P!Newcomer, P!NewMember, P!Cardinality, P!IsFiniteSet

\* So is the join whose record is not written.
LEMMA SameJoinUnrecorded ==
  ASSUME NEW n, NEW s
  PROVE  S!JoinUnrecorded(n, s) <=> P!JoinUnrecorded(n, s)
BY DEF S!JoinUnrecorded, S!Fault, S!RolledBack,
       S!FreshSession, S!Room, S!Known, S!Returned, S!SignedIn,
       S!Displaced, S!Put, S!Delete, S!Restrict, S!Arrived, S!addMember,
       S!Newcomer, S!NewMember, S!Cardinality, S!IsFiniteSet,
       P!JoinUnrecorded, P!Fault, P!RolledBack,
       P!FreshSession, P!Room, P!Known, P!Returned, P!SignedIn,
       P!Displaced, P!Put, P!Delete, P!Restrict, P!Arrived, P!addMember,
       P!Newcomer, P!NewMember, P!Cardinality, P!IsFiniteSet

\* So are the kick,
LEMMA SameKick == ASSUME NEW id PROVE S!kick(id) <=> P!kick(id)
BY DEF S!kick, S!Displaced, S!Live, S!Delete, S!Restrict,
       P!kick, P!Displaced, P!Live, P!Delete, P!Restrict

\* the restart,
LEMMA SameRestart == S!Restart <=> P!Restart
BY DEF S!Restart, S!Fault, S!Remembered, S!EmptyMap, S!IdsOf,
       P!Restart, P!Fault, P!Remembered, P!EmptyMap, P!IdsOf

\* and the start.
LEMMA SameInit == S!Init <=> P!Init
BY DEF S!Init, S!Remembered, S!EmptyMap, S!IdsOf,
       P!Init, P!Remembered, P!EmptyMap, P!IdsOf

\* The sessions that are live are session ids that were handed out.
LEMMA LiveIssued == ASSUME P!Inv PROVE S!Live \subseteq SessionIds \cap issued
<1>1. PICK T \in SUBSET SessionIds : registry.memberBySession \in [T -> P!Members]
  BY DEF P!Inv, P!Holds, P!Typed, P!Partial
<1> QED BY <1>1 DEF P!Inv, P!Holds, P!Agree, S!Live

\* Every step is a call of the registry or leaves it alone.
LEMMA RegistryStep ==
  ASSUME P!Inv, [Next]_vars
  PROVE  P!Inv'
<1>1. ASSUME NEW n \in Nicknames, NEW s \in SessionIds, JoinRoute(n, s)
      PROVE  P!Next \/ P!Faults
  BY <1>1, SameJoin, SameJoinUnrecorded DEF JoinRoute, P!Next, P!Faults
<1>2. ASSUME NEW id \in MemberIds, KickRoute(id)
      PROVE  P!Next
  BY <1>2, SameKick DEF KickRoute, P!Next
<1>3. ASSUME Restart PROVE P!Faults
  BY <1>3, SameRestart DEF Restart, P!Faults
<1>4. CASE UNCHANGED registryVars
  <2>1. faults' \in Nat
    BY <1>4 DEF registryVars, P!Inv
  <2> QED BY <1>4, <2>1, P!StutterKeeps DEF registryVars
<1>5. CASE P!Next \/ P!Faults
  BY <1>5, P!StepKeeps
<1> QED BY <1>1, <1>2, <1>3, <1>4, <1>5
        DEF Next, Socket, TokenRoute, Webhook, Tick, vars

\* A session that was not live before a step has an id that was not handed out.
LEMMA NewSessionsAreFresh ==
  ASSUME P!Inv, P!Inv', [Next]_vars, NEW s \in S!Live' \ S!Live
  PROVE  s \in SessionIds \ issued
<1>1. registry' # registry
  BY DEF S!Live
<1>2. ASSUME NEW n \in Nicknames, NEW t \in SessionIds, JoinRoute(n, t)
      PROVE  s = t /\ t \notin issued
  <2>1. S!FreshSession(t) /\ (S!join(n, t) \/ S!JoinUnrecorded(n, t))
    BY <1>2 DEF JoinRoute, S!join, S!JoinUnrecorded
  <2>2. DOMAIN registry = P!Fields
    BY DEF P!Inv, P!Holds, P!Typed
  <2>3. ASSUME NEW maps, DOMAIN maps = P!Fields, NEW member
        PROVE  DOMAIN S!SignedIn(maps, member, t).memberBySession \subseteq
                 DOMAIN maps.memberBySession \cup {t}
    BY <2>3 DEF S!SignedIn, S!Put, S!Delete, S!Restrict, P!Fields
  <2>4. ASSUME NEW id
        PROVE  DOMAIN S!Arrived(n, id, t).memberBySession \subseteq S!Live \cup {t}
    <3> DEFINE added == S!addMember(registry, S!Newcomer(n, id))
    <3>1. /\ DOMAIN added = P!Fields
          /\ added.memberBySession = registry.memberBySession
      BY <2>2 DEF S!addMember, P!Fields
    <3> HIDE DEF added
    <3>2. DOMAIN S!SignedIn(added, S!Newcomer(n, id), t).memberBySession \subseteq
            S!Live \cup {t}
      BY <2>3, <3>1 DEF S!Live
    <3> QED BY <3>2 DEF S!Arrived, added
  <2> DEFINE undone(id) ==
               S!RolledBack(S!Arrived(n, id, t), S!Newcomer(n, id), t)
  <2>5. ASSUME NEW id
        PROVE  DOMAIN undone(id).memberBySession \subseteq S!Live \cup {t}
    <3>1. DOMAIN S!Arrived(n, id, t) = P!Fields
      BY <2>2 DEF S!Arrived, S!SignedIn, S!addMember, P!Fields
    <3>2. undone(id).memberBySession =
            S!Delete(S!Arrived(n, id, t).memberBySession, {t})
      BY <3>1 DEF S!RolledBack, P!Fields
    <3> QED BY <2>4, <3>2 DEF S!Delete, S!Restrict
  <2>6. DOMAIN S!Returned(n, t).memberBySession \subseteq S!Live \cup {t}
    BY <2>2, <2>3 DEF S!Returned, S!Live
  <2>7. S!Live' \subseteq S!Live \cup {t}
    BY <2>1, <2>4, <2>5, <2>6 DEF S!Live, S!join, S!JoinUnrecorded
  <2> QED BY <2>1, <2>7 DEF S!FreshSession
<1>3. ASSUME NEW id \in MemberIds, KickRoute(id)
      PROVE  FALSE
  <2>1. registry'.memberBySession =
          S!Delete(registry.memberBySession, S!Displaced(registry, id))
    BY <1>3 DEF KickRoute, S!kick, P!Inv, P!Holds, P!Typed, P!Fields
  <2> QED BY <2>1 DEF S!Live, S!Delete, S!Restrict
<1>4. ASSUME Restart PROVE FALSE
  BY <1>4 DEF Restart, S!Restart, S!Remembered, S!EmptyMap, S!Live
<1> QED BY <1>1, <1>2, <1>3, <1>4
        DEF Next, Socket, TokenRoute, Webhook, Tick, vars, registryVars

-----------------------------------------------------------------------------
(* Sockets *)

SocketsHold ==
  /\ H!TypeOK
  /\ cookies \subseteq SessionIds
  /\ NoRevokedSocket

\* revoke closes the sockets of the sessions that ended, whichever they are.
LEMMA RevokeHolds ==
  ASSUME SocketsHold, H!revoke(Ended), cookies' \subseteq SessionIds
  PROVE  SocketsHold'
<1>1. /\ sockets' \in [Sockets -> [stage : H!Stages,
                                   session : SessionIds \cup {NoSession},
                                   host : BOOLEAN]]
      /\ \A k \in Sockets :
           /\ sockets'[k].session = sockets[k].session
           /\ sockets'[k].stage = "open" =>
                /\ sockets[k].stage = "open"
                /\ sockets[k].session \notin Ended
  BY DEF SocketsHold, H!TypeOK, H!revoke, H!Stages
<1>2. NoRevokedSocket'
  BY <1>1 DEF SocketsHold, NoRevokedSocket, Ended
<1> QED BY <1>1, <1>2 DEF SocketsHold, H!TypeOK

\* No step leaves a socket open under a session that has ended.
LEMMA SocketsStep ==
  ASSUME P!Inv, P!Inv', SocketsHold, [Next]_vars
  PROVE  SocketsHold'
<1> USE DEF SocketsHold
<1> DEFINE Records == [stage : H!Stages, session : SessionIds \cup {NoSession},
                       host : BOOLEAN]
<1>1. ASSUME NEW n \in Nicknames, NEW s \in SessionIds, JoinRoute(n, s)
      PROVE  SocketsHold'
  <2>1. cookies' \subseteq SessionIds
    BY <1>1, NewSessionsAreFresh DEF JoinRoute, Next
  <2> QED BY <1>1, <2>1, RevokeHolds DEF JoinRoute
<1>2. ASSUME NEW id \in MemberIds, KickRoute(id)
      PROVE  SocketsHold'
  BY <1>2, RevokeHolds DEF KickRoute
<1>3. CASE Restart
  <2>1. sockets' = [k \in Sockets |-> H!NoSocket] /\ cookies' = cookies
    BY <1>3 DEF Restart, H!Restart
  <2>2. H!NoSocket.stage = "none"
        /\ H!NoSocket \in Records
    BY DEF H!NoSocket, H!Stages
  <2> HIDE DEF H!NoSocket
  <2> QED BY <2>1, <2>2 DEF H!TypeOK, NoRevokedSocket
<1>4. ASSUME NEW k \in Sockets, Socket(k)
      PROVE  SocketsHold'
  <2>1. cookies' = cookies /\ S!Live' = S!Live
    BY <1>4 DEF Socket, registryVars, S!Live
  <2> DEFINE Becomes(after) ==
               /\ sockets' = [sockets EXCEPT ![k] = after]
               /\ after \in Records
               /\ after.stage = "open" =>
                    after.session \in S!Live \cup {NoSession}
  <2>2. PICK after : Becomes(after)
    <3>1. ASSUME NEW cookie \in cookies \cup {NoSession}, NEW host \in BOOLEAN,
                 NEW path \in {"workspace", "chat"},
                 H!Upgrade(S!Live, k, cookie, host, path)
          PROVE  \E after : Becomes(after)
      <4> DEFINE after ==
                   [stage |-> "upgrading",
                    session |-> IF path = "workspace" THEN cookie ELSE NoSession,
                    host |-> host]
      <4>1. sockets' = [sockets EXCEPT ![k] = after]
        BY <3>1 DEF H!Upgrade
      <4>2. after \in Records
        BY DEF H!Stages
      <4>3. after.stage = "upgrading"
        OBVIOUS
      <4>4. after.stage # "open"
        BY <4>3
      <4> HIDE DEF after
      <4> QED BY <4>1, <4>2, <4>4
    <3>2. CASE H!Register(S!Live, k)
      <4> DEFINE after == [sockets[k] EXCEPT !.stage =
                             IF sockets[k].session \in S!Live \cup {NoSession}
                               THEN "open" ELSE "refused"]
      <4>1. sockets' = [sockets EXCEPT ![k] = after]
        BY <3>2 DEF H!Register, H!TypeOK
      <4>2. after \in Records
        BY DEF H!Stages, H!TypeOK
      <4>3. after.stage = "open" => after.session \in S!Live \cup {NoSession}
        BY DEF H!Stages, H!TypeOK
      <4> HIDE DEF after
      <4> QED BY <4>1, <4>2, <4>3
    <3>3. CASE H!Closed(k)
      <4>1. sockets' = [sockets EXCEPT ![k] = H!NoSocket]
        BY <3>3 DEF H!Closed
      <4>2. H!NoSocket \in Records
        BY DEF H!NoSocket, H!Stages
      <4>3. H!NoSocket.stage = "none"
        BY DEF H!NoSocket
      <4>4. H!NoSocket.stage # "open"
        BY <4>3
      <4> QED BY <4>1, <4>2, <4>4
    <3> QED BY <1>4, <3>1, <3>2, <3>3 DEF Socket
  <2>3. H!TypeOK'
    BY <2>2 DEF H!TypeOK
  <2>4. NoRevokedSocket'
    BY <2>1, <2>2 DEF NoRevokedSocket, H!TypeOK
  <2> QED BY <2>1, <2>3, <2>4
<1>5. CASE UNCHANGED <<registryVars, sockets, cookies>>
  BY <1>5 DEF H!TypeOK, NoRevokedSocket, S!Live, registryVars
<1> QED BY <1>1, <1>2, <1>3, <1>4, <1>5
        DEF Next, TokenRoute, Webhook, Tick, vars

-----------------------------------------------------------------------------
(* Tokens *)

\* A token is kept as what it was given for, to a session that was handed out or
\* the host; and a session has one live token.
TokensHold ==
  /\ Y!TypeOK
  /\ \A t \in DOMAIN tokens : t \in DOMAIN given /\ tokens[t].session = given[t]
  /\ \A t \in DOMAIN given : given[t] \in issued \cup {HostSession}
  /\ \A t, u \in Y!Unexpired : tokens[t].session = tokens[u].session => t = u

\* Tokens that go, and time that passes, change nothing of it.
LEMMA FewerTokens ==
  ASSUME TokensHold,
         NEW T \in SUBSET DOMAIN tokens, tokens' = [t \in T |-> tokens[t]],
         given' = given, now' \in Nat, now <= now', issued \subseteq issued'
  PROVE  /\ TokensHold'
         /\ \A t \in Y!Unexpired' : t \in Y!Unexpired /\ tokens'[t] = tokens[t]
<1>1. PICK U \in SUBSET Tokens : tokens \in [U -> Y!Entries]
  BY DEF TokensHold, Y!TypeOK
<1>2. tokens' \in [T -> Y!Entries] /\ T \in SUBSET Tokens
  BY <1>1
<1>3. \A t \in T : tokens'[t] = tokens[t] /\ tokens[t].expiresAt \in Nat
  BY <1>1 DEF Y!Entries
<1>4. \A t \in Y!Unexpired' : t \in Y!Unexpired /\ tokens'[t] = tokens[t]
  BY <1>2, <1>3 DEF Y!Unexpired, Y!Expired, TokensHold, Y!TypeOK
<1>5. Y!TypeOK'
  BY <1>2 DEF TokensHold, Y!TypeOK, Y!Holders, Y!Entries
<1>6. DOMAIN tokens' = T /\ \A t \in T : tokens'[t] = tokens[t]
  BY <1>2
<1>7. \A t \in DOMAIN tokens' :
        t \in DOMAIN given' /\ tokens'[t].session = given'[t]
  BY <1>6 DEF TokensHold
<1>8. \A t, u \in Y!Unexpired' : tokens'[t].session = tokens'[u].session => t = u
  BY <1>4 DEF TokensHold
<1>9. \A t \in DOMAIN given' : given'[t] \in issued' \cup {HostSession}
  BY DEF TokensHold
<1> QED BY <1>4, <1>5, <1>7, <1>8, <1>9 DEF TokensHold

\* A new token is for somebody who holds none.
LEMMA OneMoreToken ==
  ASSUME P!Inv, TokensHold,
         NEW session \in S!Live \cup {HostSession}, NEW t \in Tokens,
         TokenRoute(session, t), Y!Held(session) = {}, t \notin DOMAIN given,
         tokens' = Y!WithToken(session, t)
  PROVE  /\ TokensHold'
         /\ \A u \in Y!Unexpired' :
              u # t => u \in Y!Unexpired /\ tokens'[u] = tokens[u]
         /\ t \in Y!Unexpired' /\ tokens'[t].session = session
<1> DEFINE entry == [session |-> session, expiresAt |-> now + TokenTTL]
<1>1. PICK U \in SUBSET Tokens : tokens \in [U -> Y!Entries]
  BY DEF TokensHold, Y!TypeOK
<1>2. PICK G \in SUBSET Tokens : given \in [G -> Y!Holders]
  BY DEF TokensHold, Y!TypeOK
<1>3. /\ now' = now /\ now \in Nat /\ issued' = issued
      /\ given' = [u \in DOMAIN given \cup {t} |->
                     IF u = t THEN session ELSE given[u]]
  BY DEF TokenRoute, Y!HandOut, TokensHold, Y!TypeOK, registryVars
<1>4. session \in Y!Holders /\ session \in issued \cup {HostSession}
  BY LiveIssued DEF Y!Holders
<1>5. entry \in Y!Entries /\ entry.session = session /\ ~ (entry.expiresAt <= now)
  BY <1>3, <1>4, TokenTTLAssumption DEF Y!Entries
<1> HIDE DEF entry
<1>6. /\ DOMAIN tokens' = Y!Unexpired \cup {t}
      /\ tokens'[t] = entry
      /\ \A u \in Y!Unexpired : u # t => tokens'[u] = tokens[u]
      /\ tokens' = [u \in Y!Unexpired \cup {t} |->
                      IF u = t THEN entry ELSE tokens[u]]
  BY DEF Y!WithToken, entry
<1>7. t \notin Y!Unexpired /\ Y!Unexpired \subseteq DOMAIN tokens
  BY DEF TokensHold, Y!Unexpired
<1>8. tokens' \in [Y!Unexpired \cup {t} -> Y!Entries]
  BY <1>1, <1>5, <1>6, <1>7
<1>9. Y!TypeOK'
  <2>1. given' \in [DOMAIN given \cup {t} -> Y!Holders]
    BY <1>2, <1>3, <1>4
  <2> QED BY <1>1, <1>2, <1>3, <1>7, <1>8, <2>1
          DEF Y!TypeOK, Y!Holders, Y!Entries
<1>10. /\ \A u \in Y!Unexpired' :
            u # t => u \in Y!Unexpired /\ tokens'[u] = tokens[u]
       /\ t \in Y!Unexpired'
  BY <1>3, <1>5, <1>6 DEF Y!Unexpired, Y!Expired
<1>11. \A u \in DOMAIN tokens' :
         u \in DOMAIN given' /\ tokens'[u].session = given'[u]
  BY <1>3, <1>5, <1>6, <1>7 DEF TokensHold
<1>12. \A u \in DOMAIN given' : given'[u] \in issued' \cup {HostSession}
  BY <1>3, <1>4 DEF TokensHold
<1>13. \A u \in Y!Unexpired : tokens[u].session # session
  BY DEF Y!Held
<1>14. \A u, w \in Y!Unexpired' : tokens'[u].session = tokens'[w].session => u = w
  BY <1>5, <1>6, <1>10, <1>13 DEF TokensHold
<1> QED BY <1>5, <1>6, <1>9, <1>10, <1>11, <1>12, <1>14 DEF TokensHold

\* A token that is given once more.
LEMMA SameToken ==
  ASSUME P!Inv, TokensHold,
         NEW session \in S!Live \cup {HostSession}, NEW t \in Tokens,
         TokenRoute(session, t), t \in Y!Held(session), tokens' = Y!Pruned
  PROVE  /\ TokensHold'
         /\ \A u \in Y!Unexpired' : u \in Y!Unexpired /\ tokens'[u] = tokens[u]
         /\ t \in Y!Unexpired' /\ tokens'[t].session = session
<1>1. /\ t \in Y!Unexpired /\ tokens[t].session = session
      /\ Y!Unexpired \subseteq DOMAIN tokens
  BY DEF Y!Held, Y!Unexpired
<1>2. t \in DOMAIN given /\ given[t] = session
  BY <1>1 DEF TokensHold
<1>3. given' = given
  <2>1. PICK G \in SUBSET Tokens : given \in [G -> Y!Holders]
    BY DEF TokensHold, Y!TypeOK
  <2>2. given' = [u \in DOMAIN given \cup {t} |->
                    IF u = t THEN session ELSE given[u]]
    BY DEF TokenRoute, Y!HandOut
  <2> QED BY <1>2, <2>1, <2>2
<1>4. now' = now /\ now \in Nat /\ issued' = issued
  BY DEF TokenRoute, Y!HandOut, TokensHold, Y!TypeOK, registryVars
<1>5. tokens' = [u \in Y!Unexpired |-> tokens[u]]
  BY DEF Y!Pruned, Y!Restrict
<1>6. /\ TokensHold'
      /\ \A u \in Y!Unexpired' : u \in Y!Unexpired /\ tokens'[u] = tokens[u]
  BY <1>1, <1>3, <1>4, <1>5, FewerTokens
<1>7. t \in Y!Unexpired' /\ tokens'[t].session = session
  BY <1>1, <1>4, <1>5 DEF Y!Unexpired, Y!Expired
<1> QED BY <1>6, <1>7

\* What a token is allowed for, it was allowed for before, or it is new: not
\* given before, or given for a session that did not exist.
Revives(t) == Allows(t)' /\ ~ Allows(t)

\* Every step keeps the tokens in order, and none revives one.
LEMMA TokensStep ==
  ASSUME P!Inv, P!Inv', TokensHold, [Next]_vars
  PROVE  /\ TokensHold'
         /\ \A t \in DOMAIN given : ~ Revives(t)
         /\ \A session \in Y!Holders, t \in Tokens :
              TokenRoute(session, t) => Allows(t)'
<1>1. ASSUME UNCHANGED tokenVars, issued \subseteq issued'
      PROVE  /\ TokensHold'
             /\ \A t \in DOMAIN given : ~ Revives(t)
  <2>1. TokensHold'
    BY <1>1 DEF TokensHold, tokenVars, Y!TypeOK, Y!Unexpired, Y!Expired,
                Y!Holders, Y!Entries
  <2>2. ASSUME NEW t \in DOMAIN given, Revives(t) PROVE FALSE
    <3>1. PICK session \in S!Live' \cup {HostSession} :
            t \in Y!Unexpired /\ tokens[t].session = session
      BY <1>1, <2>2 DEF Revives, Allows, Y!StandsFor, Y!Unexpired, Y!Expired,
                        tokenVars
    <3>2. session \in S!Live' \ S!Live /\ session # HostSession
      BY <2>2, <3>1 DEF Revives, Allows, Y!StandsFor
    <3>3. session \in issued \cup {HostSession}
      BY <3>1 DEF TokensHold, Y!Unexpired
    <3> QED BY <3>2, <3>3, NewSessionsAreFresh
  <2> QED BY <2>1, <2>2
<1>2. ASSUME NEW n \in Nicknames, NEW s \in SessionIds, JoinRoute(n, s)
      PROVE  UNCHANGED tokenVars /\ issued \subseteq issued'
  BY <1>2 DEF JoinRoute, S!join, S!JoinUnrecorded
<1>3. ASSUME NEW id \in MemberIds, KickRoute(id)
      PROVE  UNCHANGED tokenVars /\ issued \subseteq issued'
  BY <1>3 DEF KickRoute, S!kick
<1>4. ASSUME NEW k \in Sockets, Socket(k)
      PROVE  UNCHANGED tokenVars /\ issued \subseteq issued'
  BY <1>4 DEF Socket, registryVars
<1>5. ASSUME Restart
      PROVE  /\ TokensHold'
             /\ \A t \in DOMAIN given : ~ Revives(t)
  <2>1. /\ DOMAIN tokens' = {} /\ given' = given /\ now' = now /\ issued' = issued
        /\ tokens' \in [{} -> Y!Entries]
    BY <1>5 DEF Restart, Y!Restart, S!Restart
  <2>2. Y!TypeOK'
    BY <2>1 DEF TokensHold, Y!TypeOK, Y!Entries, Y!Holders
  <2>3. TokensHold'
    BY <2>1, <2>2 DEF TokensHold, Y!Unexpired
  <2>4. \A t \in DOMAIN given : ~ Revives(t)
    BY <2>1 DEF Revives, Allows, Y!StandsFor, Y!Unexpired
  <2> QED BY <2>3, <2>4
<1>6. ASSUME NEW session \in Y!Holders, NEW t \in Tokens, TokenRoute(session, t)
      PROVE  /\ TokensHold'
             /\ \A u \in DOMAIN given : ~ Revives(u)
             /\ Allows(t)'
  <2>1. session \in S!Live \cup {HostSession} /\ S!Live' = S!Live
    BY <1>6 DEF TokenRoute, registryVars, S!Live
  <2>2. /\ TokensHold'
        /\ \A u \in Y!Unexpired' :
             \/ u = t
             \/ u \notin DOMAIN given
             \/ u \in Y!Unexpired /\ tokens'[u] = tokens[u]
        /\ t \in DOMAIN given => t \in Y!Unexpired /\ tokens[t].session = session
        /\ t \in Y!Unexpired' /\ tokens'[t].session = session
    <3>1. CASE t \in Y!Held(session) /\ tokens' = Y!Pruned
      BY <1>6, <2>1, <3>1, SameToken DEF Y!Held
    <3>2. CASE Y!Held(session) = {} /\ t \notin DOMAIN given
               /\ tokens' = Y!WithToken(session, t)
      BY <1>6, <2>1, <3>2, OneMoreToken
    <3> QED BY <1>6, <3>1, <3>2 DEF TokenRoute, Y!HandOut, Y!issue
  <2>3. Allows(t)'
    BY <2>1, <2>2 DEF Allows, Y!StandsFor
  <2>4. ASSUME NEW u \in DOMAIN given, Revives(u) PROVE FALSE
    <3>1. PICK holder \in S!Live \cup {HostSession} :
            u \in Y!Unexpired' /\ tokens'[u].session = holder
      BY <2>1, <2>4 DEF Revives, Allows, Y!StandsFor
    <3> QED BY <2>1, <2>2, <2>4, <3>1 DEF Revives, Allows, Y!StandsFor
  <2> QED BY <2>2, <2>3, <2>4
<1>7. ASSUME NEW T \in SUBSET DOMAIN tokens, tokens' = [t \in T |-> tokens[t]],
             given' = given, now' \in Nat, now <= now',
             UNCHANGED <<registryVars, sockets, cookies>>
      PROVE  /\ TokensHold'
             /\ \A t \in DOMAIN given : ~ Revives(t)
  <2>1. S!Live' = S!Live /\ issued' = issued
    BY <1>7 DEF S!Live, registryVars
  <2>2. /\ TokensHold'
        /\ \A t \in Y!Unexpired' : t \in Y!Unexpired /\ tokens'[t] = tokens[t]
    BY <1>7, <2>1, FewerTokens
  <2> QED BY <2>1, <2>2 DEF Revives, Allows, Y!StandsFor
<1>8. ASSUME NEW t \in Tokens, Webhook(t)
      PROVE  /\ TokensHold'
             /\ \A u \in DOMAIN given : ~ Revives(u)
  <2>1. tokens' = [u \in DOMAIN tokens \ {t} |-> tokens[u]]
        /\ given' = given /\ now' = now
        /\ UNCHANGED <<registryVars, sockets, cookies>>
    BY <1>8 DEF Webhook, Y!DropExpired, Y!Restrict
  <2>2. DOMAIN tokens \ {t} \in SUBSET DOMAIN tokens /\ now' \in Nat /\ now <= now'
    BY <2>1 DEF TokensHold, Y!TypeOK
  <2> QED BY <1>7, <2>1, <2>2
<1>9. ASSUME Tick
      PROVE  /\ TokensHold'
             /\ \A t \in DOMAIN given : ~ Revives(t)
  <2>1. tokens' = tokens /\ given' = given /\ now' = now + 1
        /\ UNCHANGED <<registryVars, sockets, cookies>>
    BY <1>9 DEF Tick, Y!Tick
  <2>2. now \in Nat /\ tokens = [u \in DOMAIN tokens |-> tokens[u]]
    BY DEF TokensHold, Y!TypeOK
  <2> QED BY <1>7, <2>1, <2>2
<1>10. ASSUME UNCHANGED vars
       PROVE  /\ TokensHold'
              /\ \A t \in DOMAIN given : ~ Revives(t)
  BY <1>1, <1>10 DEF vars, registryVars
<1>11. /\ TokensHold'
       /\ \A t \in DOMAIN given : ~ Revives(t)
  BY <1>1, <1>2, <1>3, <1>4, <1>5, <1>6, <1>8, <1>9, <1>10 DEF Next
<1> QED BY <1>6, <1>11

-----------------------------------------------------------------------------
(* Theorems *)

Holds == P!Inv /\ SocketsHold /\ TokensHold

\* At the start there is nothing to be wrong.
LEMMA InitHolds == Init => Holds
<1> SUFFICES ASSUME Init PROVE Holds
  OBVIOUS
<1>1. P!Inv
  BY SameInit, P!InitHolds DEF Init
<1>2. SocketsHold
  BY DEF Init, H!Init, SocketsHold, H!TypeOK, H!NoSocket, H!Stages, NoRevokedSocket
<1>3. TokensHold
  <2>1. /\ DOMAIN tokens = {} /\ DOMAIN given = {} /\ now = 0
        /\ tokens \in [{} -> Y!Entries] /\ given \in [{} -> Y!Holders]
    BY DEF Init, Y!Init
  <2> QED BY <2>1 DEF TokensHold, Y!TypeOK, Y!Unexpired
<1> QED BY <1>1, <1>2, <1>3 DEF Holds

\* The invariant of the registry, the sockets and the tokens, always.
THEOREM HoldsAlways == Spec => []Holds
<1>1. Holds /\ [Next]_vars => Holds'
  BY RegistryStep, SocketsStep, TokensStep DEF Holds
<1> QED BY <1>1, InitHolds, PTL DEF Spec

\* No socket is registered under a session that has ended, however the end and
\* the upgrade of the socket interleave.
THEOREM SocketsEndWithTheirSession == Spec => []NoRevokedSocket
<1>1. Holds => NoRevokedSocket
  BY DEF Holds, SocketsHold
<1> QED BY <1>1, HoldsAlways, PTL

\* A session never has two live tokens.
THEOREM NeverTwoTokens == Spec => []OneTokenEach
<1>1. ASSUME Holds PROVE OneTokenEach
  <2> SUFFICES ASSUME NEW session \in Y!Holders
               PROVE  Cardinality(Y!Held(session)) <= 1
    BY DEF OneTokenEach
  <2>1. \A t, u \in Y!Held(session) : t = u
    BY <1>1 DEF Holds, TokensHold, Y!Held
  <2>2. CASE Y!Held(session) = {}
    BY <2>2, FS_EmptySet
  <2>3. ASSUME NEW t \in Y!Held(session)
        PROVE  Cardinality(Y!Held(session)) <= 1
    <3>1. Y!Held(session) = {t}
      BY <2>1, <2>3
    <3>2. Cardinality({t}) = 1
      BY FS_Singleton
    <3> QED BY <3>1, <3>2
  <2> QED BY <2>2, <2>3
<1> QED BY <1>1, HoldsAlways, PTL

\* The token a browser is given is one the webhook allows.
THEOREM TokensWorkWhenGiven == Spec => GivenTokenWorks
<1>1. ASSUME Holds, Holds', [Next]_vars
      PROVE  [\A session \in Y!Holders, t \in Tokens :
                TokenRoute(session, t) => Allows(t)']_vars
  BY <1>1, TokensStep DEF Holds
<1> QED BY <1>1, HoldsAlways, PTL DEF Spec, GivenTokenWorks

\* A token that is refused is refused for good: no join, restart or token
\* brings it back, because a session id is never handed out twice.
THEOREM TokensRefusedForGood == Spec => RefusedForGood
<1>1. ASSUME Holds, Holds', [Next]_vars
      PROVE  [\A t \in DOMAIN given : ~Allows(t) => ~Allows(t)']_vars
  BY <1>1, TokensStep DEF Holds, Revives
<1> QED BY <1>1, HoldsAlways, PTL DEF Spec, RefusedForGood
=============================================================================
