------------------------------ MODULE Sessions ------------------------------
(***************************************************************************)
(* Who is in the workspace and which session belongs to whom:              *)
(* lib/auth/session-registry.ts with lib/auth/member-repository.ts.  Four  *)
(* maps in memory, the members in members.json.  Every operation is        *)
(* synchronous, so a step of its own.  Of lastJoinedAt the model keeps who *)
(* has a stamp; the times only order a list.  The password check comes     *)
(* before (Admission), the sockets and tokens of a session after (Hub,     *)
(* YorkieTokens).                                                          *)
(***************************************************************************)
EXTENDS Guests, FiniteSets, Functions

VARIABLES
  registry,    \* the four maps of SessionRegistry
  membersFile, \* members.json
  issued,      \* the ids randomUUID has handed out
  faults       \* how many faults have happened, for MaxFaults

vars == <<registry, membersFile, issued, faults>>

Members ==
  [id : MemberIds, nickname : Nicknames, colorTag : 0 .. NumColors - 1]

Put(map, key, value) ==
  [k \in DOMAIN map \cup {key} |-> IF k = key THEN value ELSE map[k]]

Delete(map, keys) == Restrict(map, DOMAIN map \ keys)

EmptyMap == [k \in {} |-> 0]

TypeOK ==
  /\ DOMAIN registry = {"membersByNickname", "memberBySession",
                        "sessionByMemberId", "lastJoinedAt"}
  /\ \E S \in SUBSET Nicknames : registry.membersByNickname \in [S -> Members]
  /\ \E S \in SUBSET SessionIds : registry.memberBySession \in [S -> Members]
  /\ \E S \in SUBSET MemberIds : registry.sessionByMemberId \in [S -> SessionIds]
  /\ registry.lastJoinedAt \subseteq MemberIds
  /\ \E S \in SUBSET Nicknames : membersFile \in [S -> Members]
  /\ issued \subseteq MemberIds \cup SessionIds
  /\ faults \in Nat

-----------------------------------------------------------------------------
(* Reading the maps *)

Known == DOMAIN registry.membersByNickname

\* resolve(): the sessions that stand for a member.
Live == DOMAIN registry.memberBySession

IdsOf(members) == {members[n].id : n \in DOMAIN members}

\* The session a join of this member displaces, if there is one.
Displaced(maps, id) ==
  {maps.sessionByMemberId[m] : m \in DOMAIN maps.sessionByMemberId \cap {id}}

hasLiveSession(n) ==
  /\ n \in Known
  /\ Displaced(registry, registry.membersByNickname[n].id) \cap Live # {}

-----------------------------------------------------------------------------
(* Writing them *)

\* Mutant: the colour is taken by how many are signed in.
NewMemberByPresence(maps, n, id) ==
  [id |-> id, nickname |-> n,
   colorTag |-> Cardinality(DOMAIN maps.memberBySession) % NumColors]

NewMember(maps, n, id) ==
  [id |-> id, nickname |-> n,
   colorTag |-> Cardinality(DOMAIN maps.membersByNickname) % NumColors]

addMember(maps, member) ==
  [maps EXCEPT !.membersByNickname = Put(@, member.nickname, member)]

\* Mutant: the displaced session is looked up after the new one is in place.
SignedInOverwriting(maps, member, s) ==
  [maps EXCEPT
     !.memberBySession = Put(Delete(@, {s}), s, member),
     !.sessionByMemberId = Put(@, member.id, s),
     !.lastJoinedAt = @ \cup {member.id}]

\* The member's new session, and the end of the one before.
SignedIn(maps, member, s) ==
  [maps EXCEPT
     !.memberBySession = Put(Delete(@, Displaced(maps, member.id)), s, member),
     !.sessionByMemberId = Put(@, member.id, s),
     !.lastJoinedAt = @ \cup {member.id}]

\* Mutant: the nickname stays taken after the failed write.
RolledBackSession(maps, member, s) ==
  [maps EXCEPT
     !.memberBySession = Delete(@, {s}),
     !.sessionByMemberId = Delete(@, {member.id}),
     !.lastJoinedAt = @ \ {member.id}]

\* What the catch of a failed write takes back, for a new member only.
RolledBack(maps, member, s) ==
  [maps EXCEPT
     !.membersByNickname = Delete(@, {member.nickname}),
     !.memberBySession = Delete(@, {s}),
     !.sessionByMemberId = Delete(@, {member.id}),
     !.lastJoinedAt = @ \ {member.id}]

-----------------------------------------------------------------------------
(* Operations *)

\* Mutant: an id nobody is signed in under is handed out again.
UnusedSession(s) == s \in SessionIds \ Live

FreshSession(s) == s \in SessionIds \ issued

Room(n) == n \in Known \/ Cardinality(Known) < MaxMembers

\* The registry as join leaves it before it persists: for a returning member,
\* and for a newcomer who is given this id.
Returned(n, s) == SignedIn(registry, registry.membersByNickname[n], s)

Newcomer(n, id) == NewMember(registry, n, id)

Arrived(n, id, s) ==
  SignedIn(addMember(registry, Newcomer(n, id)), Newcomer(n, id), s)

join(n, s) ==
  /\ FreshSession(s)
  /\ Room(n)
  /\ \/ /\ n \in Known
        /\ registry' = Returned(n, s)
        /\ issued' = issued \cup {s}
     \/ /\ n \notin Known
        /\ \E id \in MemberIds \ issued :
             /\ registry' = Arrived(n, id, s)
             /\ issued' = issued \cup {id, s}
  /\ membersFile' = registry'.membersByNickname
  /\ UNCHANGED faults

kick(id) ==
  /\ Displaced(registry, id) \cap Live # {}
  /\ registry' =
       [registry EXCEPT
          !.memberBySession = Delete(@, Displaced(registry, id)),
          !.sessionByMemberId = Delete(@, {id})]
  /\ UNCHANGED <<membersFile, issued, faults>>

-----------------------------------------------------------------------------
(* Faults *)

Fault ==
  /\ faults < MaxFaults
  /\ faults' = faults + 1

\* Mutant: whoever's write fails is taken back.
JoinUnrecordedAlwaysUndone(n, s) ==
  /\ Fault
  /\ FreshSession(s)
  /\ Room(n)
  /\ \/ /\ n \in Known
        /\ registry' =
             RolledBack(Returned(n, s), registry.membersByNickname[n], s)
        /\ issued' = issued \cup {s}
     \/ /\ n \notin Known
        /\ \E id \in MemberIds \ issued :
             /\ registry' = RolledBack(Arrived(n, id, s), Newcomer(n, id), s)
             /\ issued' = issued \cup {id, s}
  /\ UNCHANGED membersFile

\* members.json cannot be written.  A returning member is in nevertheless, a
\* newcomer is taken back and told to try again.
JoinUnrecorded(n, s) ==
  /\ Fault
  /\ FreshSession(s)
  /\ Room(n)
  /\ \/ /\ n \in Known
        /\ registry' = Returned(n, s)
        /\ issued' = issued \cup {s}
     \/ /\ n \notin Known
        /\ \E id \in MemberIds \ issued :
             /\ registry' = RolledBack(Arrived(n, id, s), Newcomer(n, id), s)
             /\ issued' = issued \cup {id, s}
  /\ UNCHANGED membersFile

\* The members come back signed out.
Remembered ==
  [membersByNickname |-> membersFile,
   memberBySession |-> EmptyMap,
   sessionByMemberId |-> EmptyMap,
   lastJoinedAt |-> IdsOf(membersFile)]

Restart ==
  /\ Fault
  /\ registry' = Remembered
  /\ UNCHANGED <<membersFile, issued>>

-----------------------------------------------------------------------------
Init ==
  /\ membersFile = EmptyMap
  /\ registry = Remembered
  /\ issued = {}
  /\ faults = 0

Next ==
  \/ \E n \in Nicknames, s \in SessionIds : join(n, s)
  \/ \E id \in MemberIds : kick(id)

Faults ==
  \/ \E n \in Nicknames, s \in SessionIds : JoinUnrecorded(n, s)
  \/ Restart

Spec == Init /\ [][Next \/ Faults]_vars

-----------------------------------------------------------------------------
(* Properties *)

\* session-registry.ts, join and kick: the maps tell one story.  A member has
\* at most one live session, found from either side; whoever is signed in is
\* recorded; a stamp belongs to a recorded member, and each has one.
MapsAgree ==
  /\ DOMAIN registry.sessionByMemberId =
       {registry.memberBySession[s].id : s \in Live}
  /\ \A s \in Live :
       registry.sessionByMemberId[registry.memberBySession[s].id] = s
  /\ Range(registry.memberBySession) \subseteq Range(registry.membersByNickname)
  /\ registry.lastJoinedAt = IdsOf(registry.membersByNickname)

\* session-registry.ts, "rollback for a new member only": nobody is in the
\* workspace's memory who would be forgotten by a restart, and no nickname
\* reads as taken by a member that was never recorded.
MembersAreDurable == registry.membersByNickname = membersFile

\* session-registry.ts, COLOR_TAGS "handed out in order and reused once it
\* wraps": two members share a colour only when there are more members than
\* colours, whatever failed joins and restarts came between.
ColorsApart ==
  Cardinality(Known) <= NumColors =>
    \A m, n \in Known :
      registry.membersByNickname[m].colorTag =
        registry.membersByNickname[n].colorTag => m = n

\* FR-020-08 and member-repository.ts, "a nickname keeps its id and colour tag
\* across a restart": a member who has been let in is the same member forever.
SameMember ==
  [][\A n \in Known : /\ n \in Known'
                      /\ registry'.membersByNickname[n] =
                           registry.membersByNickname[n]]_vars
=============================================================================
