--------------------------- MODULE SessionsProofs ---------------------------
(***************************************************************************)
(* Proofs about Sessions: the maps of the registry agree with each other   *)
(* and with members.json, whatever order joins, kicks, failed writes and   *)
(* restarts come in.                                                       *)
(***************************************************************************)
EXTENDS Sessions, FiniteSetTheorems, TLAPS

USE ColorsAssumption

-----------------------------------------------------------------------------
(* Maps *)

Partial(f, X, Y) == \E S \in SUBSET X : f \in [S -> Y]

\* A map from X to Y, taken apart.
LEMMA PartialMeans ==
  ASSUME NEW f, NEW X, NEW Y
  PROVE  Partial(f, X, Y) <=> /\ f = [x \in DOMAIN f |-> f[x]]
                              /\ DOMAIN f \subseteq X
                              /\ \A x \in DOMAIN f : f[x] \in Y
BY DEF Partial

\* Map.set keeps a map typed.
LEMMA PutPartial ==
  ASSUME NEW f, NEW X, NEW Y, NEW k \in X, NEW v \in Y, Partial(f, X, Y)
  PROVE  Partial(Put(f, k, v), X, Y)
<1>1. PICK S \in SUBSET X : f \in [S -> Y]
  BY DEF Partial
<1>2. Put(f, k, v) \in [S \cup {k} -> Y]
  BY <1>1 DEF Put
<1> QED BY <1>2 DEF Partial

\* Map.delete keeps a map typed.
LEMMA DeletePartial ==
  ASSUME NEW f, NEW X, NEW Y, NEW K, Partial(f, X, Y)
  PROVE  Partial(Delete(f, K), X, Y)
<1>1. PICK S \in SUBSET X : f \in [S -> Y]
  BY DEF Partial
<1>2. Delete(f, K) \in [S \ K -> Y]
  BY <1>1 DEF Delete, Restrict
<1> QED BY <1>2 DEF Partial

-----------------------------------------------------------------------------
(* The invariant *)

Fields == {"membersByNickname", "memberBySession",
           "sessionByMemberId", "lastJoinedAt"}

\* What a record of the four maps is, half way through a join too.
Typed(maps) ==
  /\ DOMAIN maps = Fields
  /\ Partial(maps.membersByNickname, Nicknames, Members)
  /\ Partial(maps.memberBySession, SessionIds, Members)
  /\ Partial(maps.sessionByMemberId, MemberIds, SessionIds)
  /\ maps.lastJoinedAt \subseteq MemberIds

\* Every member is filed under its nickname and has an id of its own.
Filed(maps, used) ==
  /\ IsFiniteSet(DOMAIN maps.membersByNickname)
  /\ \A n \in DOMAIN maps.membersByNickname :
       /\ maps.membersByNickname[n].nickname = n
       /\ maps.membersByNickname[n].id \in used
  /\ \A m, n \in DOMAIN maps.membersByNickname :
       maps.membersByNickname[m].id = maps.membersByNickname[n].id => m = n

\* MapsAgree but for the stamps, and no session was handed out that counts as
\* fresh.
Agree(maps, used) ==
  /\ DOMAIN maps.memberBySession \subseteq used
  /\ \A s \in DOMAIN maps.memberBySession :
       /\ maps.memberBySession[s].id \in DOMAIN maps.sessionByMemberId
       /\ maps.sessionByMemberId[maps.memberBySession[s].id] = s
       /\ \E n \in DOMAIN maps.membersByNickname :
            maps.memberBySession[s] = maps.membersByNickname[n]
  /\ \A id \in DOMAIN maps.sessionByMemberId :
       /\ maps.sessionByMemberId[id] \in DOMAIN maps.memberBySession
       /\ maps.memberBySession[maps.sessionByMemberId[id]].id = id

Stamped(maps) == maps.lastJoinedAt = IdsOf(maps.membersByNickname)

\* Until the colours wrap, the members have the first ones, each another.
Coloured(known) ==
  Cardinality(DOMAIN known) <= NumColors =>
    \A m \in DOMAIN known :
      /\ known[m].colorTag < Cardinality(DOMAIN known)
      /\ \A n \in DOMAIN known :
           known[m].colorTag = known[n].colorTag => m = n

Holds(maps, used) ==
  Typed(maps) /\ Filed(maps, used) /\ Agree(maps, used)

Inv ==
  /\ Holds(registry, issued)
  /\ Stamped(registry)
  /\ Coloured(registry.membersByNickname)
  /\ membersFile = registry.membersByNickname
  /\ issued \subseteq MemberIds \cup SessionIds
  /\ faults \in Nat

\* The invariant implies the type invariant.
LEMMA InvTyped == ASSUME Inv PROVE TypeOK
BY DEF Inv, Holds, Typed, Fields, Partial, TypeOK

\* The invariant implies that the maps tell one story.
LEMMA InvAgrees == ASSUME Inv PROVE MapsAgree
<1> USE DEF Inv, Holds, Agree, Live
<1>1. DOMAIN registry.sessionByMemberId =
        {registry.memberBySession[s].id : s \in Live}
  OBVIOUS
<1>2. Range(registry.memberBySession) \subseteq Range(registry.membersByNickname)
  BY DEF Range
<1> QED BY <1>1, <1>2 DEF MapsAgree, Stamped

-----------------------------------------------------------------------------
(* The steps of a join *)

\* addMember: the newcomer gets a typed row with an id nobody has.
LEMMA NewcomerAdded ==
  ASSUME NEW maps, NEW used, Holds(maps, used),
         NEW n \in Nicknames \ DOMAIN maps.membersByNickname,
         NEW id \in MemberIds \ used
  PROVE  LET member == NewMember(maps, n, id)
             after == addMember(maps, member)
         IN /\ member \in Members
            /\ member.nickname = n /\ member.id = id
            /\ Holds(after, used \cup {id})
            /\ after.membersByNickname = Put(maps.membersByNickname, n, member)
            /\ after.memberBySession = maps.memberBySession
            /\ after.sessionByMemberId = maps.sessionByMemberId
            /\ after.lastJoinedAt = maps.lastJoinedAt
<1> DEFINE member == NewMember(maps, n, id)
           after == addMember(maps, member)
           known == maps.membersByNickname
<1>1. member.nickname = n /\ member.id = id
  BY DEF NewMember
<1>2. member \in Members
  <2>1. Cardinality(DOMAIN known) \in Nat
    BY FS_CardinalityType DEF Holds, Filed
  <2>2. Cardinality(DOMAIN known) % NumColors \in 0 .. NumColors - 1
    BY <2>1
  <2> QED BY <2>2 DEF NewMember, Members
<1>3. /\ after.membersByNickname = Put(known, n, member)
      /\ after.memberBySession = maps.memberBySession
      /\ after.sessionByMemberId = maps.sessionByMemberId
      /\ after.lastJoinedAt = maps.lastJoinedAt
      /\ DOMAIN after = Fields
  BY <1>1 DEF addMember, Holds, Typed, Fields
<1>4. Typed(after)
  BY <1>2, <1>3, PutPartial DEF Holds, Typed
<1>5. Filed(after, used \cup {id})
  <2>1. IsFiniteSet(DOMAIN known \cup {n})
    BY FS_AddElement DEF Holds, Filed
  <2>2. /\ DOMAIN after.membersByNickname = DOMAIN known \cup {n}
        /\ after.membersByNickname[n] = member
        /\ \A m \in DOMAIN known : after.membersByNickname[m] = known[m]
    BY <1>3 DEF Put
  <2> HIDE DEF after, member
  <2> QED BY <1>1, <2>1, <2>2 DEF Holds, Filed
<1>6. Agree(after, used \cup {id})
  <2>1. ASSUME NEW s \in DOMAIN maps.memberBySession
        PROVE  \E m \in DOMAIN after.membersByNickname :
                 maps.memberBySession[s] = after.membersByNickname[m]
    <3>1. PICK m \in DOMAIN known : maps.memberBySession[s] = known[m]
      BY DEF Holds, Agree
    <3> QED BY <3>1, <1>3 DEF Put
  <2> QED BY <1>3, <2>1 DEF Holds, Agree
<1> QED BY <1>1, <1>2, <1>3, <1>4, <1>5, <1>6 DEF Holds

\* A join ends the member's session before, and no other.
LEMMA SignedInHolds ==
  ASSUME NEW maps, NEW used, Holds(maps, used),
         NEW n \in DOMAIN maps.membersByNickname,
         NEW s \in SessionIds \ used
  PROVE  LET member == maps.membersByNickname[n]
             after == SignedIn(maps, member, s)
         IN /\ Holds(after, used \cup {s})
            /\ after.membersByNickname = maps.membersByNickname
            /\ after.lastJoinedAt = maps.lastJoinedAt \cup {member.id}
<1> DEFINE member == maps.membersByNickname[n]
           gone == Displaced(maps, member.id)
           after == SignedIn(maps, member, s)
           left == Delete(maps.memberBySession, gone)
<1> HIDE DEF gone, left, after
<1>1. member \in Members /\ member.id \in MemberIds
  BY PartialMeans DEF Holds, Typed, Members
<1>2. /\ after.membersByNickname = maps.membersByNickname
      /\ after.memberBySession = Put(left, s, member)
      /\ after.sessionByMemberId = Put(maps.sessionByMemberId, member.id, s)
      /\ after.lastJoinedAt = maps.lastJoinedAt \cup {member.id}
      /\ DOMAIN after = Fields
  BY DEF SignedIn, Holds, Typed, Fields, after, left, gone
<1>3. Typed(after)
  <2>1. Partial(left, SessionIds, Members)
    BY DeletePartial DEF Holds, Typed, left
  <2> QED BY <1>1, <1>2, <2>1, PutPartial DEF Holds, Typed
<1>4. Filed(after, used \cup {s})
  BY <1>2 DEF Holds, Filed
<1>5. \A t \in DOMAIN maps.memberBySession :
        t \in gone <=> maps.memberBySession[t].id = member.id
  BY DEF Holds, Agree, Displaced, gone
<1>6. Agree(after, used \cup {s})
  <2>1. /\ DOMAIN left = DOMAIN maps.memberBySession \ gone
        /\ \A t \in DOMAIN left : left[t] = maps.memberBySession[t]
    BY DEF left, Delete, Restrict
  <2>2. /\ DOMAIN after.memberBySession = DOMAIN left \cup {s}
        /\ after.memberBySession[s] = member
        /\ \A t \in DOMAIN left : after.memberBySession[t] =
             IF t = s THEN member ELSE left[t]
    BY <1>2 DEF Put
  <2>3. /\ DOMAIN after.sessionByMemberId =
             DOMAIN maps.sessionByMemberId \cup {member.id}
        /\ after.sessionByMemberId[member.id] = s
        /\ \A id \in DOMAIN maps.sessionByMemberId :
             id # member.id =>
               after.sessionByMemberId[id] = maps.sessionByMemberId[id]
    BY <1>2 DEF Put
  <2>4. s \notin DOMAIN left
    BY <2>1 DEF Holds, Agree
  <2>5. DOMAIN after.memberBySession \subseteq used \cup {s}
    BY <2>1, <2>2 DEF Holds, Agree
  <2>6. ASSUME NEW t \in DOMAIN after.memberBySession
        PROVE  /\ after.memberBySession[t].id \in DOMAIN after.sessionByMemberId
               /\ after.sessionByMemberId[after.memberBySession[t].id] = t
               /\ \E m \in DOMAIN after.membersByNickname :
                    after.memberBySession[t] = after.membersByNickname[m]
    <3>1. CASE t = s
      BY <3>1, <1>2, <2>2, <2>3
    <3>2. CASE t # s
      <4>1. /\ t \in DOMAIN maps.memberBySession
            /\ t \notin gone
            /\ after.memberBySession[t] = maps.memberBySession[t]
        BY <3>2, <2>1, <2>2
      <4>2. maps.memberBySession[t].id # member.id
        BY <4>1, <1>5
      <4> QED BY <4>1, <4>2, <1>2, <2>3 DEF Holds, Agree
    <3> QED BY <3>1, <3>2
  <2>7. ASSUME NEW id \in DOMAIN after.sessionByMemberId
        PROVE  /\ after.sessionByMemberId[id] \in DOMAIN after.memberBySession
               /\ after.memberBySession[after.sessionByMemberId[id]].id = id
    <3>1. CASE id = member.id
      BY <3>1, <2>2, <2>3
    <3>2. CASE id # member.id
      <4> DEFINE t == maps.sessionByMemberId[id]
      <4>1. id \in DOMAIN maps.sessionByMemberId
            /\ after.sessionByMemberId[id] = t
        BY <3>2, <2>3
      <4>2. t \in DOMAIN maps.memberBySession /\ maps.memberBySession[t].id = id
        BY <4>1 DEF Holds, Agree
      <4>3. t \in DOMAIN left
        BY <4>2, <3>2, <1>5, <2>1
      <4> QED BY <4>1, <4>2, <4>3, <2>1, <2>2, <2>4
    <3> QED BY <3>1, <3>2
  <2> QED BY <2>5, <2>6, <2>7 DEF Agree
<1> QED BY <1>2, <1>3, <1>4, <1>6 DEF Holds, after

\* A newcomer who is let in: the two together.
LEMMA ArrivedHolds ==
  ASSUME Inv, NEW n \in Nicknames \ Known, NEW id \in MemberIds \ issued,
         NEW s \in SessionIds \ issued
  PROVE  LET after == Arrived(n, id, s)
         IN /\ Holds(after, issued \cup {id, s})
            /\ after.membersByNickname =
                 Put(registry.membersByNickname, n, Newcomer(n, id))
            /\ after.lastJoinedAt = registry.lastJoinedAt \cup {id}
<1> DEFINE member == Newcomer(n, id)
           added == addMember(registry, member)
<1>1. /\ member.id = id
      /\ Holds(added, issued \cup {id})
      /\ added.membersByNickname = Put(registry.membersByNickname, n, member)
      /\ added.lastJoinedAt = registry.lastJoinedAt
  BY NewcomerAdded DEF Inv, Known, Newcomer
<1>2. n \in DOMAIN added.membersByNickname /\ added.membersByNickname[n] = member
  BY <1>1 DEF Put
<1>3. s \in SessionIds \ (issued \cup {id})
  BY IdsAssumption
<1>4. (issued \cup {id}) \cup {s} = issued \cup {id, s}
  OBVIOUS
<1> HIDE DEF added, member
<1> DEFINE after == SignedIn(added, added.membersByNickname[n], s)
<1>5. /\ Holds(after, (issued \cup {id}) \cup {s})
      /\ after.membersByNickname = added.membersByNickname
      /\ after.lastJoinedAt =
           added.lastJoinedAt \cup {added.membersByNickname[n].id}
  BY <1>1, <1>2, <1>3, SignedInHolds
<1>6. after = Arrived(n, id, s)
  BY <1>2 DEF Arrived, added, member
<1> HIDE DEF after
<1> QED BY <1>1, <1>2, <1>4, <1>5, <1>6 DEF member

\* A newcomer's stamp and colour keep the two in step with the members.
LEMMA NewcomerFits ==
  ASSUME Inv, NEW n \in Nicknames \ Known, NEW id \in MemberIds \ issued
  PROVE  LET known == Put(registry.membersByNickname, n, Newcomer(n, id))
         IN /\ IdsOf(known) = IdsOf(registry.membersByNickname) \cup {id}
            /\ Coloured(known)
<1> DEFINE old == registry.membersByNickname
           member == Newcomer(n, id)
           known == Put(old, n, member)
           size == Cardinality(DOMAIN old)
<1>1. /\ DOMAIN known = DOMAIN old \cup {n}
      /\ known[n] = member
      /\ \A m \in DOMAIN old : known[m] = old[m] /\ m # n
  BY DEF Put, Known
<1>2. member.id = id /\ member.colorTag = size % NumColors
  BY DEF Newcomer, NewMember
<1>3. size \in Nat /\ Cardinality(DOMAIN known) = size + 1
  <2>1. IsFiniteSet(DOMAIN old) /\ n \notin DOMAIN old
    BY DEF Inv, Holds, Filed, Known
  <2> QED BY <1>1, <2>1, FS_CardinalityType, FS_AddElement
<1>4. \A m \in DOMAIN old : old[m].colorTag \in Nat
  <2>1. PICK S \in SUBSET Nicknames : old \in [S -> Members]
    BY DEF Inv, Holds, Typed, Partial
  <2> QED BY <2>1, ColorsAssumption DEF Members
<1> HIDE DEF known, member
<1>5. IdsOf(known) = IdsOf(old) \cup {id}
  BY <1>1, <1>2 DEF IdsOf
<1>6. Coloured(known)
  <2> SUFFICES ASSUME Cardinality(DOMAIN known) <= NumColors
               PROVE  \A m \in DOMAIN known :
                        /\ known[m].colorTag < Cardinality(DOMAIN known)
                        /\ \A k \in DOMAIN known :
                             known[m].colorTag = known[k].colorTag => m = k
    BY DEF Coloured
  <2>1. /\ size < NumColors
        /\ member.colorTag = size
    BY <1>2, <1>3, ColorsAssumption
  <2>2. \A m \in DOMAIN old :
          /\ old[m].colorTag < size
          /\ \A k \in DOMAIN old : old[m].colorTag = old[k].colorTag => m = k
    BY <1>3, <2>1 DEF Inv, Coloured
  <2> HIDE DEF size, old
  <2> QED BY <1>1, <1>3, <1>4, <2>1, <2>2
<1> QED BY <1>5, <1>6 DEF known, member

-----------------------------------------------------------------------------
(* The operations *)

\* Everyone who was in is in as who they were.
Kept ==
  \A n \in Known : /\ n \in Known'
                   /\ registry'.membersByNickname[n] =
                        registry.membersByNickname[n]

\* A member who returns: nothing but the sessions and the stamp changes.
LEMMA ReturnKeeps ==
  ASSUME Inv, NEW n \in Known, NEW s \in SessionIds, FreshSession(s),
         registry' = Returned(n, s), issued' = issued \cup {s},
         membersFile' \in {membersFile, registry'.membersByNickname},
         faults' \in Nat
  PROVE  Inv' /\ Kept
<1> DEFINE member == registry.membersByNickname[n]
<1>1. /\ Holds(registry', issued')
      /\ registry'.membersByNickname = registry.membersByNickname
      /\ registry'.lastJoinedAt = registry.lastJoinedAt \cup {member.id}
  <2>1. s \in SessionIds \ issued /\ n \in DOMAIN registry.membersByNickname
    BY DEF FreshSession, Known
  <2>2. Holds(registry, issued)
    BY DEF Inv
  <2>3. registry' = SignedIn(registry, member, s)
    BY DEF Returned
  <2> QED BY <2>1, <2>2, <2>3, SignedInHolds
<1>2. member.id \in IdsOf(registry.membersByNickname)
  BY DEF IdsOf, Known
<1>3. Stamped(registry')
  BY <1>1, <1>2 DEF Inv, Stamped
<1> QED BY <1>1, <1>3 DEF Inv, Kept, Known

\* A newcomer whose record was written.
LEMMA ArrivalKeeps ==
  ASSUME Inv, NEW n \in Nicknames \ Known, NEW id \in MemberIds \ issued,
         NEW s \in SessionIds, FreshSession(s),
         registry' = Arrived(n, id, s), issued' = issued \cup {id, s},
         membersFile' = registry'.membersByNickname, faults' \in Nat
  PROVE  Inv' /\ Kept
<1> DEFINE known == Put(registry.membersByNickname, n, Newcomer(n, id))
<1>1. /\ Holds(registry', issued')
      /\ registry'.membersByNickname = known
      /\ registry'.lastJoinedAt = registry.lastJoinedAt \cup {id}
  BY ArrivedHolds DEF FreshSession
<1>2. IdsOf(known) = IdsOf(registry.membersByNickname) \cup {id} /\ Coloured(known)
  BY NewcomerFits
<1>3. \A m \in Known : m \in DOMAIN known /\ known[m] = registry.membersByNickname[m]
  BY DEF Put, Known
<1> HIDE DEF known
<1>4. Stamped(registry')
  BY <1>1, <1>2 DEF Inv, Stamped
<1> QED BY <1>1, <1>2, <1>3, <1>4 DEF Inv, Kept, Known

\* Map.delete takes a Map.set of a new key back.
LEMMA PutDeleted ==
  ASSUME NEW f, NEW X, NEW Y, Partial(f, X, Y), NEW k, k \notin DOMAIN f, NEW v
  PROVE  Delete(Put(f, k, v), {k}) = f
<1>1. PICK S \in SUBSET X : f \in [S -> Y]
  BY DEF Partial
<1> QED BY <1>1 DEF Put, Delete, Restrict

\* Nothing to delete.
LEMMA NoneDeleted ==
  ASSUME NEW f, NEW X, NEW Y, Partial(f, X, Y)
  PROVE  Delete(f, {}) = f
<1>1. PICK S \in SUBSET X : f \in [S -> Y]
  BY DEF Partial
<1> QED BY <1>1 DEF Delete, Restrict

\* A newcomer whose record could not be written leaves the maps as they were.
LEMMA NewcomerUndone ==
  ASSUME Inv, NEW n \in Nicknames \ Known, NEW id \in MemberIds \ issued,
         NEW s \in SessionIds \ issued
  PROVE  LET after == RolledBack(Arrived(n, id, s), Newcomer(n, id), s)
         IN /\ DOMAIN after = Fields
            /\ after.membersByNickname = registry.membersByNickname
            /\ after.memberBySession = registry.memberBySession
            /\ after.sessionByMemberId = registry.sessionByMemberId
            /\ after.lastJoinedAt = registry.lastJoinedAt
<1> DEFINE member == Newcomer(n, id)
           added == addMember(registry, member)
           arrived == Arrived(n, id, s)
           after == RolledBack(arrived, member, s)
<1>1. member.id = id /\ member.nickname = n
  BY DEF Newcomer, NewMember
<1>2. /\ DOMAIN registry = Fields
      /\ Partial(registry.membersByNickname, Nicknames, Members)
      /\ Partial(registry.memberBySession, SessionIds, Members)
      /\ Partial(registry.sessionByMemberId, MemberIds, SessionIds)
  BY DEF Inv, Holds, Typed
<1>3. /\ n \notin DOMAIN registry.membersByNickname
      /\ s \notin DOMAIN registry.memberBySession
      /\ id \notin DOMAIN registry.sessionByMemberId
      /\ id \notin registry.lastJoinedAt
  BY DEF Inv, Holds, Filed, Agree, Stamped, IdsOf, Known
<1> HIDE DEF member, added
<1>4. /\ DOMAIN added = Fields
      /\ added.membersByNickname = Put(registry.membersByNickname, n, member)
      /\ added.memberBySession = registry.memberBySession
      /\ added.sessionByMemberId = registry.sessionByMemberId
      /\ added.lastJoinedAt = registry.lastJoinedAt
  BY <1>1, <1>2 DEF added, addMember, Fields
<1>5. Displaced(added, member.id) = {}
  BY <1>1, <1>3, <1>4 DEF Displaced
<1>6. arrived = SignedIn(added, member, s)
  BY DEF Arrived, added, member
<1> HIDE DEF arrived
<1>7. /\ DOMAIN arrived = Fields
      /\ arrived.membersByNickname = added.membersByNickname
      /\ arrived.memberBySession =
           Put(Delete(added.memberBySession, Displaced(added, member.id)), s, member)
      /\ arrived.sessionByMemberId = Put(added.sessionByMemberId, member.id, s)
      /\ arrived.lastJoinedAt = added.lastJoinedAt \cup {member.id}
  BY <1>4, <1>6 DEF SignedIn, Fields
<1>8. /\ DOMAIN after = Fields
      /\ after.membersByNickname = Delete(arrived.membersByNickname, {n})
      /\ after.memberBySession = Delete(arrived.memberBySession, {s})
      /\ after.sessionByMemberId = Delete(arrived.sessionByMemberId, {id})
      /\ after.lastJoinedAt = arrived.lastJoinedAt \ {id}
  BY <1>1, <1>7 DEF RolledBack, Fields
<1> HIDE DEF after
<1>9. after.membersByNickname = registry.membersByNickname
  BY <1>2, <1>3, <1>4, <1>7, <1>8, PutDeleted
<1>10. after.memberBySession = registry.memberBySession
  BY <1>2, <1>3, <1>4, <1>5, <1>7, <1>8, PutDeleted, NoneDeleted
<1>11. after.sessionByMemberId = registry.sessionByMemberId
  BY <1>1, <1>2, <1>3, <1>4, <1>7, <1>8, PutDeleted
<1>12. after.lastJoinedAt = registry.lastJoinedAt
  BY <1>1, <1>3, <1>4, <1>7, <1>8
<1> QED BY <1>8, <1>9, <1>10, <1>11, <1>12 DEF after, arrived, member

\* Maps with the same contents hold what the others hold.
LEMMA SameMaps ==
  ASSUME NEW maps, NEW used, Holds(maps, used), NEW more, used \subseteq more,
         NEW after, DOMAIN after = Fields,
         after.membersByNickname = maps.membersByNickname,
         after.memberBySession = maps.memberBySession,
         after.sessionByMemberId = maps.sessionByMemberId,
         after.lastJoinedAt = maps.lastJoinedAt
  PROVE  Holds(after, more)
<1>1. Typed(after)
  BY DEF Holds, Typed
<1>2. Filed(after, more)
  BY DEF Holds, Filed
<1>3. Agree(after, more)
  BY DEF Holds, Agree
<1> QED BY <1>1, <1>2, <1>3 DEF Holds

\* The same newcomer, as a step.
LEMMA UndoKeeps ==
  ASSUME Inv, NEW n \in Nicknames \ Known, NEW id \in MemberIds \ issued,
         NEW s \in SessionIds, FreshSession(s),
         registry' = RolledBack(Arrived(n, id, s), Newcomer(n, id), s),
         issued' = issued \cup {id, s}, membersFile' = membersFile,
         faults' \in Nat
  PROVE  Inv' /\ Kept
<1>1. /\ DOMAIN registry' = Fields
      /\ registry'.membersByNickname = registry.membersByNickname
      /\ registry'.memberBySession = registry.memberBySession
      /\ registry'.sessionByMemberId = registry.sessionByMemberId
      /\ registry'.lastJoinedAt = registry.lastJoinedAt
  BY NewcomerUndone DEF FreshSession
<1>2. Holds(registry, issued)
  BY DEF Inv
<1>3. Holds(registry', issued')
  BY <1>1, <1>2, SameMaps
<1>4. Stamped(registry')
  BY <1>1 DEF Inv, Stamped
<1> QED BY <1>1, <1>3, <1>4 DEF Inv, Kept, Known

\* A kick ends the member's session and no other.
LEMMA KickKeeps ==
  ASSUME Inv, NEW id \in MemberIds, kick(id)
  PROVE  Inv' /\ Kept
<1> DEFINE gone == Displaced(registry, id)
<1>1. /\ DOMAIN registry' = Fields
      /\ registry'.membersByNickname = registry.membersByNickname
      /\ registry'.memberBySession = Delete(registry.memberBySession, gone)
      /\ registry'.sessionByMemberId = Delete(registry.sessionByMemberId, {id})
      /\ registry'.lastJoinedAt = registry.lastJoinedAt
  BY DEF kick, Inv, Holds, Typed, Fields
<1>2. Typed(registry')
  BY <1>1, DeletePartial DEF Inv, Holds, Typed
<1>3. Filed(registry', issued)
  BY <1>1 DEF Inv, Holds, Filed
<1>4. \A t \in Live : t \in gone <=> registry.memberBySession[t].id = id
  BY DEF Inv, Holds, Agree, Displaced, Live
<1> HIDE DEF gone
<1>5. /\ DOMAIN registry'.memberBySession = Live \ gone
      /\ \A t \in Live \ gone :
           registry'.memberBySession[t] = registry.memberBySession[t]
      /\ DOMAIN registry'.sessionByMemberId =
           DOMAIN registry.sessionByMemberId \ {id}
      /\ \A m \in DOMAIN registry.sessionByMemberId \ {id} :
           registry'.sessionByMemberId[m] = registry.sessionByMemberId[m]
  BY <1>1 DEF Delete, Restrict, Live
<1>6. Agree(registry', issued)
  <2>1. Agree(registry, issued)
    BY DEF Inv, Holds
  <2>2. ASSUME NEW t \in Live \ gone
        PROVE  /\ registry.memberBySession[t].id \in
                    DOMAIN registry.sessionByMemberId \ {id}
               /\ registry.sessionByMemberId[registry.memberBySession[t].id] = t
               /\ \E n \in DOMAIN registry.membersByNickname :
                    registry.memberBySession[t] = registry.membersByNickname[n]
    BY <1>4, <2>1, <2>2 DEF Agree, Live
  <2>3. ASSUME NEW m \in DOMAIN registry.sessionByMemberId \ {id}
        PROVE  /\ registry.sessionByMemberId[m] \in Live \ gone
               /\ registry.memberBySession[registry.sessionByMemberId[m]].id = m
    BY <1>4, <2>1, <2>3 DEF Agree, Live
  <2>4. DOMAIN registry'.memberBySession \subseteq issued
    BY <1>5, <2>1 DEF Agree, Live
  <2>5. ASSUME NEW t \in DOMAIN registry'.memberBySession
        PROVE  /\ registry'.memberBySession[t].id \in
                    DOMAIN registry'.sessionByMemberId
               /\ registry'.sessionByMemberId[registry'.memberBySession[t].id] = t
               /\ \E n \in DOMAIN registry'.membersByNickname :
                    registry'.memberBySession[t] = registry'.membersByNickname[n]
    <3>1. t \in Live \ gone
          /\ registry'.memberBySession[t] = registry.memberBySession[t]
      BY <1>5, <2>5
    <3> QED BY <1>1, <1>5, <2>2, <3>1
  <2>6. ASSUME NEW m \in DOMAIN registry'.sessionByMemberId
        PROVE  /\ registry'.sessionByMemberId[m] \in DOMAIN registry'.memberBySession
               /\ registry'.memberBySession[registry'.sessionByMemberId[m]].id = m
    <3>1. m \in DOMAIN registry.sessionByMemberId \ {id}
          /\ registry'.sessionByMemberId[m] = registry.sessionByMemberId[m]
      BY <1>5, <2>6
    <3> QED BY <1>5, <2>3, <3>1
  <2> QED BY <2>4, <2>5, <2>6 DEF Agree
<1>7. issued' = issued /\ membersFile' = membersFile /\ faults' = faults
  BY DEF kick
<1> QED BY <1>1, <1>2, <1>3, <1>6, <1>7 DEF Inv, Holds, Stamped, Kept, Known

\* Everyone is signed out, nobody is forgotten.
LEMMA RememberedHolds ==
  ASSUME NEW used, Holds(registry, used), membersFile = registry.membersByNickname
  PROVE  Holds(Remembered, used) /\ Stamped(Remembered)
<1>1. ASSUME NEW X, NEW Y PROVE Partial(EmptyMap, X, Y)
  <2>1. EmptyMap \in [{} -> Y]
    BY DEF EmptyMap
  <2> QED BY <2>1 DEF Partial
<1>2. /\ DOMAIN Remembered = Fields
      /\ Remembered.membersByNickname = registry.membersByNickname
      /\ Remembered.memberBySession = EmptyMap
      /\ Remembered.sessionByMemberId = EmptyMap
      /\ Remembered.lastJoinedAt = IdsOf(registry.membersByNickname)
  BY DEF Remembered, Fields
<1>3. IdsOf(registry.membersByNickname) \subseteq MemberIds
  <2>1. PICK S \in SUBSET Nicknames : registry.membersByNickname \in [S -> Members]
    BY DEF Holds, Typed, Partial
  <2> QED BY <2>1 DEF IdsOf, Members
<1>4. Typed(Remembered)
  BY <1>1, <1>2, <1>3 DEF Holds, Typed
<1>5. Filed(Remembered, used)
  BY <1>2 DEF Holds, Filed
<1>6. Agree(Remembered, used)
  BY <1>2 DEF Agree, EmptyMap
<1>7. Stamped(Remembered)
  BY <1>2 DEF Stamped
<1> QED BY <1>4, <1>5, <1>6, <1>7 DEF Holds

\* A restart, as a step.
LEMMA RestartKeeps ==
  ASSUME Inv, registry' = Remembered, membersFile' = membersFile,
         issued' = issued, faults' \in Nat
  PROVE  Inv' /\ Kept
<1>1. Holds(Remembered, issued) /\ Stamped(Remembered)
  BY RememberedHolds DEF Inv
<1>2. registry'.membersByNickname = registry.membersByNickname
  BY DEF Remembered, Inv
<1> QED BY <1>1, <1>2 DEF Inv, Kept, Known

-----------------------------------------------------------------------------
(* The invariant *)

\* Nobody is known at the start.
LEMMA InitHolds == ASSUME Init PROVE Inv
<1>1. ASSUME NEW X, NEW Y PROVE Partial(EmptyMap, X, Y)
  <2>1. EmptyMap \in [{} -> Y]
    BY DEF EmptyMap
  <2> QED BY <2>1 DEF Partial
<1>2. /\ DOMAIN registry = Fields
      /\ registry.membersByNickname = EmptyMap
      /\ registry.memberBySession = EmptyMap
      /\ registry.sessionByMemberId = EmptyMap
      /\ registry.lastJoinedAt = {}
      /\ DOMAIN EmptyMap = {}
  BY DEF Init, Remembered, Fields, IdsOf, EmptyMap
<1>3. Typed(registry)
  BY <1>1, <1>2 DEF Typed
<1>4. Filed(registry, issued)
  BY <1>2, FS_EmptySet DEF Filed
<1>5. Agree(registry, issued)
  BY <1>2 DEF Agree
<1>6. Stamped(registry) /\ Coloured(registry.membersByNickname)
  BY <1>2 DEF Stamped, IdsOf, Coloured
<1> QED BY <1>2, <1>3, <1>4, <1>5, <1>6 DEF Inv, Holds, Init

\* No operation and no fault breaks it, and a member stays who they are.
LEMMA StepKeeps == ASSUME Inv, Next \/ Faults PROVE Inv' /\ Kept
<1>1. ASSUME NEW n \in Nicknames, NEW s \in SessionIds, join(n, s)
      PROVE  Inv' /\ Kept
  <2>1. /\ FreshSession(s)
        /\ membersFile' = registry'.membersByNickname
        /\ faults' = faults /\ faults \in Nat
    BY <1>1 DEF join, Inv
  <2>2. CASE n \in Known
    <3>1. registry' = Returned(n, s) /\ issued' = issued \cup {s}
      BY <1>1, <2>2 DEF join
    <3> QED BY <2>1, <2>2, <3>1, ReturnKeeps
  <2>3. CASE n \notin Known
    <3>1. PICK id \in MemberIds \ issued :
            registry' = Arrived(n, id, s) /\ issued' = issued \cup {id, s}
      BY <1>1, <2>3 DEF join
    <3> QED BY <2>1, <2>3, <3>1, ArrivalKeeps
  <2> QED BY <2>2, <2>3
<1>2. ASSUME NEW id \in MemberIds, kick(id)
      PROVE  Inv' /\ Kept
  BY <1>2, KickKeeps
<1>3. ASSUME NEW n \in Nicknames, NEW s \in SessionIds, JoinUnrecorded(n, s)
      PROVE  Inv' /\ Kept
  <2>1. FreshSession(s) /\ membersFile' = membersFile /\ faults' \in Nat
    BY <1>3 DEF JoinUnrecorded, Fault, Inv
  <2>2. CASE n \in Known
    <3>1. registry' = Returned(n, s) /\ issued' = issued \cup {s}
      BY <1>3, <2>2 DEF JoinUnrecorded
    <3> QED BY <2>1, <2>2, <3>1, ReturnKeeps
  <2>3. CASE n \notin Known
    <3>1. PICK id \in MemberIds \ issued :
            /\ registry' = RolledBack(Arrived(n, id, s), Newcomer(n, id), s)
            /\ issued' = issued \cup {id, s}
      BY <1>3, <2>3 DEF JoinUnrecorded
    <3> QED BY <2>1, <2>3, <3>1, UndoKeeps
  <2> QED BY <2>2, <2>3
<1>4. ASSUME Restart
      PROVE  Inv' /\ Kept
  <2>1. /\ registry' = Remembered /\ membersFile' = membersFile
        /\ issued' = issued /\ faults' \in Nat
    BY <1>4 DEF Restart, Fault, Inv
  <2> QED BY <2>1, RestartKeeps
<1> QED BY <1>1, <1>2, <1>3, <1>4 DEF Next, Faults

\* Nor does a step that changes none of the maps, whoever takes it.
LEMMA StutterKeeps ==
  ASSUME Inv, UNCHANGED <<registry, membersFile, issued>>, faults' \in Nat
  PROVE  Inv' /\ Kept
BY DEF Inv, Kept, Known, Holds, Typed, Filed, Agree, Stamped

\* What it says of what the runs check.
LEMMA InvMeans ==
  ASSUME Inv PROVE TypeOK /\ MapsAgree /\ MembersAreDurable /\ ColorsApart
<1>1. MembersAreDurable
  BY DEF Inv, MembersAreDurable
<1>2. ColorsApart
  BY DEF Inv, Coloured, ColorsApart, Known
<1> QED BY <1>1, <1>2, InvTyped, InvAgrees
=============================================================================
