--------------------------- MODULE AdmissionProofs ---------------------------
(***************************************************************************)
(* Proofs about Admission: what SessionsProofs shows of one call of the    *)
(* registry holds of every behaviour of the routes, and no session ends    *)
(* but for a reason.                                                       *)
(***************************************************************************)
EXTENDS Admission, TLAPS

P == INSTANCE SessionsProofs

USE IdsAssumption, ColorsAssumption

-----------------------------------------------------------------------------
(* The registry that SessionsProofs is about is the registry of the routes *)

\* join is the join of the proofs.
LEMMA SameJoin ==
  ASSUME NEW n, NEW s
  PROVE  S!join(n, s) <=> P!join(n, s)
BY DEF S!join, S!FreshSession, S!Room, S!Known, S!Returned, S!SignedIn,
       S!Displaced, S!Put, S!Delete, S!Restrict, S!Arrived, S!addMember,
       S!Newcomer, S!NewMember, S!Cardinality, S!IsFiniteSet,
       P!join, P!FreshSession, P!Room, P!Known, P!Returned, P!SignedIn,
       P!Displaced, P!Put, P!Delete, P!Restrict, P!Arrived, P!addMember,
       P!Newcomer, P!NewMember, P!Cardinality, P!IsFiniteSet

\* So is the join whose record is not written.
LEMMA SameJoinUnrecorded ==
  ASSUME NEW n, NEW s
  PROVE  S!JoinUnrecorded(n, s) <=> P!JoinUnrecorded(n, s)
BY DEF S!JoinUnrecorded, S!Fault, S!RolledBack,
       S!FreshSession, S!Room, S!Known, S!Returned, S!SignedIn,
       S!Displaced, S!Put, S!Delete, S!Restrict, S!Arrived, S!addMember,
       S!Newcomer, S!NewMember, S!Cardinality, S!IsFiniteSet,
       P!JoinUnrecorded, P!Fault, P!RolledBack,
       P!FreshSession, P!Room, P!Known, P!Returned, P!SignedIn,
       P!Displaced, P!Put, P!Delete, P!Restrict, P!Arrived, P!addMember,
       P!Newcomer, P!NewMember, P!Cardinality, P!IsFiniteSet

\* So are the kick,
LEMMA SameKick == ASSUME NEW id PROVE S!kick(id) <=> P!kick(id)
BY DEF S!kick, S!Displaced, S!Live, S!Delete, S!Restrict,
       P!kick, P!Displaced, P!Live, P!Delete, P!Restrict

\* the restart,
LEMMA SameRestart == S!Restart <=> P!Restart
BY DEF S!Restart, S!Fault, S!Remembered, S!EmptyMap, S!IdsOf,
       P!Restart, P!Fault, P!Remembered, P!EmptyMap, P!IdsOf

\* and the start.
LEMMA SameInit == S!Init <=> P!Init
BY DEF S!Init, S!Remembered, S!EmptyMap, S!IdsOf,
       P!Init, P!Remembered, P!EmptyMap, P!IdsOf

\* What the proofs' invariant says of the routes' properties.
LEMMA InvMeans ==
  ASSUME P!Inv
  PROVE  S!TypeOK /\ MapsAgree /\ MembersAreDurable /\ ColorsApart
<1>1. P!TypeOK /\ P!MapsAgree /\ P!MembersAreDurable /\ P!ColorsApart
  BY P!InvMeans
<1>2. S!TypeOK
  BY <1>1 DEF S!TypeOK, S!Members, P!TypeOK, P!Members
<1>3. MapsAgree
  BY <1>1 DEF MapsAgree, S!MapsAgree, S!Live, S!Range, S!IdsOf,
              P!MapsAgree, P!Live, P!Range, P!IdsOf
<1>4. MembersAreDurable
  BY <1>1 DEF MembersAreDurable, S!MembersAreDurable, P!MembersAreDurable
<1>5. ColorsApart
  BY <1>1 DEF ColorsApart, S!ColorsApart, S!Known, S!Cardinality, S!IsFiniteSet,
              P!ColorsApart, P!Known, P!Cardinality, P!IsFiniteSet
<1> QED BY <1>2, <1>3, <1>4, <1>5

-----------------------------------------------------------------------------
(* The invariant of the registry, under every step of the routes *)

\* A step of the routes is a call of the registry or leaves its maps alone.
LEMMA StepIs ==
  ASSUME P!Inv, [Next]_vars, joins \in [Requests -> Joins \cup {NoJoin}]
  PROVE  \/ P!Next \/ P!Faults
         \/ UNCHANGED registryVars /\ faults' \in Nat
<1>1. faults \in Nat
  BY DEF P!Inv
<1>2. CASE UNCHANGED vars
  BY <1>1, <1>2 DEF vars
<1>3. ASSUME NEW r \in Requests, NEW n \in Nicknames, NEW candidate \in Passwords,
             NEW force \in BOOLEAN, BeginJoin(r, n, candidate, force)
      PROVE  UNCHANGED registryVars /\ faults' \in Nat
  BY <1>1, <1>3 DEF BeginJoin, W!BeginCheck, W!Begins
<1>4. ASSUME NEW r \in Requests, EndJoin(r)
      PROVE  P!Next \/ P!Faults \/ (UNCHANGED registryVars /\ faults' \in Nat)
  <2>1. joins[r].nickname \in Nicknames
    BY <1>4 DEF EndJoin, Joins
  <2>2. CASE UNCHANGED <<registryVars, faults>>
    BY <1>1, <2>2
  <2>3. CASE \E s \in SessionIds : \/ S!join(joins[r].nickname, s)
                                   \/ S!JoinUnrecorded(joins[r].nickname, s)
    BY <2>1, <2>3, SameJoin, SameJoinUnrecorded DEF P!Next, P!Faults
  <2> QED BY <1>4, <2>2, <2>3 DEF EndJoin
<1>5. ASSUME NEW id \in MemberIds, KickRoute(id)
      PROVE  P!Next
  BY <1>5, SameKick DEF KickRoute, P!Next
<1>6. CASE Configure
  <2>1. UNCHANGED faults
    BY <1>6 DEF Configure, W!Store, W!BeginSetup, W!BeginChange, W!Begins,
                W!EndStore
  <2> QED BY <1>1, <1>6, <2>1 DEF Configure
<1>7. CASE Fault
  <2>1. CASE S!Restart
    BY <2>1, SameRestart DEF P!Faults
  <2>2. CASE /\ W!Damaged \/ \E r \in Requests : W!WriteFails(r)
             /\ UNCHANGED <<registryVars, joins>>
    BY <1>1, <2>2 DEF W!Damaged, W!WriteFails, W!Fault
  <2> QED BY <1>7, <2>1, <2>2 DEF Fault
<1> QED BY <1>2, <1>3, <1>4, <1>5, <1>6, <1>7 DEF Next

\* The joins under way are joins.
JoinsTyped == joins \in [Requests -> Joins \cup {NoJoin}]

\* Every step keeps the invariant and everyone who they are.
LEMMA StepKeeps ==
  ASSUME P!Inv, JoinsTyped, [Next]_vars
  PROVE  P!Inv' /\ P!Kept
<1>1. CASE P!Next \/ P!Faults
  BY <1>1, P!StepKeeps
<1>2. CASE UNCHANGED registryVars /\ faults' \in Nat
  BY <1>2, P!StutterKeeps DEF registryVars
<1> QED BY <1>1, <1>2, StepIs DEF JoinsTyped

-----------------------------------------------------------------------------
(* The types of what the routes keep *)

Work == {W!Idle} \cup W!Checks \cup W!Stores

RouteTypes ==
  /\ config \in W!Configs \cup {NotSetUp}
  /\ hashing \in [Requests -> Work]
  /\ JoinsTyped
  /\ \A r \in Requests : joins[r] # NoJoin <=> hashing[r].op = "check"

\* Whatever a request begins to hash for, it is no join unless it is a check.
LEMMA HashingTyped ==
  ASSUME RouteTypes, NEW r \in Requests,
         NEW work \in Work, NEW join \in Joins \cup {NoJoin},
         hashing' = [hashing EXCEPT ![r] = work],
         joins' = [joins EXCEPT ![r] = join],
         join # NoJoin <=> work.op = "check",
         config' \in W!Configs \cup {NotSetUp}
  PROVE  RouteTypes'
<1>1. /\ hashing' \in [Requests -> Work]
      /\ joins' \in [Requests -> Joins \cup {NoJoin}]
  BY DEF RouteTypes, JoinsTyped
<1>2. \A q \in Requests : joins'[q] # NoJoin <=> hashing'[q].op = "check"
  BY DEF RouteTypes, JoinsTyped
<1> QED BY <1>1, <1>2 DEF RouteTypes, JoinsTyped

\* The same, for a request that has no join under way.
LEMMA StoringTyped ==
  ASSUME RouteTypes, NEW r \in Requests, NEW work \in Work,
         hashing[r].op # "check", work.op # "check",
         hashing' = [hashing EXCEPT ![r] = work], joins' = joins,
         config' \in W!Configs \cup {NotSetUp}
  PROVE  RouteTypes'
<1>1. joins[r] = NoJoin /\ joins' = [joins EXCEPT ![r] = NoJoin]
  BY DEF RouteTypes, JoinsTyped
<1> QED BY <1>1, HashingTyped

\* Every step keeps these types.
LEMMA RouteTypesKept ==
  ASSUME RouteTypes, [Next]_vars
  PROVE  RouteTypes'
<1>0. W!Idle \in Work /\ W!Idle.op # "check"
  BY DEF Work, W!Idle
<1>1. CASE UNCHANGED vars
  BY <1>1 DEF vars, configVars, RouteTypes, JoinsTyped
<1>2. ASSUME NEW r \in Requests, NEW n \in Nicknames, NEW candidate \in Passwords,
             NEW force \in BOOLEAN, BeginJoin(r, n, candidate, force)
      PROVE  RouteTypes'
  <2> DEFINE work == [op |-> "check", password |-> candidate, stored |-> config]
             join == [nickname |-> n, force |-> force]
  <2>1. /\ hashing' = [hashing EXCEPT ![r] = work]
        /\ joins' = [joins EXCEPT ![r] = join]
        /\ config' = config /\ config \in W!Configs
    BY <1>2 DEF BeginJoin, W!BeginCheck, W!Begins, W!isWorkspaceOpen, RouteTypes
  <2>2. work \in Work /\ work.op = "check"
    BY <2>1 DEF Work, W!Checks
  <2>3. join \in Joins /\ join # NoJoin
    BY NoJoinAssumption DEF Joins
  <2> QED BY <2>1, <2>2, <2>3, HashingTyped
<1>3. ASSUME NEW r \in Requests, EndJoin(r)
      PROVE  RouteTypes'
  BY <1>0, <1>3, HashingTyped DEF EndJoin, W!Ends, RouteTypes
<1>4. ASSUME NEW id \in MemberIds, KickRoute(id)
      PROVE  RouteTypes'
  BY <1>4 DEF KickRoute, configVars, RouteTypes, JoinsTyped
<1>5. CASE Configure
  <2>1. joins' = joins
    BY <1>5 DEF Configure
  <2>2. ASSUME NEW r \in Requests, NEW password \in Passwords,
               NEW name \in Names \cup {DefaultName},
               W!BeginSetup(r, name, password)
        PROVE  RouteTypes'
    <3> DEFINE work == [op |-> "new", name |-> name, password |-> password]
    <3>1. work \in Work /\ work.op # "check"
      BY DEF Work, W!Stores
    <3> QED BY <1>0, <2>1, <2>2, <3>1, StoringTyped
            DEF W!BeginSetup, W!Begins, RouteTypes
  <2>3. ASSUME NEW r \in Requests, NEW password \in Passwords,
               W!BeginChange(r, password)
        PROVE  RouteTypes'
    <3> DEFINE work == [op |-> "existing", name |-> W!getWorkspaceName,
                        password |-> password]
    <3>1. W!getWorkspaceName \in Names \cup {DefaultName}
      BY DEF W!getWorkspaceName, W!isWorkspaceOpen, W!Configs, RouteTypes
    <3>2. work \in Work /\ work.op # "check"
      BY <3>1 DEF Work, W!Stores
    <3> QED BY <1>0, <2>1, <2>3, <3>2, StoringTyped
            DEF W!BeginChange, W!Begins, RouteTypes
  <2>4. ASSUME NEW r \in Requests, W!EndStore(r)
        PROVE  RouteTypes'
    <3>1. hashing[r].op \in {"new", "existing"} /\ hashing[r] \in Work
      BY <2>4 DEF W!EndStore, RouteTypes
    <3>2. [name |-> hashing[r].name, password |-> hashing[r].password] \in W!Configs
      BY <3>1 DEF Work, W!Idle, W!Checks, W!Stores, W!Configs
    <3>3. config' \in W!Configs \cup {NotSetUp}
      BY <2>4, <3>2 DEF W!EndStore, RouteTypes
    <3> QED BY <1>0, <2>1, <2>4, <3>1, <3>3, StoringTyped DEF W!EndStore, W!Ends
  <2> QED BY <1>5, <2>2, <2>3, <2>4 DEF Configure, W!Store
<1>6. CASE Fault
  <2>1. CASE W!Damaged /\ joins' = joins
    BY <2>1 DEF W!Damaged, RouteTypes, JoinsTyped
  <2>2. ASSUME NEW r \in Requests, W!WriteFails(r), joins' = joins
        PROVE  RouteTypes'
    BY <1>0, <2>2, StoringTyped DEF W!WriteFails, W!MayStore, W!Ends, RouteTypes
  <2>3. CASE W!Restart /\ joins' = [r \in Requests |-> NoJoin]
    <3>1. config' \in W!Configs \cup {NotSetUp}
      BY <2>3, EnvSeedAssumption DEF W!Restart, W!Seeded, RouteTypes
    <3>2. hashing' = [r \in Requests |-> W!Idle]
      BY <2>3 DEF W!Restart
    <3> QED BY <1>0, <2>3, <3>1, <3>2 DEF RouteTypes, JoinsTyped
  <2> QED BY <1>6, <2>1, <2>2, <2>3 DEF Fault
<1> QED BY <1>1, <1>2, <1>3, <1>4, <1>5, <1>6 DEF Next

-----------------------------------------------------------------------------
(* Why a session ends *)

\* The session a join displaces is its own member's, and somebody was told.
LEMMA DisplacedIsOwn ==
  ASSUME P!Inv, NEW n \in S!Known, NEW s \in S!Live,
         s \in S!Displaced(registry, registry.membersByNickname[n].id)
  PROVE  registry.memberBySession[s].nickname = n /\ S!hasLiveSession(n)
<1> DEFINE id == registry.membersByNickname[n].id
<1>1. id \in DOMAIN registry.sessionByMemberId /\ s = registry.sessionByMemberId[id]
  BY DEF S!Displaced
<1>2. registry.memberBySession[s].id = id
  BY <1>1 DEF P!Inv, P!Holds, P!Agree
<1>3. PICK m \in DOMAIN registry.membersByNickname :
        registry.memberBySession[s] = registry.membersByNickname[m]
  BY DEF P!Inv, P!Holds, P!Agree, S!Live
<1>4. m = n
  BY <1>2, <1>3 DEF P!Inv, P!Holds, P!Filed, S!Known
<1>5. registry.memberBySession[s].nickname = n
  BY <1>3, <1>4 DEF P!Inv, P!Holds, P!Filed
<1> QED BY <1>5 DEF S!hasLiveSession

\* A member who returns ends no session but the one displaced.
LEMMA ReturnEnds ==
  ASSUME NEW n, NEW s, registry' = S!Returned(n, s), P!Inv
  PROVE  S!Live \ S!Live' \subseteq
           S!Displaced(registry, registry.membersByNickname[n].id)
<1>1. registry'.memberBySession =
        S!Put(S!Delete(registry.memberBySession,
                       S!Displaced(registry, registry.membersByNickname[n].id)),
              s, registry.membersByNickname[n])
  BY DEF S!Returned, S!SignedIn, P!Inv, P!Holds, P!Typed, P!Fields
<1> QED BY <1>1 DEF S!Live, S!Put, S!Delete, S!Restrict

\* A newcomer ends none, let in or not.
LEMMA ArrivalEndsNone ==
  ASSUME P!Inv, NEW n \in Nicknames \ S!Known,
         NEW id \in MemberIds \ issued, NEW s \in SessionIds \ issued,
         \/ registry' = S!Arrived(n, id, s)
         \/ registry' = S!RolledBack(S!Arrived(n, id, s), S!Newcomer(n, id), s)
  PROVE  S!Live \subseteq S!Live'
<1> DEFINE member == S!Newcomer(n, id)
           added == S!addMember(registry, member)
           arrived == S!Arrived(n, id, s)
<1>1. member.id = id
  BY DEF S!Newcomer, S!NewMember
<1>2. id \notin DOMAIN registry.sessionByMemberId /\ s \notin S!Live
  BY DEF P!Inv, P!Holds, P!Filed, P!Agree, S!Live
<1>3. DOMAIN registry = P!Fields
  BY DEF P!Inv, P!Holds, P!Typed
<1> HIDE DEF member
<1>4. /\ DOMAIN added = P!Fields
      /\ added.memberBySession = registry.memberBySession
      /\ added.sessionByMemberId = registry.sessionByMemberId
  BY <1>3 DEF S!addMember, P!Fields
<1>5. S!Displaced(added, member.id) = {}
  BY <1>1, <1>2, <1>4 DEF S!Displaced
<1>6. arrived = S!SignedIn(added, member, s)
  BY DEF S!Arrived, member
<1> HIDE DEF added, arrived
<1>7. /\ DOMAIN arrived = P!Fields
      /\ arrived.memberBySession =
           S!Put(S!Delete(added.memberBySession, {}), s, member)
  BY <1>4, <1>5, <1>6 DEF S!SignedIn, P!Fields
<1>8. DOMAIN arrived.memberBySession = S!Live \cup {s}
  BY <1>4, <1>7 DEF S!Put, S!Delete, S!Restrict, S!Live
<1>9. S!RolledBack(arrived, member, s).memberBySession =
        S!Delete(arrived.memberBySession, {s})
  BY <1>7 DEF S!RolledBack, P!Fields
<1>10. CASE registry' = arrived
  BY <1>8, <1>10 DEF S!Live
<1>11. CASE registry' = S!RolledBack(arrived, member, s)
  BY <1>2, <1>8, <1>9, <1>11 DEF S!Live, S!Delete, S!Restrict
<1> QED BY <1>10, <1>11 DEF arrived, member

\* A session that a join's end closes was displaced by a takeover.
LEMMA EndJoinEnds ==
  ASSUME P!Inv, JoinsTyped, NEW r \in Requests, EndJoin(r),
         NEW s \in S!Live \ S!Live'
  PROVE  Takeover(r, registry.memberBySession[s].nickname)
<1> DEFINE n == joins[r].nickname
<1>1. /\ joins[r] \in Joins /\ joins[r] # NoJoin
      /\ joins'[r] = NoJoin
  BY DEF EndJoin, JoinsTyped
<1>2. registry' # registry
  BY DEF S!Live
<1>3. PICK t \in SessionIds : S!join(n, t) \/ S!JoinUnrecorded(n, t)
  BY <1>2 DEF EndJoin, registryVars
<1>4. Admitted(r)
  BY <1>2 DEF EndJoin, registryVars
<1>5. t \in SessionIds \ issued
  BY <1>3 DEF S!join, S!JoinUnrecorded, S!FreshSession
<1>6. CASE n \in S!Known
  <2>1. registry' = S!Returned(n, t)
    BY <1>3, <1>6 DEF S!join, S!JoinUnrecorded
  <2>2. s \in S!Displaced(registry, registry.membersByNickname[n].id)
    BY <2>1, ReturnEnds
  <2>3. registry.memberBySession[s].nickname = n /\ S!hasLiveSession(n)
    BY <1>6, <2>2, DisplacedIsOwn
  <2>4. joins[r].force = TRUE
    BY <1>1, <1>4, <2>3 DEF Admitted, MayEnter, Joins
  <2>5. joins[r] = [nickname |-> n, force |-> TRUE]
    BY <1>1, <2>4 DEF Joins
  <2> QED BY <1>1, <1>4, <2>3, <2>5 DEF Takeover, Admitted
<1>7. CASE n \notin S!Known
  <2>1. PICK id \in MemberIds \ issued :
          \/ registry' = S!Arrived(n, id, t)
          \/ registry' = S!RolledBack(S!Arrived(n, id, t), S!Newcomer(n, id), t)
    BY <1>3, <1>7 DEF S!join, S!JoinUnrecorded
  <2>2. n \in Nicknames
    BY <1>1 DEF Joins
  <2>3. S!Live \subseteq S!Live'
    BY <1>5, <1>7, <2>1, <2>2, ArrivalEndsNone
  <2> QED BY <2>3
<1> QED BY <1>6, <1>7

\* The reason of a step that ends sessions.
EndsForAReason ==
  \A s \in S!Live \ S!Live' :
    \/ \E r \in Requests : Takeover(r, registry.memberBySession[s].nickname)
    \/ S!kick(registry.memberBySession[s].id)
    \/ S!Restart

\* Every step that ends a session has one.
LEMMA StepEndsForAReason ==
  ASSUME P!Inv, JoinsTyped, [Next]_vars
  PROVE  EndsForAReason
<1> SUFFICES ASSUME NEW s \in S!Live \ S!Live'
             PROVE  \/ \E r \in Requests :
                         Takeover(r, registry.memberBySession[s].nickname)
                    \/ S!kick(registry.memberBySession[s].id)
                    \/ S!Restart
  BY DEF EndsForAReason
<1>1. registry' # registry
  BY DEF S!Live
<1>2. ASSUME NEW r \in Requests, EndJoin(r)
      PROVE  Takeover(r, registry.memberBySession[s].nickname)
  BY <1>2, EndJoinEnds
<1>3. ASSUME NEW id \in MemberIds, KickRoute(id)
      PROVE  S!kick(registry.memberBySession[s].id)
  <2>1. S!kick(id)
    BY <1>3 DEF KickRoute
  <2>2. registry'.memberBySession =
          S!Delete(registry.memberBySession, S!Displaced(registry, id))
    BY <2>1 DEF S!kick, P!Inv, P!Holds, P!Typed, P!Fields
  <2>3. s \in S!Displaced(registry, id)
    BY <2>2 DEF S!Live, S!Delete, S!Restrict
  <2>4. registry.memberBySession[s].id = id
    BY <2>3 DEF S!Displaced, P!Inv, P!Holds, P!Agree
  <2> QED BY <2>1, <2>4
<1>4. ASSUME Fault PROVE S!Restart
  BY <1>1, <1>4 DEF Fault, registryVars
<1> QED
  BY <1>1, <1>2, <1>3, <1>4 DEF Next, BeginJoin, Configure, vars, registryVars

-----------------------------------------------------------------------------
(* Why the password changes *)

\* A password that replaces another was given with a change of it.
ChangedOnPurpose ==
  config # NotSetUp /\ config' \notin {config, NotSetUp} =>
    \E r \in Requests : /\ hashing[r].op = "existing"
                        /\ hashing'[r] = W!Idle
                        /\ config'.password = hashing[r].password

\* Every step that changes it does: a setup whose hash comes back late finds the
\* workspace open and stores nothing, a restart seeds only what is not open.
LEMMA StepChangesOnPurpose ==
  ASSUME RouteTypes, [Next]_vars
  PROVE  ChangedOnPurpose
<1> SUFFICES ASSUME config # NotSetUp, config' \notin {config, NotSetUp}
             PROVE  \E r \in Requests : /\ hashing[r].op = "existing"
                                        /\ hashing'[r] = W!Idle
                                        /\ config'.password = hashing[r].password
  BY DEF ChangedOnPurpose
<1>1. CASE Configure
  <2>1. PICK r \in Requests : W!EndStore(r)
    BY <1>1 DEF Configure, W!Store, W!BeginSetup, W!BeginChange, W!Begins
  <2>2. /\ W!MayStore(r)
        /\ config'.password = hashing[r].password
    BY <2>1 DEF W!EndStore
  <2>3. hashing[r].op = "existing"
    BY <2>2 DEF W!MayStore, W!isWorkspaceOpen
  <2>4. hashing'[r] = W!Idle
    BY <2>1 DEF W!EndStore, W!Ends, RouteTypes
  <2> QED BY <2>2, <2>3, <2>4
<1>2. CASE Fault
  <2>1. config' \in {config, NotSetUp}
    BY <1>2 DEF Fault, W!Damaged, W!WriteFails, W!Restart, W!Seeded, W!isWorkspaceOpen
  <2> QED BY <2>1
<1> QED
  BY <1>1, <1>2 DEF Next, BeginJoin, W!BeginCheck, W!Begins, EndJoin, KickRoute,
                    vars, configVars

-----------------------------------------------------------------------------
(* Theorems *)

\* The invariant of the registry and the types of the routes, always.
THEOREM InvAlways == Spec => [](P!Inv /\ RouteTypes)
<1>1. Init => P!Inv /\ RouteTypes
  <2>1. ASSUME Init PROVE P!Inv
    BY <2>1, SameInit, P!InitHolds DEF Init
  <2>2. ASSUME Init PROVE RouteTypes
    BY <2>2, EnvSeedAssumption
       DEF Init, W!Init, RouteTypes, JoinsTyped, Work, W!Idle
  <2> QED BY <2>1, <2>2
<1>2. P!Inv /\ RouteTypes /\ [Next]_vars => (P!Inv /\ RouteTypes)'
  BY StepKeeps, RouteTypesKept DEF RouteTypes
<1> QED BY <1>1, <1>2, PTL DEF Spec

\* Types: the maps, the configuration, the work under way; and a request hashes
\* for a check exactly while it is a join.
THEOREM TypesCorrect == Spec => []TypeOK
<1>1. ASSUME P!Inv, RouteTypes PROVE TypeOK
  <2>1. S!TypeOK /\ faults \in Nat
    BY <1>1, InvMeans DEF P!Inv
  <2> QED BY <1>1, <2>1 DEF TypeOK, W!TypeOK, RouteTypes, JoinsTyped, Work
<1> QED BY <1>1, InvAlways, PTL

\* The four maps of the registry tell one story, whatever order the hashes of
\* joins come back in and whatever write fails.
THEOREM MapsAlwaysAgree == Spec => []MapsAgree
<1>1. ASSUME P!Inv PROVE MapsAgree
  BY <1>1, InvMeans
<1> QED BY <1>1, InvAlways, PTL

\* Nobody is remembered who is not in members.json, and nobody forgotten.
THEOREM MembersAlwaysDurable == Spec => []MembersAreDurable
<1>1. ASSUME P!Inv PROVE MembersAreDurable
  BY <1>1, InvMeans
<1> QED BY <1>1, InvAlways, PTL

\* While there are no more members than colours, each has another colour.
THEOREM ColorsAlwaysApart == Spec => []ColorsApart
<1>1. ASSUME P!Inv PROVE ColorsApart
  BY <1>1, InvMeans
<1> QED BY <1>1, InvAlways, PTL

\* A nickname keeps its id and its colour.
THEOREM AlwaysTheSameMember == Spec => SameMember
<1>1. ASSUME P!Inv, RouteTypes, [Next]_vars
      PROVE  [\A n \in S!Known : /\ n \in S!Known'
                                 /\ registry'.membersByNickname[n] =
                                      registry.membersByNickname[n]]_(S!vars)
  BY <1>1, StepKeeps DEF RouteTypes, P!Kept, P!Known, S!Known
<1> QED BY <1>1, InvAlways, PTL DEF Spec, SameMember, S!SameMember

\* A session ends by a takeover its member confirmed, by a kick of that member
\* or by a restart, and by nothing else.
THEOREM SessionsEndOnlyForAReason == Spec => SessionsEndForAReason
<1>1. ASSUME P!Inv, RouteTypes, [Next]_vars
      PROVE  [EndsForAReason]_vars
  BY <1>1, StepEndsForAReason DEF RouteTypes
<1>2. Spec => [][EndsForAReason]_vars
  BY <1>1, InvAlways, PTL DEF Spec
<1> QED BY <1>2 DEF SessionsEndForAReason, EndsForAReason

\* The password guests were given changes only by a change of it that finds the
\* workspace open: no setup and no restart replaces it, however long they hash.
THEOREM PasswordAlwaysKept == Spec => PasswordKept
<1>1. ASSUME RouteTypes, [Next]_vars
      PROVE  [ChangedOnPurpose]_(W!configVars)
  BY <1>1, StepChangesOnPurpose
<1>2. Spec => [][ChangedOnPurpose]_(W!configVars)
  BY <1>1, InvAlways, PTL DEF Spec
<1> QED BY <1>2 DEF PasswordKept, W!PasswordKept, ChangedOnPurpose
=============================================================================
