------------------------------ MODULE Admission ------------------------------
(***************************************************************************)
(* Letting a guest in: POST /api/workspace/join reads the workspace's      *)
(* password, waits for the hash, and only then asks the registry.          *)
(* Meanwhile other guests join, the host kicks, and the password changes.  *)
(***************************************************************************)
EXTENDS Guests, FiniteSets, TLC

CONSTANTS
  Names, Passwords, DefaultName, NotSetUp, EnvSeed, Requests,
  NoJoin \* a request that is not a join

VARIABLES
  registry, membersFile, issued, \* the registry's
  config, hashing,               \* the configuration's
  faults,                        \* counted once for both
  joins \* the nickname a join is for, and whether it may displace

registryVars == <<registry, membersFile, issued>>
configVars == <<config, hashing>>
vars == <<registryVars, configVars, faults, joins>>

S == INSTANCE Sessions
W == INSTANCE WorkspaceConfig

ASSUME NotSetUpAssumption == NotSetUp \notin W!Configs
ASSUME EnvSeedAssumption == EnvSeed \in W!Configs \cup {NotSetUp}
ASSUME NoJoinAssumption == NoJoin \notin [nickname : Nicknames, force : BOOLEAN]

Joins == [nickname : Nicknames, force : BOOLEAN]

TypeOK ==
  /\ S!TypeOK
  /\ W!TypeOK
  /\ joins \in [Requests -> Joins \cup {NoJoin}]
  /\ \A r \in Requests : joins[r] # NoJoin <=> hashing[r].op = "check"

-----------------------------------------------------------------------------
(* POST /api/workspace/join *)

\* Bound: there is a session id left for every join under way.
IdsSuffice ==
  Cardinality({r \in Requests : joins[r] # NoJoin})
    < Cardinality(SessionIds \ issued)

\* Up to the await of the hash.
BeginJoin(r, n, candidate, force) ==
  /\ IdsSuffice
  /\ W!BeginCheck(r, candidate)
  /\ joins' = [joins EXCEPT ![r] = [nickname |-> n, force |-> force]]
  /\ UNCHANGED registryVars

\* Mutant: nobody is asked before a takeover.
MayEnterUnasked(n, force) == TRUE

\* Asked after the hash, in the same step as the join: 409 rather than a
\* takeover that nobody asked for.
MayEnter(n, force) == force \/ ~S!hasLiveSession(n)

Admitted(r) == W!Matches(r) /\ MayEnter(joins[r].nickname, joins[r].force)

\* From the hash to the answer.
EndJoin(r) ==
  /\ joins[r] # NoJoin
  /\ joins' = [joins EXCEPT ![r] = NoJoin]
  /\ W!Ends(r)
  /\ UNCHANGED config
  /\ \/ /\ Admitted(r) /\ S!Room(joins[r].nickname)
        /\ \E s \in SessionIds : \/ S!join(joins[r].nickname, s)
                                 \/ S!JoinUnrecorded(joins[r].nickname, s)
     \/ /\ ~(Admitted(r) /\ S!Room(joins[r].nickname))
        /\ UNCHANGED <<registryVars, faults>>

-----------------------------------------------------------------------------
(* The host *)

KickRoute(id) ==
  /\ S!kick(id)
  /\ UNCHANGED <<configVars, joins>>

Configure ==
  /\ W!Store
  /\ UNCHANGED <<registryVars, joins>>

Fault ==
  \/ /\ W!Damaged \/ \E r \in Requests : W!WriteFails(r)
     /\ UNCHANGED <<registryVars, joins>>
  \/ /\ S!Restart
     /\ W!Restart
     /\ joins' = [r \in Requests |-> NoJoin]

-----------------------------------------------------------------------------
Init ==
  /\ S!Init
  /\ W!Init
  /\ joins = [r \in Requests |-> NoJoin]

Next ==
  \/ \E r \in Requests :
       \/ \E n \in Nicknames, candidate \in Passwords, force \in BOOLEAN :
            BeginJoin(r, n, candidate, force)
       \/ EndJoin(r)
  \/ \E id \in MemberIds : KickRoute(id)
  \/ Configure
  \/ Fault

Spec == Init /\ [][Next]_vars

-----------------------------------------------------------------------------
(* Properties *)

\* A join that was told it would displace a session, and knows a password.
Takeover(r, n) ==
  /\ joins[r] # NoJoin
  /\ joins'[r] = NoJoin
  /\ joins[r] = [nickname |-> n, force |-> TRUE]
  /\ W!Matches(r)

\* The join route, "409 rather than a silent takeover": a session ends only by a
\* takeover its own member confirmed, by a kick of that member, or by a restart.
\* No password change and nobody else's join ends it, in whatever order the
\* hashes come back.
SessionsEndForAReason ==
  [][\A s \in S!Live \ S!Live' :
       \/ \E r \in Requests : Takeover(r, registry.memberBySession[s].nickname)
       \/ S!kick(registry.memberBySession[s].id)
       \/ S!Restart]_vars

\* What Sessions and WorkspaceConfig promise by themselves, here under
\* everything that happens between a join's check and its entry.  Of the maps:
MapsAgree == S!MapsAgree

\* of members.json:
MembersAreDurable == S!MembersAreDurable

\* of the colours:
ColorsApart == S!ColorsApart

\* of who a nickname is:
SameMember == S!SameMember

\* of the password:
PasswordKept == W!PasswordKept

-----------------------------------------------------------------------------
(* Small instances for TLC *)

Default == "RMF Block"

\* WORKSPACE_PASSWORD alone is set: the workspace is open before the first
\* guest comes.
PasswordOnly == [name |-> Default, password |-> "p1"]

Symmetry ==
  Permutations(Nicknames) \cup Permutations(MemberIds)
    \cup Permutations(SessionIds) \cup Permutations(Requests)
=============================================================================
