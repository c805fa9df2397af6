---------------------------- MODULE YorkieTokens ----------------------------
(***************************************************************************)
(* The tokens a browser hands to Yorkie: lib/auth/yorkie-token.ts.  A      *)
(* token stands for a session, and outlives it; the host's stands for the  *)
(* bootstrap secret.                                                       *)
(***************************************************************************)
EXTENDS Naturals, FiniteSets, Functions

CONSTANTS
  SessionIds,
  Tokens,      \* every id randomUUID may hand out to a token
  HostSession, \* "host:" and the secret: what the host's token stands for
  TokenTTL,    \* TOKEN_TTL_MS, in ticks
  MaxTime      \* bound: how far the clock runs

VARIABLES
  tokens, \* sessionByToken: what a token stands for, and when it expires
  given,  \* every token that was handed out, with what it stood for
  now

tokenVars == <<tokens, given, now>>

Holders == SessionIds \cup {HostSession}

Entries == [session : Holders, expiresAt : Nat]

TypeOK ==
  /\ \E T \in SUBSET Tokens : tokens \in [T -> Entries]
  /\ \E T \in SUBSET Tokens : given \in [T -> Holders]
  /\ now \in Nat

-----------------------------------------------------------------------------
Expired(t) == tokens[t].expiresAt <= now

Unexpired == {t \in DOMAIN tokens : ~Expired(t)}

\* Mutant: a token that was kept is good enough, expired or not.
HeldAtAll(session) == {t \in DOMAIN tokens : tokens[t].session = session}

\* The tokens the loop of issue finds for a session that already has one.
Held(session) == {t \in Unexpired : tokens[t].session = session}

\* What is left of the map when issue has pruned it.
Pruned == Restrict(tokens, Unexpired)

WithToken(session, t) ==
  [u \in Unexpired \cup {t} |->
     IF u = t THEN [session |-> session, expiresAt |-> now + TokenTTL]
              ELSE tokens[u]]

\* Expired tokens are pruned; a session that holds one gets it back.
issue(session, t) ==
  \/ /\ t \in Held(session)
     /\ tokens' = Pruned
  \/ /\ Held(session) = {}
     /\ t \notin DOMAIN given
     /\ tokens' = WithToken(session, t)

HandOut(session, t) ==
  /\ issue(session, t)
  /\ given' = [u \in DOMAIN given \cup {t} |->
                 IF u = t THEN session ELSE given[u]]
  /\ UNCHANGED now

\* resolve(): what an unexpired token stands for; an expired one is dropped.
StandsFor(t, session) == t \in Unexpired /\ tokens[t].session = session

DropExpired(t) ==
  /\ t \in DOMAIN tokens
  /\ Expired(t)
  /\ tokens' = Restrict(tokens, DOMAIN tokens \ {t})
  /\ UNCHANGED <<given, now>>

Tick ==
  /\ now < MaxTime
  /\ now' = now + 1
  /\ UNCHANGED <<tokens, given>>

Init ==
  /\ tokens = [t \in {} |-> HostSession]
  /\ given = [t \in {} |-> HostSession]
  /\ now = 0

\* The tokens are in memory, like the sessions.
Restart ==
  /\ tokens' = [t \in {} |-> HostSession]
  /\ UNCHANGED <<given, now>>
=============================================================================
