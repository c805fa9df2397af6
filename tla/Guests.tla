-------------------------------- MODULE Guests --------------------------------
(***************************************************************************)
(* What the modules about access share: who may ask to come in, and the    *)
(* ids they may be given (lib/auth/session-registry.ts).                   *)
(***************************************************************************)
EXTENDS Naturals

CONSTANTS
  Nicknames,
  MemberIds,  \* every id randomUUID may hand out to a member
  SessionIds, \* every id randomUUID may hand out to a session
  MaxMembers, \* MAX_MEMBERS
  NumColors,  \* how many COLOR_TAGS there are
  MaxFaults   \* bound: how many faults happen

\* randomUUID does not repeat itself.
ASSUME IdsAssumption == MemberIds \cap SessionIds = {}
ASSUME ColorsAssumption == NumColors \in Nat \ {0}
=============================================================================
