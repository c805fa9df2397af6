SPECIFICATION Spec
CONSTANTS
  Nicknames = {ann, bob}
  MemberIds = {m1, m2}
  SessionIds = {s1, s2, s3}
  MaxMembers = 2
  NumColors = 1
  MaxFaults = 1
  Sockets = {k1, k2}
  NoSession = NoSession
  Tokens = {t1, t2}
  HostSession = HostSession
  TokenTTL = 1
  MaxTime = 2
SYMMETRY Symmetry
INVARIANTS
  NoRevokedSocket
PROPERTIES
  GivenTokenWorks
  RefusedForGood
CHECK_DEADLOCK FALSE
