SPECIFICATION Spec
CONSTANTS
  Nicknames = {ann, bob, cai}
  MemberIds = {m1, m2, m3}
  SessionIds = {s1, s2, s3, s4}
  MaxMembers = 2
  NumColors = 2
  MaxFaults = 1
  Names = {"team"}
  Passwords = {"p1", "p2"}
  DefaultName <- Default
  NotSetUp = NotSetUp
  EnvSeed <- PasswordOnly
  Requests = {r1, r2}
  NoJoin = NoJoin
SYMMETRY Symmetry
INVARIANTS
  MapsAgree
  MembersAreDurable
  ColorsApart
PROPERTIES
  SameMember
  SessionsEndForAReason
  PasswordKept
CHECK_DEADLOCK FALSE
