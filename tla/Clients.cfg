SPECIFICATION Spec
CONSTANTS
  Scenarios = {"pool", "chat", "presence", "startup", "versions"}
  Keys = {doc, other}
  Runs = {r1, r2, r3}
  Attachments = {a1, a2, a3}
  Sends = {k1}
  MaxMessages = 3
  MaxFaults = 2
  Pages = {d1, d2}
  MaxMounts = 3
  MaxMoves = 3
  Attempts = 3
  MaxStarts = 3
  MaxFailures = 4
  PageSize = 1
  MaxRevisions = 2
  MaxChanges = 2
  MaxLoads = 1
INVARIANTS
  CountsSharers
  ShowsEveryMessage
  StoresOnce
  ServesGuarded
PROPERTIES
  KeepsClientRules
  NothingLeaks
  Recovers
  RosterSettles
  RestoreLeavesATrace
CHECK_DEADLOCK FALSE
