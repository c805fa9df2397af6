SPECIFICATION Spec
CONSTANTS
  Scenarios = {"editor", "table", "list", "mirrors", "tabs", "follow", "scroll", "ink", "windows"}
  d1 = d1
  d2 = d2
  d3 = d3
  ListDocuments = {d1, d2}
  ListEdits = 2
  ListQueue = 2
  MirrorDocuments = {d1}
  MirrorEdits = 2
  MirrorQueue = 2
  MirrorRuns = 2
  TabDocs = {d1, d2, d3}
  TabMoves = 4
  Others = {m1}
  FollowDocs = {d1, d2}
  FollowEvents = 3
  FollowActs = 3
  InkBlocks = {b1, b2}
  MaxPoints = 3
  MaxSegments = 2
  MarkCap = 1
  InkActs = 7
  InkFeed = 2
  Refs = {d1, d2}
  MaxViews = 2
  Viewports <- Sizes
  Content <- Measured
  Drags <- Pulls
  WindowActs = 4
  EditorIds = 4
  EditorLen = 2
  MaxDepth = 1
  MaxUndo = 2
  EditorLocal = 2
  EditorPeer = 2
  EditorDone = 3
  TableIds = 4
  TableLen = 2
  TableLocal = 2
  TablePeer = 3
  TableDone = 3
  ScrollBlocks = {d1, d2, d3}
  Opening <- Start
  Heights <- Layouts
  Views <- Scrollers
  Gap = 1
  RATIO_STEPS = 2
  ScrollEdits = 1
  ScrollActs = 5
INVARIANTS
  ShowsTheDocument
  OpeningIsNotUndone
  ViewsCatchUp
  FollowsAsChosen
  FollowerSeesTheInk
  WindowsReachable
PROPERTIES
  CompositionKeepsPeers
  TextIsKept
  CloseMovesOn
CHECK_DEADLOCK FALSE
