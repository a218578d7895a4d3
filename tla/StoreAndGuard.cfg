SPECIFICATION BothSpec
CONSTANTS
  Namespaces = {"a", "b"}
  Histories = {"new", "better"}
  Hashes = {"m1", "m2"}
  Nodes = {"leaf", "top", "note"}
  Messages <- MCMessages
  SeqBase <- MCSeqBase
  NodesOf <- MCNodesOf
  Sources <- MCSources
  Children <- MCChildren
  CandidateOf <- MCCandidateOf
  Archives <- MCArchives
  Views <- MCViews
  MaxFaults = 2
  None = None
  c1 = c1
  c2 = c2
  c3 = c3
  Calls = {c1, c2, c3}
  Input <- MCInput
  Reads = {c3}
  Risky = {"waived"}
  Waived = {"waived"}
  Redacted <- MCRedacted
  FirewallDenies = {"plain"}
  Adapters = TRUE
  Expires = 1
  MaxTime = 1
  MaxGens = 2
  MaxPending = 2
  Nothing = Nothing
SYMMETRY Symmetry
CHECK_DEADLOCK FALSE
INVARIANTS
  SearchIsOwned
  Backed
  FailClosed
  ShowsOwnRedacted
  PendingIsPumped
PROPERTIES
  HealCompletes
  HealConverges
