SPECIFICATION BoundedSpec
CONSTANTS
  k1 = k1  p1 = p1  r1 = r1
  None = None
  Nothing = Nothing
  Key = {k1, k2}
  Run = {x1, x2}
  Owner = {w1}
  Pull = {p1}
  Repo = {r1}
  PullOf <- MCPullOf
  RepoOf <- MCRepoOf
  Event <- MCEvent
  Handler = {h1}
  MaxPushes = 1
  MaxFaults = 3
  MaxReruns = 1
INVARIANTS RepairRestores CompletedReviewIsCurrent OneReviewPerAttempt ModelHasNoToken CleanExit
PROPERTIES PortKeepsLedger NoRunIsForgotten
CHECK_DEADLOCK FALSE
