SPECIFICATION HistorySpec
CONSTANTS
  k1 = k1  k2 = k2  p1 = p1  r1 = r1  r2 = r2
  d1 = d1  d2 = d2  d3 = d3  d4 = d4  d5 = d5  d6 = d6  d7 = d7  d8 = d8
  None = None
  Key = {k1, k2}
  Run = {x1}
  Owner = {}
  Pull = {p1}
  Repo = {r1, r2}
  PullOf <- MCPullOf
  RepoOf <- MCRepoOf
  Delivery = {d1, d2, d3, d4, d5, d6, d7, d8}
  EventOf <- LifeAndReviews
  Handler = {h1, h2}
  MaxHookCrashes = 1
INVARIANTS ProcessedReviewIsQueued NoStaleRights
