CONSTANTS
  Configs <- MCConfigs
  Payloads <- MCPayloads
SPECIFICATION Spec
INVARIANTS
  DashboardShowsRouting
  SetToWorkByOthers
  OneAddressee
  ReviewsReachReviewer
