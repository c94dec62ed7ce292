SPECIFICATION Spec
CONSTANTS
  r1 = r1  r2 = r2
  m1 = m1  m2 = m2  m3 = m3  mx = mx
  p1 = p1  p2 = p2  px = px
  Requests = {r1, r2}
  Provider = {p1, p2, px}
  Registry = {p1, p2}
  Model <- MCModel
  Chain <- MCChain
  ReqModels <- MCReqModels
  Routes <- MCRoutes
  RetryMax = 1
  Threshold = 2
  Cooldown = 1
  MaxTime = 2
  Answers = {"ok", "status4xx", "malformed", "canceled"}
INVARIANT ChainTried
