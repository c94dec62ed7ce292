SPECIFICATION Spec
CONSTANTS
  s1 = s1  s2 = s2  s3 = s3  s4 = s4
  m1 = m1  m2 = m2  m3 = m3  mx = mx
  p1 = p1  px = px
  Streams = {s1}
  Provider = {p1, px}
  Registry = {p1}
  Model <- MCModel
  ReqModel <- MCReqModel
  Routes <- MCRoutes
  Threshold = 2
  Cooldown = 1
  MaxChunks = 1
  MaxTime = 1
INVARIANT UpstreamErrorReported
