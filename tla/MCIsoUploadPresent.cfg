CONSTANTS
  r1 = r1  r2 = r2  r3 = r3
  c1 = c1  c2 = c2
  p1 = p1  p2 = p2
  NoReq = NoReq
  Reqs = {r1, r2, r3}
  Clients = {c1}
  Paths = {p1}
  ClientOf <- SameClient
  PathOf <- SamePath
  MaxAttempts = 2
  MaxFaults = 0
SPECIFICATION Spec
INVARIANT PresentMeansFinished
