CONSTANTS
  Ids = {v, w}
  Uuids = {vm}
  Endpoints = {old, new}
  Requests = {r, s}
  Admins = {a}
  Clients = {c1, c2, c3}
  None = None
  MaxChanges = 2
SPECIFICATION MCSpec
SYMMETRY Symmetric
INVARIANTS
  TypeOK
  DrivesWhatIsStored
  DryRunHonoured
  SessionsAccountedFor
  LocksAreOrdered
