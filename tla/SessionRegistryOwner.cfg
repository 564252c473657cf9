SPECIFICATION RegistrySpec
CONSTANTS
  u1 = u1
  s1 = s1
  n1 = n1
  e1 = e1
  r1 = r1
  r2 = r2
  Owners = {u1}
  Strategies = {s1}
  Slots = {n1}
  EntryIds = {e1}
  Requests = {r1, r2}
  SessionCap = 1
INVARIANTS
  WithdrawnIsSilent
CHECK_DEADLOCK FALSE
