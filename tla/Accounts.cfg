SPECIFICATION Spec
CONSTANTS
  r1 = r1
  r2 = r2
  e1 = e1
  e2 = e2
  p1 = p1
  p2 = p2
  Replicas = {r1, r2}
  Emails = {e1, e2}
  Passwords = {p1, p2}
  MaxRequests = 2
  MaxFaults = 1
SYMMETRY Symmetry
INVARIANT TypeOK TokensStayValid
PROPERTY AdminFieldsGuarded DeletionLeavesAdmin
CHECK_DEADLOCK FALSE
