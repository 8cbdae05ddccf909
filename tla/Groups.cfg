SPECIFICATION Spec
CONSTANTS
  r1 = r1
  r2 = r2
  e1 = e1
  e2 = e2
  g1 = g1
  g2 = g2
  u1 = u1
  u2 = u2
  Replicas = {r1, r2}
  Emails = {e1, e2}
  Groups = {g1, g2}
  Urls = {u1, u2}
  Grants <- MCGrants
  TargetData <- MCTargetData
  MaxRequests = 3
SYMMETRY Symmetry
INVARIANT TypeOK DecisionsFollowStore AnswersAgree
PROPERTY MembershipGuarded NoGhostMembers
CHECK_DEADLOCK FALSE
