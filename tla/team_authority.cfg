SPECIFICATION Spec
CONSTANTS
  u1 = u1
  u2 = u2
  u3 = u3
  e1 = e1
  e2 = e2
  i1 = i1
  i2 = i2
  r1 = r1
  r2 = r2
  Users = {u1, u2}
  Emails = {e1, e2}
  EmailOf <- TwoPeople
  Founder = u1
  Payloads <- OneField
  Invitations = {i1}
  Requests = {r1, r2}
SYMMETRY TeamSymmetry
PROPERTIES
  AuthorityConserved
  LastOwnerGoesInARace
CHECK_DEADLOCK FALSE
