SPECIFICATION Spec
CONSTANTS
  u1 = u1
  u2 = u2
  r1 = r1
  r2 = r2
  r3 = r3
  r4 = r4
  None = None
  Users <- MCUsers
  Requests <- MCRequests
  AdminEmails <- MCAdmins
SYMMETRY Symmetry
INVARIANTS
  ExistingKeyReturned
CHECK_DEADLOCK FALSE
