CONSTANTS
  ann = ann  bob = bob  k1 = k1  k2 = k2  None = None
  Users <- MCUsers
  Owner <- MCOwner
  Tokens = {k1, k2}
  Hooks = {h1}
  Slots = 2
SPECIFICATION Spec
INVARIANT HeaderShowsEmail
