CONSTANTS
  ann = ann  root = root  key = key  None = None
  Users <- MCUsers
  Role <- MCRole
  Sessions <- MCSessions
  Keys = {key}
  AllKinds = all
  Kinds = {all, optimize}
  Total <- MCTotal
  PageSizes = {1, 2}
  DefaultLimit = 1
  EnteredSet <- MCEntered
  WhileLate = {"home", "login", "usage"}
  MaxRetry = 1
  MaxTests = 2

SPECIFICATION FairSpec
INVARIANT TypeOK
INVARIANT CurrentIsAsked
INVARIANT OneSubmission
INVARIANT SentInRange
INVARIANT ConfirmedOnly
PROPERTY PageInRange
PROPERTY QuerySettles
PROPERTY BusySettles
PROPERTY TestsSettle
PROPERTY GuardSettles
PROPERTY CallbackSettles
