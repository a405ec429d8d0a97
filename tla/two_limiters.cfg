SPECIFICATION Spec
CONSTANTS
  t1 = t1
  t2 = t2
  k1 = k1
  Threads <- MCThreads
  Customers <- MCCustomers
  PerMinute <- MCPerMinute
  Default = 2
  Minute = 3
  MaxClock = 4
SYMMETRY Symmetry
INVARIANTS
  OneBucketPerCustomer
