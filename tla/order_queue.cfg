SPECIFICATION FairSpec
CONSTANTS
  h1 = h1
  h2 = h2
  h3 = h3
  Handler = {h1, h2, h3}
  Admin = Admin
  Nobody = Nobody
  Calls <- TwoOneOne
  MaxSpurious = 2
INVARIANTS
  NothingLost
  NoLostWakeup
PROPERTIES
  ImplementsOrderService
