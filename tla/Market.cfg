SPECIFICATION MCSpec
CONSTANTS
  u1 = u1
  u2 = u2
  p1 = p1
  p2 = p2
  p3 = p3
  i1 = i1
  i2 = i2
  s1 = s1
  s2 = s2
  Players = {u1, u2}
  Plants = {p1, p2, p3}
  Items = {i1, i2}
  Slots = {s1, s2}
  SlotOf <- MCSlotOf
  Price = 2
  Commission = 1
  Amounts = {2}
  Nobody = Nobody
  Gone = Gone
  MaxSets = 2
  MaxListings = 2
  MaxRows = 3
  MaxRequests = 1
SYMMETRY Twins
INVARIANTS
  OnSaleByItsOwner
  FittingRoomIsConsistent
  RewardedOnce
  CoinsAreAccountedFor
CHECK_DEADLOCK FALSE
