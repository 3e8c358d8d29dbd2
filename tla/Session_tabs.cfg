SPECIFICATION Spec
CONSTANTS
  Tabs = {t1, t2}
  a = a
  b = b
  idB = idB
  admin = admin
  a1 = a1
  a2 = a2
  b1 = b1
  s1 = s1
  None = None
  Stores <- MCStores
  IdSlots <- MCIdSlots
  Admin <- admin
  Tokens <- MCTokens
  Staff <- MCStaff
  TenantOf <- MCTenantOf
  UserOf <- MCUserOf
  IdSlot <- MCIdSlot
  Revocable <- MCRevocable
  ShortLived <- MCShortLived
  Starts <- MCStarts
  MaxLogins = 1
  MaxRequests = 1
SYMMETRY MCTabSymmetry
INVARIANTS
  SlotsKeepTheirKind
  ShopperOfThisStore
  TabsAgreeWithStorage
PROPERTIES
  SessionsEndForAReason
