CONSTANTS
  own = own
  a = a
  Offers <- SomeOffers
  Hops <- TwoHops
  Parents <- NewParent
  Local = own
  SIZE = 3
  QUOTA = 2
  FRAME = 7
  Ends = {3, 6, 7}
  ATTEMPTS = 1
  NoOrigin = NoOrigin
SPECIFICATION Spec
INVARIANTS
  TypeOK
  IndexExact
  QuotaBound
PROPERTIES
  Custody
  EvictionFair
  NoOvertaking
  EqualShare
