CONSTANTS
  Goods = {g1}
  Turns = {t1}
  NoRow = NoRow
  MaxChanges = 1
  StaleDays = 2
  ReadableDays = 1
  LastDay = 3
CHECK_DEADLOCK FALSE
SPECIFICATION CatalogSpec
INVARIANT
  OffersAreRecent
