SPECIFICATION BoardSpec
CONSTANTS
  desk = desk
  tablet = tablet
  Browsers <- MCBrowsers
  FirstColumns = 2
  FirstCards = 2
  MaxColumns = 3
  MaxCards = 3
  MaxActs = 3
  MaxLost = 1
SYMMETRY MCSymmetry
INVARIANTS ShownIsStored NoCardVanishes
CHECK_DEADLOCK FALSE
