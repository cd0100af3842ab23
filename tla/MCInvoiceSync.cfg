SPECIFICATION Spec
CONSTANTS
  i1 = i1
  i2 = i2
  timer = timer
  hand = hand
  None = None
  Invoices <- MCInvoices
  Runners <- MCRunners
  Contents <- MCContents
  MaxChanges = 3
  MaxFaults = 1
INVARIANTS BusTellsMirror ChainUnbroken DepositTriggersOnce
PROPERTIES MirrorNeverGoesBack Converges
CHECK_DEADLOCK FALSE
