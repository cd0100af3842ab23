SPECIFICATION Spec
CONSTANTS
  i1 = i1
  d2 = d2
  d1 = d1
  x1 = x1
  Timer = Timer
  Called = Called
  None = None
  Torn = Torn
  Invoices <- MCInvoices
  Days <- MCDays
  Rows <- MCRows
  Items <- MCItems
  MaxChanges = 3
  MaxFaults = 2
INVARIANTS RefusedSheetWaits
PROPERTIES NewestIsCaptured PaperFollowsBus SpoolDrains
CHECK_DEADLOCK FALSE
