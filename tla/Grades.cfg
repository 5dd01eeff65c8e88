SPECIFICATION MCSpec
CONSTANTS
  n1 = n1
  n2 = n2
  Regs = {1, 2}
  Names = {n1, n2}
  Setup <- MCSetup
  PageSize = 2
  InitServer <- MCServer
  Habits <- MCHabits
  Digits = {0, 5}
  MaxNumber = 50
  Scale = 100
  InitItems <- MCItems
  Others <- MCOthers
  Credits = {0, 3}
  Submits = 1
  YearList <- MCYears
  Programs <- MCPrograms
  Majors <- MCMajors
  Minors <- MCMinors
  Lines <- MCLines
  Stored <- MCStored
  MaxPicks = 2
  Runs = 2
  Reads = 2
  Typed <- MCTyped
  Terms <- MCTerms
  Hints <- MCHints
  Size = 2
  InitRows <- MCReports
  NewRows <- MCNewReports
  Changes = 2
CHECK_DEADLOCK FALSE
INVARIANTS
    NothingSpinsAlone NumbersAddUp AuditIsOfItsPicks
  ListIsItsSearch
PROPERTIES
   UntouchedSaveChangesNothing ScreensSettle
