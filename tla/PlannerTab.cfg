SPECIFICATION MCSpec
CONSTANTS
  a = a
  b = b
  aL1 = aL1
  aL2 = aL2
  aR1 = aR1
  bL1 = bL1
  Codes = {a, b}
  Sections = {aL1, aL2, aR1, bL1}
  Offered <- MCOffered
  SectionType <- MCType
  MaxPlans = 3
  InitDatabase <- TwoPlans
  LossyKinds = {"select"}
  Mixes <- MCMixes
  MaxOps = 3
  Catalog <- MCCatalog
  Queries <- MCQueries
  Pages <- MCPages
CHECK_DEADLOCK FALSE
INVARIANTS
   ClashesAgree WeekIsTrue ResultsAreOneSearch
PROPERTIES
    SelectionIsRepaired LoadingEnds
