SPECIFICATION FairSpec
CONSTANTS
  NumCustomers = 3
  NumClerks = 2
  Lines <- TwoEconomyOneBusiness
  Spurious = {"request"}
INVARIANTS
  TypeOK
  HeadExists
  CountsAgree
  AllJobsDone
  ClerkExclusive
  EconomyHasClerk
  CallIInv
PROPERTIES
  ImplementsFrontDesk
  CalledHeadLeaves
CHECK_DEADLOCK FALSE
