SPECIFICATION FairSpec
CONSTANTS
  NumCustomers = 1
  NumClerks = 1
  Lines <- OneEconomy
  Spurious = {}
PROPERTY JobsGetDone
CHECK_DEADLOCK FALSE
