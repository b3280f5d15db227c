SPECIFICATION Spec
CONSTANTS
  NumCustomers = 1
  NumClerks = 2
  Lines <- OneEconomy
  Spurious = {}
INVARIANT ClerkAwaitsCustomer
CHECK_DEADLOCK FALSE
