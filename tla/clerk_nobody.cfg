SPECIFICATION Spec
CONSTANTS
  NumCustomers = 2
  NumClerks = 2
  Lines <- TwoBusiness
  Spurious = {}
INVARIANT CustomerKnowsClerk
CHECK_DEADLOCK FALSE
