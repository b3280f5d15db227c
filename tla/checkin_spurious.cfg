SPECIFICATION ListSpec
CONSTANTS
  NumCustomers = 4
  NumClerks = 1
  Lines <- ShortLines
  Spurious = {"request", "queue", "clerk"}
INVARIANTS
  HeadExists
  CountsAgree
  AllJobsDone
  QueuesAreLinked
CHECK_DEADLOCK FALSE
