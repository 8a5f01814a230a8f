SPECIFICATION FairBodySpec
CONSTANTS
  context = context
  handler = handler
  failure = failure
  Nobody = Nobody
  Objects = {context, handler, failure}
  Outer = context
  Lengths = {0, 1, 2}
  MaxOps = 3
INVARIANTS NothingLost OneBody
PROPERTIES Answered
CHECK_DEADLOCK FALSE
