SPECIFICATION FairLifespanSpec
CONSTANTS
  global_start = global_start
  global_stop = global_stop
  open = open
  start = start
  stop = stop
  close = close
  added_start = added_start
  added_stop = added_stop
  Enter = Enter
  Exit = Exit
  Globals = {global_start, global_stop}
  Own = {open, start, stop, close}
  Added = {added_start, added_stop}
  Event <- TheEvent
  MaxCycles = 2
INVARIANTS AllInOrder ClosedWhatOpened Verdicts
PROPERTIES Answered
CHECK_DEADLOCK FALSE
