SPECIFICATION Spec
CONSTANTS
  Tasks = {main, other}
  Main = main
  Handled <- DefaultHandled
  Closing <- DefaultClosing
  HookKinds <- DefaultHookKinds
  MaxInbox = 1
  MaxWire = 3
  MaxCleanups = 2
INVARIANTS OwnOrder LayersLast CleanupInOrder Answered
CHECK_DEADLOCK FALSE
