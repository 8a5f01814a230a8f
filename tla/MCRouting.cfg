SPECIFICATION Spec
CONSTANTS
  Trees <- MCTrees
  MaxMessages = 2
INVARIANTS
  OneAnswer
  NoRouteSkipped
  MessagesRepeated
PROPERTY NoDispatchAfterAnswer
