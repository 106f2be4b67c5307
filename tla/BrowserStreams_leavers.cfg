SPECIFICATION Spec
CONSTANTS
  Kinds = {"console"}
  Sizes = {1}
  MaxQueue = 1
  MaxFrames = 1
INVARIANT
  LeaversAreReleased
CHECK_DEADLOCK FALSE
