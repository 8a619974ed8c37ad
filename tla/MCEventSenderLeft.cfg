\* The index base leaves while events go on happening
CONSTANTS
  Wds = {1}
  MaxEvents = 3
SPECIFICATION Spec
INVARIANT Remembered
CHECK_DEADLOCK FALSE
