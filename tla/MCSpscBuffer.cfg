CONSTANTS
 Width=2
 Size=4
 Values=6
 Junk=Junk
SPECIFICATION RingSpec
INVARIANT ReadsInOrder
CHECK_DEADLOCK FALSE
