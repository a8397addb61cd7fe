SPECIFICATION FairSpec
INVARIANT TypeOK
INVARIANT HeldOnce
INVARIANT HeldAgrees
PROPERTY KeySetIsSet
PROPERTY EscapeStays
PROPERTY EscapeEnds
CONSTANTS
  POLYPHONY = 2
  Keys = {a, b, c, esc}
  SDLK_ESCAPE = esc
  NoKey = NoKey
  QueueMax = 2
  BLOCKS = 1
CHECK_DEADLOCK FALSE
