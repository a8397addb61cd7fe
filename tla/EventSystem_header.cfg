SPECIFICATION Spec
INVARIANT UniqueIds
PROPERTY RemoveTakesOne
CONSTANTS
  SDL_EVENT_USER = 32768
  SDL_EVENT_LAST = 65535
  Codes = {}
  SUB_MAX = 3
  Ids = {1, 2, 3}
  cb1 = cb1
  cb2 = cb2
  NullCallback = NullCallback
  Callbacks = {cb1}
  SubTopics <- MCQuit
  Inputs <- MCNone
  RandCollides = TRUE
  MaxSubs = 4
  QueueMax = 1
  CommandsBefore = 0
  MaxRegistered = 0
CHECK_DEADLOCK FALSE
