SPECIFICATION ApiSpec
PROPERTY NullSkipped
CONSTANTS
  SDL_EVENT_USER = 32768
  SDL_EVENT_LAST = 65535
  Codes = {}
  SUB_MAX = 2
  Ids = {1, 2, 3}
  cb1 = cb1
  cb2 = cb2
  NullCallback = NullCallback
  Callbacks = {cb1, NullCallback}
  SubTopics <- MCTopics
  Inputs <- MCInputs
  RandCollides = FALSE
  MaxSubs = 2
  QueueMax = 1
  CommandsBefore = 0
  MaxRegistered = 0
