SPECIFICATION ApiSpec
INVARIANT ListsExact
INVARIANT CursorOnTopic
INVARIANT SubscribedIsListed
PROPERTY BusSpec
CONSTANTS
  SDL_EVENT_USER = 32768
  SDL_EVENT_LAST = 65535
  Codes = {1}
  SUB_MAX = 3
  Ids = {1, 2, 3}
  cb1 = cb1
  cb2 = cb2
  NullCallback = NullCallback
  Callbacks = {cb1, cb2}
  SubTopics <- MCTopics
  Inputs <- MCInputs
  RandCollides = FALSE
  MaxSubs = 3
  QueueMax = 2
  CommandsBefore = 0
  MaxRegistered = 7
