SPECIFICATION FairApiSpec
INVARIANT TypeOK
INVARIANT ListsDescend
PROPERTY CursorDescends
PROPERTY InputsArrive
PROPERTY DispatchEnds
PROPERTY QuitDispatched
CONSTANTS
  SDL_EVENT_USER = 32768
  SDL_EVENT_LAST = 65535
  Codes = {1}
  SUB_MAX = 2
  Ids = {1, 2, 3}
  cb1 = cb1
  cb2 = cb2
  NullCallback = NullCallback
  Callbacks = {cb1, NullCallback}
  SubTopics <- MCTopics
  Inputs <- MCInputs
  RandCollides = TRUE
  MaxSubs = 3
  QueueMax = 2
  CommandsBefore = 4680
  MaxRegistered = 32774
