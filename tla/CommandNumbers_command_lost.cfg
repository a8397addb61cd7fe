SPECIFICATION Spec
INVARIANT CommandComesBack
CONSTANTS
  SDL_EVENT_USER = 32768
  SDL_EVENT_LAST = 65535
  Codes = {1, 6}
  MaxRegistered = 32790
CHECK_DEADLOCK FALSE
