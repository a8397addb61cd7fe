SPECIFICATION Spec
INVARIANT AllRendered
CONSTANTS
  MAX_RENDER_CBS = 3
  Callbacks = {cb1, cb2}
  NoCallback = NoCallback
