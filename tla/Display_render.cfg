SPECIFICATION FairSpec
INVARIANT TypeOK
INVARIANT RenderSurvives
INVARIANT NewestIsFirst
PROPERTY OneIsRendered
PROPERTY FrameEnds
CONSTANTS
  MAX_RENDER_CBS = 3
  Callbacks = {cb1, cb2}
  NoCallback = NoCallback
