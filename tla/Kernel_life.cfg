SPECIFICATION FairSpec
INVARIANT TypeOK
INVARIANT HandlesCounted
INVARIANT OnlyFailedDangle
INVARIANT StopsWhatStarted
INVARIANT QuitHeard
INVARIANT CrashNeedsGap
INVARIANT CodeInPlace
PROPERTY QuitHeeded
PROPERTY QuitEnds
CONSTANTS
  MAX_MODS = 2
  a = a
  b = b
  Libs = {a, b}
  Comment = Comment
  Broken = Broken
  NoLib = NoLib
  LoadLists <- MCLoadLists
  Topics = {COMMAND, KEY, QUIT}
  QUIT = QUIT
  COMMAND = COMMAND
  UNKNOWN = UNKNOWN
  NoTopic = NoTopic
  BLOCKS = 1
  MaxSubs = 3
  QueueMax = 2
CHECK_DEADLOCK FALSE
