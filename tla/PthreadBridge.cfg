SPECIFICATION FairSpec
CONSTANTS
  t1 = t1
  t2 = t2
  o1 = o1
  a = a
  b = b
  Threads <- TwoThreads
  Mutexes <- TwoMutexes
  Onces <- OneOnce
  Objects <- TwoObjects
  Zero = Zero
  Magic = Magic
  NoThread = NoThread
  NoOne = NoOne
  MaxDepth = 2
INVARIANTS
  UsesTheLiveObject
  NothingLeaks
PROPERTIES
  ActsLikeBionic
  CallsReturn
