SPECIFICATION FairSpec
CONSTANTS
  Conns = {c1, c2}
  NoConn = NoConn
  Sizes = {1, 2, 4}
  MaxFrames = 2
  MaxBytes = 3
  SubscriberQueue = 1
  MaxSubscribers = 1
  MaxAttempts = 2
  MaxSkip = 1
  MaxSequence = 3
INVARIANTS NoSilentSkip
PROPERTIES ClientEnds ImplementsFeed
