\* Four threads: an upgrade waits behind one reader while two more threads queue
\* behind both.
CONSTANTS
  Thread = {t1, t2, t3, t4}
  NoThread = NoThread
  MaxDepth = 2
SPECIFICATION FairSpec
INVARIANTS TypeOK MutualExclusion CountsMatchHolds NoLostWakeup HolderQueuesOnlyToUpgrade
PROPERTIES NoOvertaking StarvationFree
