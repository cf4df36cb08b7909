\* Acquisitions that time out or succeed while nobody need release.
CONSTANTS
  serve = serve
  cli = cli
  t1 = t1
  Thread = {t1, t2}
  NoThread = NoThread
  Proc = {serve}
  ThreadsOf <- ServeAndCli
  Native = {n1}
  MaxDepth = 2
  Crashes = FALSE
SPECIFICATION FairSpec
PROPERTIES AcquireReturns UsesThreadLock
