\* A server of two threads, a process of one, and a native locker.
CONSTANTS
  serve = serve
  cli = cli
  t1 = t1
  Thread = {t1, t2}
  NoThread = NoThread
  Proc = {serve, cli}
  ThreadsOf <- ServeAndCli
  Native = {n1}
  MaxDepth = 2
  Crashes = TRUE
SPECIFICATION Spec
INVARIANTS TypeOK WriterExclusion ReadWriteExclusion RegistryMatchesHolds
