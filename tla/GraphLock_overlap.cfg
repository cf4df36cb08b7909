\* A server of two reader threads, and a native writer.
CONSTANTS
  serve = serve
  cli = cli
  t1 = t1
  Thread = {t1, t2}
  NoThread = NoThread
  Proc = {serve}
  ThreadsOf <- ServeAndCli
  Native = {n1}
  MaxDepth = 1
  Crashes = FALSE
SPECIFICATION Spec
INVARIANT ReadsNeverOverlapWrites
