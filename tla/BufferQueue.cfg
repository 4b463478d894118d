SPECIFICATION Spec
CONSTANTS
  t1 = t1
  t2 = t2
  Threads = {t1, t2}
  NoThread = NoThread
  Size <- MCSize
  Elements <- MCElements
INVARIANT Consistent
PROPERTY ImplementsFifo
