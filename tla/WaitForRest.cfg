SPECIFICATION FairSpec
CONSTANTS
  t0 = t0
  t1 = t1
  t2 = t2
  t3 = t3
  t4 = t4
  t5 = t5
  t6 = t6
  Threads <- RestThreads
  Arrivers <- RestArrivers
  Special = t6
  FuncResets = FALSE
PROPERTIES EverybodyLeaves
