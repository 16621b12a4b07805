SPECIFICATION FairSpec
CONSTANTS
  Worker = worker
  gui = gui
  con = con
  Threads = {worker, gui, con}
  t1 = t1
  t2 = t2
  Tasks = {t1, t2}
  f1 = f1
  f2 = f2
  Funcs = {f1, f2}
  NoTask = NoTask
  NoFunc = NoFunc
  Sites <- AllSites
  Exiters = {worker, con}
INVARIANTS CoreInv
PROPERTIES ImplementsService PostedIsCalled ExitEndsLoop
