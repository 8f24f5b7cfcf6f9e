CONSTANTS
  c1 = c1
  c2 = c2
  w1 = w1
  w2 = w2
  w3 = w3
  Calls <- CallsV
  Workers <- WorkersV
  Restarters = {user}
  Watchdog = watchdog
  Nobody = nobody
SPECIFICATION Spec
INVARIANT OneWorker
