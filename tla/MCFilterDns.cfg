SPECIFICATION FairAll
CONSTANTS
  a1 = a1  a2 = a2  h1 = h1  h2 = h2  t1 = t1  t2 = t2  x = x  y = y
  Actions = {a1, a2}
  Hosts = {h1}
  HostOf <- MCHostOf
  MaxPosts = 1
  MaxSignals = 2
  Rules = {a1, a2}
  NoTable = NoTable
  Names = {h1, h2}
  Tables = {t1, t2}
  Addrs = {x, y}
  Configs <- MCConfigs
  MaxChanges = 2
  MaxFaults = 1
INVARIANTS ThreadsRight TableExact
PROPERTIES ThreadsProgress Converges
CHECK_DEADLOCK FALSE
