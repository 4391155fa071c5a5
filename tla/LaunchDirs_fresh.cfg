\* Fresh process ids, Chromes that outlive their servers.  The ids run out in
\* the end, so the system may stop.
CONSTANTS
  s1 = s1
  s2 = s2
  m1 = m1
  m2 = m2
  m3 = m3
  Servers = {s1, s2}
  Managers = {m1, m2, m3}
  Home <- Homes
  Pids = {1, 2, 3}
  Recycled = FALSE
  Orphans = TRUE
  MaxLaunches = 2
SPECIFICATION Spec
INVARIANTS
  IInv
  NoCollision
PROPERTIES
  DirUnique
CHECK_DEADLOCK FALSE
