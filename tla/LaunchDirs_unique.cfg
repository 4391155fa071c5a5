\* Process ids are given away again: the directories are not unique.
CONSTANTS
  s1 = s1
  s2 = s2
  m1 = m1
  m2 = m2
  m3 = m3
  Servers = {s1, s2}
  Managers = {m1, m2, m3}
  Home <- Homes
  Pids = {1, 2}
  Recycled = TRUE
  Orphans = FALSE
  MaxLaunches = 2
SPECIFICATION Spec
PROPERTIES
  DirUnique
