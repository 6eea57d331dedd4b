SPECIFICATION Spec
CONSTANTS
  Tasks = {t1, t2}
  a1 = a1
  IPs = {a1}
  Hash <- MCHash
  N = 3
  UrlLists <- MCUrlLists
  CB_THRESHOLD = 1
  USize = 7
SYMMETRY Symmetry
INVARIANT NoneMeansAllOpen
