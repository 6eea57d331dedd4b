SPECIFICATION Spec
CONSTANTS
  Tasks = {t1, t2, t3}
  IPs = {a1}
  RpsChoices = {0, 1, 3}
  BurstChoices = {0, 1, 2}
  TPS = 2
  MaxNow = 3
INVARIANT TypeOK
INVARIANT WindowRate
INVARIANT NothingLost
SYMMETRY Symmetry
