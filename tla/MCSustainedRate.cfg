SPECIFICATION Spec
CONSTANTS
  Tasks = {t1, t2}
  IPs = {a1}
  RpsChoices = {1}
  BurstChoices = {1}
  TPS = 2
  MaxNow = 4
SYMMETRY Symmetry
INVARIANT SustainedRate
