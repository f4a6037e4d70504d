SPECIFICATION Spec
CONSTANTS
  Serial = {s1, s2}
  Variant = {v1, v2}
  Owner = {o1, o2}
  Maker = Maker
  NoRecord = NoRecord
  Task = {t1, t2}
  MaxEvents = 3
SYMMETRY RegistrySymmetry
INVARIANTS RecordsAccounted EntriesAreSound IndexesAgree
