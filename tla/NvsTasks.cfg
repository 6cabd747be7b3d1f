\* Two tasks with an object each, on the same storages and tag, with every
\* failure that decides an answer, and restarts.
SPECIFICATION Spec
CONSTANTS
  Absent = Absent
  NoCall = NoCall
  Tasks = {t1, t2}
  ObjectOf <- EachItsOwn
  Storages = {wifi, user}
  Tags = {tag}
  Numbers = {7}
  Sizes = {1, 2}
  Faults = {"open", "commit", "get", "reset"}
  MaxCalls = 3
INVARIANTS
  TypeOK
  HandlesBelong
PROPERTIES
  OnlyOwnKeys
  TrueMeansDurable
SYMMETRY TaskSymmetry
