\* One task, and a library that cannot set a value: no space is left.
SPECIFICATION Spec
CONSTANTS
  Absent = Absent
  NoCall = NoCall
  Tasks = {t1}
  ObjectOf <- EachItsOwn
  Storages = {wifi}
  Tags = {tag}
  Numbers = {7}
  Sizes = {1}
  Faults = {"set"}
  MaxCalls = 2
PROPERTIES
  TrueMeansDurable
