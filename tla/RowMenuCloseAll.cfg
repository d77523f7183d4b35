\* One process with the name that is chosen is enough.
CONSTANTS
  Pids = {pid1, pid2}
  Names = {name1, name2}
  NoName = NoName
  NoPid = NoPid
  NoProcess = NoProcess
  MaxStarts = 2
  pid1 = pid1
  pid2 = pid2
  name1 = name1
  name2 = name2
SPECIFICATION Spec
PROPERTY CloseAllCloses
