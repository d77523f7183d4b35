\* Two ids for three processes: an id is given away while the menu is open.
CONSTANTS
  Pids = {pid1, pid2}
  Names = {name1, name2}
  NoName = NoName
  NoPid = NoPid
  NoProcess = NoProcess
  MaxStarts = 3
  pid1 = pid1
  pid2 = pid2
  name1 = name1
  name2 = name2
SPECIFICATION Spec
INVARIANTS
  TypeOK
  EndsWhatTheMenuNamed
  MenuInv
