\* The GUI thread and two tasks: one initializes security, one waits, one comes late.
CONSTANTS
  Threads = {gui, t1, t2}
  Gui = gui
  Nobody = Nobody
  gui = gui
  t1 = t1
  t2 = t2
SPECIFICATION Spec
INVARIANTS
  TypeOK
  SecuredBeforeUse
  OnlyGuiSecures
  ComIsBalanced
  GuiReleasesInTime
  SessionInv
