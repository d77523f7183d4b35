\* Two pages share the GUI thread from the start of the program to its end: their timers, tasks and
\* repaints interleave.  (Responsive has a part in fairness only, so that the pages are alike here.)
CONSTANTS
  Pages = {p1, p2}
  NoPage = NoPage
  Responsive = {p1, p2}
  Tasks = {t1, t2}
  NoTask = NoTask
  Columns = {CreationDate}
  CreationDate = CreationDate
  NoColumn = NoColumn
  Unread = Unread
  Clicked = {CreationDate}
  RowCounts = {2}
  MaxVersion = 1
  p1 = p1
  p2 = p2
  t1 = t1
  t2 = t2
SPECIFICATION Spec
SYMMETRY Symmetry
INVARIANTS
  TypeOK
  OneUpdatePerTable
  TableOutlivesItsTask
  TimerRunsWhileOpen
  StaleScreenWillBeDrawn
