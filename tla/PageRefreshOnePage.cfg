\* One page, clicked on while it is refreshed: columns, orders and snapshots of several sizes.
CONSTANTS
  Pages = {p1}
  NoPage = NoPage
  Responsive = {p1}
  Tasks = {t1, t2}
  NoTask = NoTask
  Columns = {CreationDate, Name}
  CreationDate = CreationDate
  NoColumn = NoColumn
  Unread = Unread
  Clicked = {CreationDate, Name}
  RowCounts = {0, 2}
  MaxVersion = 3
  Name = Name
  p1 = p1
  t1 = t1
  t2 = t2
SPECIFICATION Spec
SYMMETRY Symmetry
INVARIANTS
  IInv
PROPERTIES
  ImplementsPageView
  DataNeverGoesBack
  AbortsOnlyWhileClosing
