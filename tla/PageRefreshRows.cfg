\* A host on which processes start and end while its page is open.
CONSTANTS
  Pages = {p1}
  NoPage = NoPage
  Responsive = {p1}
  Tasks = {t1}
  NoTask = NoTask
  Columns = {CreationDate}
  CreationDate = CreationDate
  NoColumn = NoColumn
  Unread = Unread
  Clicked = {CreationDate}
  RowCounts = {1, 2}
  MaxVersion = 1
  p1 = p1
  t1 = t1
SPECIFICATION Spec
INVARIANT EveryProcessHasARow
