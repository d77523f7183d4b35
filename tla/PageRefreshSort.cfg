\* A responsive host, and a user who clicks on column labels.
CONSTANTS
  Pages = {p1}
  NoPage = NoPage
  Responsive = {p1}
  Tasks = {t1}
  NoTask = NoTask
  Columns = {CreationDate, Name}
  CreationDate = CreationDate
  NoColumn = NoColumn
  Unread = Unread
  Clicked = {CreationDate, Name}
  RowCounts = {1}
  MaxVersion = 2
  Name = Name
  p1 = p1
  t1 = t1
SPECIFICATION FairSpec
PROPERTIES
  SortEventuallyHonoured
  ScreenCatchesUp
