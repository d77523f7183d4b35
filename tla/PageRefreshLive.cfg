\* The host of p1 answers, the host of p2 need not.
CONSTANTS
  Pages = {p1, p2}
  NoPage = NoPage
  Responsive = {p1}
  Tasks = {t1, t2}
  NoTask = NoTask
  Columns = {CreationDate}
  CreationDate = CreationDate
  NoColumn = NoColumn
  Unread = Unread
  Clicked = {}
  RowCounts = {1}
  MaxVersion = 0
  p1 = p1
  p2 = p2
  t1 = t1
  t2 = t2
SPECIFICATION FairSpec
PROPERTIES
  KeepsRefreshing
  WindowOpens
  ErrorReachesUser
  CloseTerminates
