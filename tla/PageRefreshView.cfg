\* Every host answers: the window keeps all of PageView's promise.
CONSTANTS
  Pages = {p1, p2}
  NoPage = NoPage
  Responsive = {p1, p2}
  Tasks = {t1, t2}
  NoTask = NoTask
  Columns = {CreationDate}
  CreationDate = CreationDate
  NoColumn = NoColumn
  Unread = Unread
  Clicked = {}
  RowCounts = {1}
  MaxVersion = 0
  p1 = p1
  p2 = p2
  t1 = t1
  t2 = t2
SPECIFICATION FairSpec
PROPERTIES
  ImplementsFairPageView
