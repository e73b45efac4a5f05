SPECIFICATION FairSpec
CONSTANTS
  a = a  b = b  c1 = c1  c2 = c2
  Items = {a, b}
  Removable = {a, b}
  Running = {}
  Transients = {a}
  Contexts = {c1, c2}
  Launchers = {c2}
  Empty = {}
  NoItem = NoItem  NoData = NoData  NoDrag = NoDrag  Gap = Gap  Outside = Outside
  MaxHandlers = 2  MaxIdles = 2  MaxReplies = 2
INVARIANTS DragForgotten OwnData
PROPERTIES ThrownOutside EventuallyEnabled
