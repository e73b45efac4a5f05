SPECIFICATION Spec
CONSTANTS
  a = a  b = b  c1 = c1  c2 = c2
  Items = {a, b}
  Removable = {a, b}
  Running = {}
  Transients = {a}
  Contexts = {c1}
  Launchers = {}
  Empty = {}
  NoItem = NoItem  NoData = NoData  NoDrag = NoDrag  Gap = Gap  Outside = Outside
  MaxHandlers = 2  MaxIdles = 1  MaxReplies = 2
PROPERTIES ActiveWhileOver
