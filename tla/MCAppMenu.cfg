SPECIFICATION Spec
CONSTANTS
  NoMenu = NoMenu
  m1 = m1
  m2 = m2
  m3 = m3
  m4 = m4
  Menus = {m1, m2, m3, m4}
  Top = Top
  FreedPositions = {0, 2}
  Programs <- AllPrograms
INVARIANT MirrorsWhenQuiet
INVARIANT SectionsSound
INVARIANT ActionsServe
INVARIANT SubmenusOwned
PROPERTY ViewTold
PROPERTY SubmenusLoad
CHECK_DEADLOCK FALSE
