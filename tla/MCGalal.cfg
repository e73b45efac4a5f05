SPECIFICATION MCSpec
CONSTANTS
 w1 = w1 w2 = w2 w3 = w3
 Windows <- MCWindows
 Counted <- MCWindows
 Resizable <- MCResizable
 Ids = {1, 2, 3, 4, 5, 6}
 Column = TRUE
 MoveMaximized = FALSE
 Toggles = FALSE
 Closed = Closed Sticky = Sticky None = None
 Shown = {w1} MaxSignals = 2
 Focus = {"column", "row", "spread", "effects", "shield"}
INVARIANTS WorkspacesSound EffectsTracked ShapeRestored ShieldUp LockedBeforeSleep
PROPERTIES OthersStayTogether FullscreenAlone EffectsComplete
CHECK_DEADLOCK FALSE
