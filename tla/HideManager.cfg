SPECIFICATION MCFairSpec
CONSTANTS
  w1 = w1  w2 = w2  NoWindow = NoWindow
  Scenarios = {"timers", "screen", "barrier", "sole"}
  Windows = {w1, w2}
  Pid <- MCPid
  Dialogs = {}
  HideTypes = {"NONE", "INTELLIGENT", "AUTO", "DODGE_MAXIMIZED", "WINDOW_DODGE"}
  Delays = {0, 1}
  Inhibitors = {"menu", "external_drag"}
  BarriersSupported = TRUE
  PressureThreshold = 2
  MaxHit = 1
INVARIANTS HidingTypeOK Settled FlagsCurrent PressureDiscarded
PROPERTIES EventuallySettles
