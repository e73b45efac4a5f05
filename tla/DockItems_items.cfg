SPECIFICATION MCSpec
CONSTANTS
  a1 = a1  a2 = a2  l1 = l1  l2 = l2  f1 = f1  f2 = f2
  Empty = Empty  Absent = Absent  NoFile = NoFile  NoApp = NoApp
  Apps = {a1, a2}
  Launchers = {l1}
  Files = {f1, f2}
  Content <- MCSameFiles
  LauncherOf <- MCLauncherOfWindow
  Badges = {l1}
  StartPinnedOnly = {TRUE, FALSE}
  Hasty = FALSE
  Restarts = FALSE
INVARIANTS UniqueItems LiveRunningShown Backed SavedCurrent
PROPERTY RestartKeepsOrder
