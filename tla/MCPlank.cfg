SPECIFICATION MCFairSpec
CONSTANTS
  NoSender = NoSender  NoEntry = NoEntry
  s1 = s1  s2 = s2  u1 = u1  u2 = u2
  Senders = {s1, s2}
  Uris = {u1, u2}
  count = count  progress = progress  Marks = {count, progress}
  Says <- MCSays
  Installed = {u1, u2}
  PinnedUris <- MCPinned
  FastCount = 1
  AppsMove = FALSE
  MaxInFlight = 2
  Objects = {o1, o2}  Keys = {k1}  Writable = {o1, o2}  Foreign = TRUE  MaxEvents = 2
INVARIANTS UnityUpdatesShown PrefsAgree
PROPERTIES UnityEventuallyShown PrefsNoResurrection
CHECK_DEADLOCK FALSE
