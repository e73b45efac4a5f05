SPECIFICATION MCSpec
CONSTANTS
  NoWindow = NoWindow
  qt = qt
  dialog = dialog
  gtk = gtk
  Apps <- MCApps
  AppWindows <- MCAppWindows
  Pids = {1, 2}
  NoName = "none"
  NoApp = NoApp
  MaxChanges = 3
  Windows = {qt, dialog, gtk}
  Parent <- MCParent
  Gtk = {gtk}
  Desktops = {}
  WithApp = {qt, dialog, gtk}
  Version2 = {qt, dialog}
  MaxEvents = 4
INVARIANT MenuOfActive
PROPERTY MenuSettles
PROPERTY MatchesInstalled
CHECK_DEADLOCK FALSE
