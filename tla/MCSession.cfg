SPECIFICATION MCSpec
CONSTANTS
  Sizes = {2, 4}  Guest = 3  Manual = 4
  NoName = NoName  Passwords = {p1, p2}
  Names = {alice, bob}
  MaxPending = 3
  Focus = {"login", "password"}
INVARIANTS PromptBelongs SelectedIsServed NoSilentLogin
PROPERTIES NothingAfterSuccess ChangesAsTold
CHECK_DEADLOCK FALSE
