\* An administrator edits a profile while its account holder signs in.
CONSTANTS
  ann = ann
  bob = bob
  annPw = annPw
  bobPw = bobPw
  bobKey = bobKey
  bobCodes = bobCodes
  tab = tab
  handle = handle
  default = default
  NULL = NULL
  Request = {r1, r2, r3}
  Seed <- MCSeed
  DefaultPassword = default
  Population <- Viewer
  Emails = {ann, bob, handle}
  Traffic = {"login", "updateProfile"}
  Overlap = TRUE
  Crashes = FALSE
  CodeCount = 1
  Grace = 2
  RefreshLife = 2
  MaxClock = 2
SYMMETRY Requests
SPECIFICATION Spec
PROPERTY CodeAcceptedOnce
