\* Two administrators demote each other at once.
CONSTANTS
  ann = ann
  bob = bob
  annPw = annPw
  bobPw = bobPw
  bobKey = bobKey
  bobCodes = bobCodes
  tab = tab
  handle = handle
  default = default
  NULL = NULL
  Request = {r1, r2}
  Seed <- MCSeed
  DefaultPassword = default
  Population <- TwoAdmins
  Emails = {ann, bob, handle}
  Traffic = {"setAccessLevel", "toggleStatus", "remove"}
  Overlap = TRUE
  Crashes = FALSE
  CodeCount = 1
  Grace = 2
  RefreshLife = 2
  MaxClock = 2
SYMMETRY Requests
SPECIFICATION Spec
INVARIANT SomeoneAdministers
