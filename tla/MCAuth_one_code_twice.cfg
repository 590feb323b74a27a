\* Two sign-ins with the same recovery code at once.
CONSTANTS
  ann = ann
  annPw = annPw
  annKey = annKey
  annCodes = annCodes
  tab = tab
  handle = handle
  default = default
  NULL = NULL
  Request = {r1, r2}
  Seed <- MCSeed
  DefaultPassword = default
  Population <- EnrolledAccount
  Emails = {ann}
  Traffic = {"recovery"}
  Overlap = TRUE
  Crashes = FALSE
  CodeCount = 2
  Grace = 2
  RefreshLife = 2
  MaxClock = 4
SYMMETRY Requests
SPECIFICATION AuthSpec
INVARIANT RecoveryCodeSpentOnce
