\* Two password changes overlap.
CONSTANTS
  ann = ann
  annPw = annPw
  annKey = annKey
  annCodes = annCodes
  tab = tab
  handle = handle
  default = default
  NULL = NULL
  Request = {r1, r2}
  Seed <- MCSeed
  DefaultPassword = default
  Population <- PlainAccount
  Emails = {ann}
  Traffic = {"changeOwn"}
  Overlap = TRUE
  Crashes = FALSE
  CodeCount = 2
  Grace = 2
  RefreshLife = 2
  MaxClock = 4
SYMMETRY Requests
SPECIFICATION AuthSpec
INVARIANT SessionsMatchPassword
