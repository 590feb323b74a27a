\* The pairing screen loads in two tabs at once.
CONSTANTS
  bob = bob
  default = default
  NULL = NULL
  Request = {r1, r2}
  Seed <- MCSeed
  DefaultPassword = default
  Population <- MCPopulation
  Emails = {bob}
  Traffic = {"setup", "enable"}
  Overlap = TRUE
  Crashes = FALSE
  CodeCount = 2
  Grace = 2
  RefreshLife = 2
  MaxClock = 3
SYMMETRY Requests
SPECIFICATION TotpSpec
INVARIANT ShownSecretStands
