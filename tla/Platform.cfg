\* Four people; two browsers with three passwords or two secrets; two tries at one login.
SPECIFICATION PlatformSpec
CONSTANTS
  Parts = {"team", "sign-in", "throttle", "backup", "transfer"}
  Users = {u1, u2, u3, u4}
  Roles = {"owner", "finance"}
  Browsers = {desk, phone}
  RecoveryCodes = {r}
  MaxPassword = 3
  MaxSecret = 2
  MaxPeriod = 2
  q1 = q1
  q2 = q2
  Requests <- TwoRequests
  Logins <- OneLogin
  Limit <- Tight
  Seconds = 2
  MaxClock = 3
  Uploads = {upload1, upload2}
  MaxRelease = 2
  Bundles <- SomeBundles
  Names = {1, 2, 3}
SYMMETRY Alike
INVARIANTS
  AnOwnerRemains
  CodesWorkOnce
  ServedSessionsAreCurrent
  QuotasHold
  ArchiveIsWhole
  CopiesAreWhole
CHECK_DEADLOCK FALSE
