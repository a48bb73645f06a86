SPECIFICATION HubSpec
CONSTANTS
  Sessions <- MCChecks
  MaxMishaps = 0
INVARIANT VerifiedChecksRan
CHECK_DEADLOCK FALSE
