SPECIFICATION HubSpec
CONSTANTS
  Sessions <- MCSessions
  MaxMishaps = 2
INVARIANTS StreamReadable FixIsHonoured OffersAgree
\* The tasks of the stream are bounded.
CHECK_DEADLOCK FALSE
