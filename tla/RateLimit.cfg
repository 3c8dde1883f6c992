\* A minute of three units, one token a minute (the least that Retry-After has to
\* be enough for), a burst of two, a clock of three minutes.
SPECIFICATION RateSpec
CONSTANTS
    ip1 = ip1
    Addresses <- MCAddresses
    Minute = 3
    Rpm = 1
    Burst = 2
    MaxClock = 9
CHECK_DEADLOCK FALSE
INVARIANTS
    WindowBound
    RetryAfterSuffices
