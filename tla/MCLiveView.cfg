\* two viewers, one goroutine that wakes the display, two troubles with the browser
CONSTANTS
    Wakers = {w1}
    Viewers = {v1, v2}
    MaxDeaths = 2
SPECIFICATION LiveFairSpec
PROPERTIES ViewersServed CastEnds WakeNoticed
CHECK_DEADLOCK FALSE
