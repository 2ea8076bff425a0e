\* Two streams and two refreshes at a time, with one reload, reconnect or fault.
SPECIFICATION Spec
CONSTANTS
    Streams = {s1, s2}
    Refreshes = {r1, r2}
    MaxEvents = 2
    MaxMishaps = 1
    NoStream = NoStream
CHECK_DEADLOCK FALSE
SYMMETRY TabSymmetry
INVARIANTS
    NoLostWakeup
    SeenIsPrefix
