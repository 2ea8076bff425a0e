\* Delivery on an open stream.
SPECIFICATION FairSpec
CONSTANTS
    Streams = {s1}
    Refreshes = {r1}
    MaxEvents = 3
    MaxMishaps = 0
    NoStream = NoStream
CHECK_DEADLOCK FALSE
PROPERTIES
    StreamDelivers
