SPECIFICATION Spec
CONSTANTS
    Scenes = {{"profile"}, {"readers"}, {"ticker"}}
    MaxTicks = 2
    MaxAttempts = 2
    MaxFrames = 2
    Readers = {r1, r2}
    MaxReaders = 2
    MaxRequests = 2
    MaxProfiles = 1
    MaxSamples = 1
    MaxCancels = 2
    MaxExpiries = 1
INVARIANTS
    PlacesAreReturned
CHECK_DEADLOCK FALSE
