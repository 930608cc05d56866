\* Two deliveries at a time of a valid, an invalid and an unsupported event.
SPECIFICATION FairSpec
CONSTANTS
    Handlers = {h1, h2}
    Events = {e1, e2, e3}
    Invalid = {e2}
    Unsupported = {e3}
    NoEvent = none
    MaxAttempts = 2
    MaxCrashes = 1
INVARIANT EventsAreKept
PROPERTY EventSettles
