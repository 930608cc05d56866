\* The handler that claimed the event dies.
SPECIFICATION FairSpec
CONSTANTS
    Handlers = {h1, h2}
    Events = {e1}
    Invalid = {}
    Unsupported = {}
    NoEvent = none
    MaxAttempts = 3
    MaxCrashes = 1
PROPERTY RedeliveryResolves
