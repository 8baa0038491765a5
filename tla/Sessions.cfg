\* One agent, one workspace name, two readings of the clock
CONSTANTS
    a1 = a1
    w1 = w1
    read = read
    execute = execute
    rest = rest
    None = None
    Agents = {a1}
    Names = {w1}
    MaxTime = 1
    MaxEvents = 6
    Quota <- Bounds
    ProfileOf <- OneAgent
    Denied = {execute}
    Versions = {1, 2}
    ManifestOf <- OneManifest
    Formats = {"json"}
SPECIFICATION Spec
INVARIANTS
    RegistryIsReplayable
    CountsMatchLog
CHECK_DEADLOCK FALSE
