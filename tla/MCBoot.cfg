CONSTANTS
    Cluster = {1}
    Server = {1}
    API = {1, 2}
    Routing = {1}
    Plugin = {1, 2}
    Peer = {1}
    Contents <- MCContents
    PageLimit = 1
    Changed = {"clusters", "apis", "plugins", "binds", "applied"}
    MaxOps = 2
    MaxFailures = 1
SPECIFICATION Spec
\* The bounded environment stops, and a loaded proxy with no event waits.
CHECK_DEADLOCK FALSE
INVARIANTS
    Synced
    PluginsSafe
PROPERTIES
    Boots
