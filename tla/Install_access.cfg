\* One goroutine and one misread status: the firewall closes without a login.
SPECIFICATION Spec
CONSTANTS
    first = first
    second = second
    Worker <- OneGoroutine
    Hosts <- OnlyBare
    Tunnels <- NoTunnel
    MaxLaunches = 1
    MaxRetries = 0
    Budget = 1
PROPERTIES
    AccessAlwaysKept
CHECK_DEADLOCK FALSE
