\* One goroutine, one failure and one retry: a file of hardening that is not in effect.
SPECIFICATION Spec
CONSTANTS
    first = first
    second = second
    Worker <- OneGoroutine
    Hosts <- OnlyBare
    Tunnels <- NoTunnel
    MaxLaunches = 1
    MaxRetries = 1
    Budget = 1
INVARIANTS
    HardeningInEffect
CHECK_DEADLOCK FALSE
