SPECIFICATION HealthSpec
CONSTANTS
    HostOrder <- MCHosts
    Role <- MCRole
    Dialer = {d1}
    Threshold = 3
    MaxFailures = 2
    MaxRetries = 2
    MaxEvents = 2
    Commands = {"drain", "cancel", "remove", "add", "reload", "outage"}
INVARIANT StatusSound
PROPERTIES StatusFollows Avoided
