CONSTANTS
    Descriptors = 3
    QueueSize = 2
    MaxFrames = 5
    ArpSlots = 2
    DnsSlots = 1
    MaxRetries = 1
    Leases <- TestLeases
    Grants <- TestGrants
    Hosts <- TestHosts
    OnLink <- TestOnLink
    Gateway = "gw"
    Resolver = "far"
    Names = {"x", "y"}
    Sessions <- TestSessions
SPECIFICATION MCSpec
INVARIANTS TypeOK RingsKeepFrames LeaseGranted ResolvedTrue PingAnswered

CHECK_DEADLOCK FALSE
PROPERTIES CallsReturn
