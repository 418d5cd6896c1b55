CONSTANTS
    PartBits = 1
    Absent = Absent
    Invalid = Invalid
    None = None
    Tuns = {tun0, tun1}
    Addrs = {a1, a2}
    Setups <- AllSetups
    PushReplies <- Replies
    InitialDelay = 2
    MaxDelay = 7
    MaxExponent = 2
    MaxAttempt = 4
    Faults = {"port_taken", "openvpn_exits", "openvpn_dies", "restart", "command_fails", "killed", "drift"}
    MaxFaults = 2
SPECIFICATION FairSpec
INVARIANTS IInv OwnManagement SettingsAccounted ConnectedIsConfigured
PROPERTIES ImplementsService WarnedOnlyOfUnseen BackoffFollows DriftReported NeverStuck
