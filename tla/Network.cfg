SPECIFICATION Spec
CONSTANTS
    s1 = s1
    s2 = s2
    r1 = r1
    Senders = {s1, s2}
    Receivers = {r1}
    Machines <- Cases
    TXDESCS = 3
    RXDESCS = 5
    PktNums = {2}
INVARIANTS RingsKeepOrder SleepingSenderIsArmed
PROPERTIES SendReturns PacketIsReceived
