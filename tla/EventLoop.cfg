CONSTANTS
    w1 = w1
    w2 = w2
    f1 = f1
    f2 = f2
    p1 = p1
    udp_fd = udp_fd
    None = None
    Worker = {w1, w2}
    Fd = {f1}
    Peer = {p1}
    MAX_QUEUE = 6
    MaxTicks = 1
    MaxSockets = 2
SPECIFICATION LiveSpec
INVARIANTS TypeOK WakeupsSuffice NoDeafDescriptor
PROPERTIES MessagesAreRead
