SPECIFICATION FairSpec
CONSTANTS
    Posters = {netlink, driver}
    Consumer = cmdq
    Msgs = {m1, m2, m3}
    NULL = NULL
    None = None
INVARIANTS
    QueueSound
PROPERTIES
    ImplementsEventQueues
    EventsServed
