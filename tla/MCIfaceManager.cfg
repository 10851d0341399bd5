SPECIFICATION Spec
SYMMETRY Symmetry
CONSTANTS
    rndis0 = rndis0
    rmnet0 = rmnet0
    wlan0 = wlan0
    softap0 = softap0
    LanIfs = {rndis0}
    WanIfs = {rmnet0}
    WlanIfs = {wlan0, softap0}
    Deployments <- mcDeployments
    Objs = {o1, o2}
    Manager = Manager
    NULL = NULL
    MaxQueue = 2
INVARIANTS ObjectsSound CaughtUp
