CONSTANTS
    TxMax = 2
    TxResume = 2
    Kinds = {"data"}
    RxKinds = {}
    MaxFrames = 1
    MaxRx = 1
    MaxCtrl = 1
    Faults = {"window"}
SPECIFICATION FairSpec
CHECK_DEADLOCK FALSE
PROPERTIES BootEventHeard
