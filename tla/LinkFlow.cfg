CONSTANTS
    TxMax = 3
    TxResume = 2
    Kinds = {"data", "cmd", "hci"}
    RxKinds = {"hci", "data"}
    MaxFrames = 4
    MaxRx = 3
    MaxCtrl = 1
    Faults = {}
SPECIFICATION FairSpec
CHECK_DEADLOCK FALSE
INVARIANTS TypeOK TxPendingExact NoStall
PROPERTIES FifoBothWays FramesDelivered PausedResumes
