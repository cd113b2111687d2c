CONSTANTS
    TxMax = 3
    TxResume = 2
    Kinds = {"data", "copied", "hci"}
    RxKinds = {"data"}
    MaxFrames = 4
    MaxRx = 4
    MaxCtrl = 1
    Faults = {"alloc", "xfer", "reboot", "window"}
SPECIFICATION Spec
CHECK_DEADLOCK FALSE
INVARIANTS PendingCovers
PROPERTIES CapRespected
