CONSTANTS
    Capacity = 3
    Keys = {k1}
    Bytes = {b1, test}
    TestByte = test
    DriverRegs = {"ier", "lcr"}
    UartDepth = 2
    MaxKeys = 1
    MaxBytes = 1
    MaxResets = 1
SPECIFICATION Spec
PROPERTY DriverEndRecovers
