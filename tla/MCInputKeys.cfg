CONSTANTS
    Capacity = 3
    Keys = {k1, k2}
    Bytes = {test}
    TestByte = test
    DriverRegs = {}
    UartDepth = 1
    MaxKeys = 5
    MaxBytes = 1
    MaxResets = 0
SPECIFICATION Spec
INVARIANTS TypeOK KeysInOrder
PROPERTIES KeyQueuePromise KeysDelivered
