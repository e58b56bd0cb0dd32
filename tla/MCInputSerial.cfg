CONSTANTS
    Capacity = 3
    Keys = {k1}
    Bytes = {b1, test}
    TestByte = test
    DriverRegs = {"ier", "fcr"}
    UartDepth = 2
    MaxKeys = 1
    MaxBytes = 4
    MaxResets = 1
SPECIFICATION Spec
INVARIANTS  BytesInOrder
PROPERTIES BytesDelivered HandlerReturns
