CONSTANTS
    SeqSpace = 16
    Isn = 14
    PeerIsn = 13
    RxCapacity = 2
    MaxPayload = 2
    MaxRetries = 1
    PeerBytes = 3
    PeerResets = FALSE
    ProbesWindow = FALSE
    MaxSend = 2
SPECIFICATION Spec
PROPERTY SendOkMeansAcknowledged
