CONSTANTS
    MinAddr = 1
    MaxAddr = 5
    FreeTwice = TRUE
SPECIFICATION Spec
PROPERTY DuplicateRejected
