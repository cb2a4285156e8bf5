CONSTANTS
    MinAddr = 1
    MaxAddr = 6
    FreeTwice = FALSE
SPECIFICATION Spec
INVARIANTS Partition
PROPERTIES LazyReuse Implements
