SPECIFICATION Spec
CONSTANTS
    Frames <- MCFrames
    Noise <- MCNoise
    Bufsize = 22
    MaxDatagrams = 3
    MaxDuplicates = 1
INVARIANT
    KeptIsSent
PROPERTIES
    EveryDatagramServed
    CloseEndsStart
\* Start has returned and nothing is under way.
CHECK_DEADLOCK FALSE
