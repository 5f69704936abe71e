CONSTANTS
    right = right
    sameW0 = sameW0
    other = other
    zero = zero
    c1 = c1
    c2 = c2
    Nil = Nil
    Down = Down
    Malformed = Malformed
    P = 5
    A = 2
    B = 1
    Order = 7
    G <- baseG
    M <- generatorM
    N <- generatorN
    PBKDF2 <- halves
    Contexts = {c1, c2}
    Scalars = {0, 1, 3, 5, 8}
    MaxDraws = 2
SPECIFICATION Spec
INVARIANTS
    SameKeExactly
    VerifiedKeStays
CHECK_DEADLOCK FALSE
